---------------------------- MODULE RoomFeedProofs -----------------------------
(* Proofs about RoomFeed, for all clients, rooms, history lengths and numbers of messages. *)
EXTENDS RoomFeed, SequenceTheorems, TLAPS

\* A joiner between RemoveMember and AddMember is in no room, and one that is shown the
\* history is in the room whose history it is.
Located ==
  \A c \in Client :
    /\ pc[c] \in {"leave", "enter", "catchup", "replay"} => target[c] \in Room
    /\ pc[c] = "enter" => \A r \in Room : c \notin members[r]
    /\ pc[c] \in {"catchup", "replay"} => c \in members[target[c]]

\* A member of a room believes to be in it.
OneRoom == \A r \in Room : \A c \in members[r] : currentRoom[c] = r

\* Whom a broadcast has still to reach is a member: its room's lock holds removals back.
Reached == \A c \in Client : pc[c] = "deliver" => todo[c] \subseteq members[sending[c].room]

\* Histories and the copies being replayed hold messages of their room.
OfRoom ==
  /\ \A r \in Room : \A m \in ToSet(history[r]) : m.room = r
  /\ \A c \in Client : pc[c] = "replay" => \A m \in ToSet(replay[c]) : m.room = target[c]

\* The same as HistoryIsRecent, index by index.
Recent(h, s) ==
  /\ Len(h) <= MaxHistory /\ Len(h) <= Len(s)
  /\ \A i \in 1..Len(h) : h[i] = s[Len(s) - Len(h) + i]
  /\ Len(h) < MaxHistory => Len(h) = Len(s)

\* The inductive invariant.
FeedInv ==
  /\ TypeOK
  /\ sending = [c \in Client |-> sending[c]]
  /\ Located
  /\ OneRoom
  /\ Reached
  /\ OfRoom
  /\ FeedOfRoom
  /\ \A r \in Room : Recent(history[r], stored[r])

-----------------------------------------------------------------------------
(* Sequences of messages. *)

\* What is in a sequence has the type of its elements.
LEMMA InSeq ==
  ASSUME NEW S, NEW s \in Seq(S), NEW x \in ToSet(s) PROVE x \in S
BY ElementOfSeq, LenProperties DEF ToSet

\* Append adds one element.
LEMMA InAppend ==
  ASSUME NEW S, NEW s \in Seq(S), NEW e \in S
  PROVE  /\ Append(s, e) \in Seq(S)
         /\ ToSet(Append(s, e)) = ToSet(s) \cup {e}
<1>1. Append(s, e) \in Seq(S) /\ Len(Append(s, e)) = Len(s) + 1
  OBVIOUS
<1>2. \A i \in 1..Len(s) : Append(s, e)[i] = s[i]
  OBVIOUS
<1>3. Append(s, e)[Len(s) + 1] = e
  OBVIOUS
<1>4. DOMAIN s = 1..Len(s) /\ DOMAIN Append(s, e) = 1..(Len(s) + 1) /\ Len(s) \in Nat
  BY <1>1
<1>5. ASSUME NEW x \in ToSet(Append(s, e)) PROVE x \in ToSet(s) \cup {e}
  <2>1. PICK i \in 1..(Len(s) + 1) : x = Append(s, e)[i]
    BY <1>4, <1>5 DEF ToSet
  <2>2. i = Len(s) + 1 \/ i \in 1..Len(s)
    BY <1>4
  <2> QED
    BY <1>2, <1>3, <1>4, <2>1, <2>2 DEF ToSet
<1>6. ASSUME NEW x \in ToSet(s) \cup {e} PROVE x \in ToSet(Append(s, e))
  <2>1. CASE x = e
    <3>1. Len(s) + 1 \in DOMAIN Append(s, e)
      BY <1>4
    <3> QED
      BY <1>3, <2>1, <3>1 DEF ToSet
  <2>2. CASE x \in ToSet(s)
    <3>1. PICK i \in 1..Len(s) : x = s[i]
      BY <1>4, <2>2 DEF ToSet
    <3>2. i \in DOMAIN Append(s, e)
      BY <1>4
    <3> QED
      BY <1>2, <3>1, <3>2 DEF ToSet
  <2> QED
    BY <1>6, <2>1, <2>2
<1> QED
  BY <1>1, <1>5, <1>6

\* The head and the tail of a sequence hold elements of it.
LEMMA InHeadTail ==
  ASSUME NEW S, NEW s \in Seq(S), s # <<>>
  PROVE  /\ Head(s) \in ToSet(s) /\ Head(s) \in S
         /\ Tail(s) \in Seq(S)
         /\ ToSet(Tail(s)) \subseteq ToSet(s)
<1>1. Tail(s) \in Seq(S) /\ Len(Tail(s)) = Len(s) - 1 /\ Head(s) \in S
  BY HeadTailProperties
<1>2. \A i \in 1..Len(Tail(s)) : Tail(s)[i] = s[i + 1]
  BY HeadTailProperties
<1>3. Len(s) \in Nat /\ Len(s) > 0 /\ DOMAIN s = 1..Len(s) /\ DOMAIN Tail(s) = 1..(Len(s) - 1)
  BY <1>1, EmptySeq, LenProperties
<1>4. Head(s) \in ToSet(s)
  BY <1>3 DEF ToSet
<1>5. ASSUME NEW x \in ToSet(Tail(s)) PROVE x \in ToSet(s)
  <2>1. PICK i \in 1..(Len(s) - 1) : x = Tail(s)[i]
    BY <1>3, <1>5 DEF ToSet
  <2>2. x = s[i + 1] /\ i + 1 \in DOMAIN s
    BY <1>1, <1>2, <1>3, <2>1
  <2> QED
    BY <2>2 DEF ToSet
<1> QED
  BY <1>1, <1>4, <1>5

\* Nothing else is in the sequence.
LEMMA InHeadOrTail ==
  ASSUME NEW S, NEW s \in Seq(S), s # <<>>
  PROVE  ToSet(s) \subseteq ToSet(Tail(s)) \cup {Head(s)}
<1>1. /\ Len(Tail(s)) = Len(s) - 1 /\ Tail(s) \in Seq(S)
      /\ \A i \in 1..Len(Tail(s)) : Tail(s)[i] = s[i + 1]
  BY HeadTailProperties
<1>2. Len(s) \in Nat /\ DOMAIN s = 1..Len(s) /\ DOMAIN Tail(s) = 1..(Len(s) - 1)
  BY <1>1, LenProperties
<1> SUFFICES ASSUME NEW x \in ToSet(s) PROVE x \in ToSet(Tail(s)) \/ x = Head(s)
  OBVIOUS
<1>3. PICK i \in 1..Len(s) : x = s[i]
  BY <1>2 DEF ToSet
<1>4. CASE i = 1
  BY <1>3, <1>4
<1>5. CASE i # 1
  <2>1. i - 1 \in DOMAIN Tail(s) /\ Tail(s)[i - 1] = s[i]
    BY <1>1, <1>2, <1>3, <1>5
  <2> QED
    BY <1>3, <2>1 DEF ToSet
<1> QED
  BY <1>4, <1>5

\* AddMessage keeps the history the end of what was stored, and within its length.
LEMMA KeptIsRecent ==
  ASSUME NEW h \in Seq(Message), NEW s \in Seq(Message), NEW m \in Message, Recent(h, s)
  PROVE  /\ Kept(h, m) \in Seq(Message)
         /\ ToSet(Kept(h, m)) \subseteq ToSet(h) \cup {m}
         /\ Recent(Kept(h, m), Append(s, m))
<1> DEFINE t == Append(s, m)
<1>0. Len(h) \in Nat /\ Len(s) \in Nat /\ MaxHistory \in Nat
  BY FeedAssumption
<1>1. t \in Seq(Message) /\ Len(t) = Len(s) + 1 /\ t[Len(s) + 1] = m
      /\ \A i \in 1..Len(s) : t[i] = s[i]
  OBVIOUS
<1> HIDE DEF t
<1>2. CASE MaxHistory = 0
  BY <1>0, <1>1, <1>2 DEF Kept, Recent
<1>3. CASE MaxHistory # 0 /\ Len(h) < MaxHistory
  <2> DEFINE k == Append(h, m)
  <2>1. Kept(h, m) = k
    BY <1>0, <1>3 DEF Kept
  <2>2. Len(k) = Len(h) + 1 /\ k[Len(h) + 1] = m /\ \A i \in 1..Len(h) : k[i] = h[i]
    OBVIOUS
  <2>3. Len(h) = Len(s) /\ \A i \in 1..Len(h) : h[i] = s[i]
    BY <1>0, <1>3 DEF Recent
  <2>8. k \in Seq(Message)
    BY InAppend
  <2> HIDE DEF k
  <2>4. ASSUME NEW i \in 1..Len(k) PROVE k[i] = t[Len(t) - Len(k) + i]
    <3>1. Len(t) - Len(k) + i = i /\ (i = Len(h) + 1 \/ i \in 1..Len(h))
      BY <1>0, <1>1, <2>2, <2>3
    <3> QED
      BY <1>1, <2>2, <2>3, <3>1
  <2>5. k \in Seq(Message) /\ ToSet(k) = ToSet(h) \cup {m}
    BY InAppend DEF k
  <2>6. Recent(k, t)
    BY <1>0, <1>1, <1>3, <2>2, <2>3, <2>4 DEF Recent
  <2> QED
    BY <2>1, <2>5, <2>6 DEF t
<1>4. CASE MaxHistory # 0 /\ ~(Len(h) < MaxHistory)
  <2> DEFINE k == Append(Tail(h), m)
  <2>1. Kept(h, m) = k /\ Len(h) = MaxHistory /\ h # <<>>
    BY <1>0, <1>4 DEF Kept, Recent
  <2>2. Tail(h) \in Seq(Message) /\ Len(Tail(h)) = Len(h) - 1
        /\ \A i \in 1..Len(Tail(h)) : Tail(h)[i] = h[i + 1]
    BY <2>1, HeadTailProperties
  <2>3. Len(k) = Len(h) /\ k[Len(h)] = m /\ \A i \in 1..(Len(h) - 1) : k[i] = h[i + 1]
    BY <1>0, <2>1, <2>2
  <2>8. k \in Seq(Message)
    BY <2>2, InAppend
  <2> HIDE DEF k
  <2>4. ASSUME NEW i \in 1..Len(k) PROVE k[i] = t[Len(t) - Len(k) + i]
    <3>1. CASE i = Len(h)
      <4>1. Len(t) - Len(k) + i = Len(s) + 1
        BY <1>0, <1>1, <2>3, <3>1
      <4> QED
        BY <1>1, <2>3, <3>1, <4>1
    <3>2. CASE i \in 1..(Len(h) - 1)
      <4>1. i + 1 \in 1..Len(h) /\ h[i + 1] = s[Len(s) - Len(h) + (i + 1)]
        BY <1>0, <3>2 DEF Recent
      <4>2. Len(t) - Len(k) + i = Len(s) - Len(h) + (i + 1)
            /\ Len(s) - Len(h) + (i + 1) \in 1..Len(s)
        BY <1>0, <1>1, <2>3, <3>2 DEF Recent
      <4> QED
        BY <1>1, <2>3, <3>2, <4>1, <4>2
    <3> QED
      BY <1>0, <2>3, <3>1, <3>2
  <2>5. k \in Seq(Message) /\ ToSet(k) = ToSet(Tail(h)) \cup {m}
    <3>1. PICK u \in Seq(Message) : u = Tail(h)
      BY <2>2
    <3>2. ToSet(Append(u, m)) = ToSet(u) \cup {m}
      BY InAppend
    <3> QED
      BY <2>8, <3>1, <3>2 DEF k
  <2>6. ToSet(Tail(h)) \subseteq ToSet(h)
    BY <2>1, InHeadTail
  <2>7. Recent(k, t)
    BY <1>0, <1>1, <2>1, <2>3, <2>4 DEF Recent
  <2> QED
    BY <2>1, <2>5, <2>6, <2>7 DEF t
<1> QED
  BY <1>0, <1>2, <1>3, <1>4 DEF t

\* IsSuffix compares the reversed sequences; index by index it is Recent's comparison.
LEMMA SuffixByIndex ==
  ASSUME NEW h \in Seq(Message), NEW s \in Seq(Message),
         Len(h) <= Len(s), \A i \in 1..Len(h) : h[i] = s[Len(s) - Len(h) + i]
  PROVE  IsSuffix(h, s)
<1> DEFINE a == Reverse(h)
           b == Reverse(s)
<1>1. Len(h) \in Nat /\ Len(s) \in Nat
  OBVIOUS
<1>2. a \in Seq(Message) /\ Len(a) = Len(h) /\ \A i \in 1..Len(h) : a[i] = h[Len(h) - i + 1]
  BY DEF Reverse
<1>3. b \in Seq(Message) /\ Len(b) = Len(s) /\ \A i \in 1..Len(s) : b[i] = s[Len(s) - i + 1]
  BY DEF Reverse
<1> HIDE DEF a, b
<1>4. \A i \in 1..Len(h) : a[i] = b[i]
  <2> SUFFICES ASSUME NEW i \in 1..Len(h) PROVE a[i] = b[i]
    OBVIOUS
  <2>1. Len(h) - i + 1 \in 1..Len(h) /\ i \in 1..Len(s)
    BY <1>1
  <2>2. h[Len(h) - i + 1] = s[Len(s) - Len(h) + (Len(h) - i + 1)]
    BY <2>1
  <2>3. Len(s) - Len(h) + (Len(h) - i + 1) = Len(s) - i + 1
    BY <1>1
  <2> QED
    BY <1>2, <1>3, <2>1, <2>2, <2>3
<1>5. SubSeq(a, 1, Len(a)) = a
  BY <1>2, SubSeqFull
<1>6. \A i \in 1..Len(a) : b[i] \in Message
  BY <1>1, <1>2, <1>3
<1>7. /\ SubSeq(b, 1, Len(a)) \in Seq(Message)
      /\ Len(SubSeq(b, 1, Len(a))) = Len(a)
      /\ \A i \in 1..Len(a) : SubSeq(b, 1, Len(a))[i] = b[i]
  BY <1>1, <1>2, <1>6, SubSeqProperties
<1>8. SubSeq(b, 1, Len(a)) = a
  BY <1>2, <1>4, <1>7, SeqEqual
<1> QED
  BY <1>2, <1>3, <1>5, <1>8 DEF IsSuffix, IsPrefix, a, b

-----------------------------------------------------------------------------
(* The initial state and the steps. *)

\* A relay where nobody has sent or joined satisfies the invariant.
LEMMA Established == Init => FeedInv
<1> SUFFICES ASSUME Init PROVE FeedInv
  OBVIOUS
<1>1. TypeOK
  BY FeedAssumption DEF Init, TypeOK
<1>2. Located /\ OneRoom /\ Reached /\ sending = [c \in Client |-> sending[c]]
  BY DEF Init, Located, OneRoom, Reached
<1>3. OfRoom /\ FeedOfRoom
  BY DEF Init, OfRoom, FeedOfRoom, ToSet
<1>4. \A r \in Room : Recent(history[r], stored[r])
  BY FeedAssumption DEF Init, Recent
<1> QED
  BY <1>1, <1>2, <1>3, <1>4 DEF FeedInv

\* handleChatMsg before its message is stored.
LEMMA ChatKeeps == ASSUME FeedInv, NEW c \in Client, Chat(c) PROVE FeedInv'
<1> USE DEF FeedInv, Chat, Goto
<1>0. sending[c]' = [sender |-> c, number |-> sent[c] + 1, room |-> currentRoom[c]]
      /\ currentRoom[c] \in Room /\ sent[c] \in Nat
  BY DEF TypeOK
<1>1. TypeOK'
  <2>1. sending'[c] \in {m \in Message : m.sender = c}
    BY <1>0 DEF Message
  <2>2. ASSUME NEW d \in Client, pc'[d] \in {"store", "broadcast", "deliver"}
        PROVE  sending'[d] \in {m \in Message : m.sender = d}
    <3>1. CASE d = c
      BY <2>1, <3>1
    <3>2. CASE d # c
      <4>1. pc'[d] = pc[d] /\ sending'[d] = sending[d]
        BY <3>2 DEF TypeOK
      <4> QED
        BY <2>2, <4>1 DEF TypeOK
    <3> QED
      BY <3>1, <3>2
  <2>3. pc' \in [Client -> {"idle", "store", "broadcast", "deliver",
                            "leave", "enter", "catchup", "replay", "gone"}]
        /\ sent' \in [Client -> Nat]
    BY <1>0 DEF TypeOK
  <2> QED
    BY <2>2, <2>3 DEF TypeOK
<1>2. Located' /\ OneRoom' /\ sending' = [d \in Client |-> sending'[d]]
  BY DEF Located, OneRoom, TypeOK
<1>3. Reached'
  BY DEF Reached, TypeOK
<1>4. OfRoom' /\ FeedOfRoom'
  BY DEF OfRoom, FeedOfRoom, TypeOK
<1> QED
  BY <1>1, <1>2, <1>3, <1>4

\* AddMessage.
LEMMA StoreKeeps == ASSUME FeedInv, NEW c \in Client, Store(c) PROVE FeedInv'
<1> USE DEF FeedInv, Store, Goto
<1> DEFINE m == sending[c]
           h == history[m.room]
           s == stored[m.room]
<1>0. m \in Message /\ m.sender = c /\ m.room \in Room
      /\ h \in Seq(Message) /\ s \in Seq(Message) /\ Recent(h, s)
  BY DEF TypeOK, Message
<1>1. /\ Kept(h, m) \in Seq(Message)
      /\ ToSet(Kept(h, m)) \subseteq ToSet(h) \cup {m}
      /\ Recent(Kept(h, m), Append(s, m))
  BY <1>0, KeptIsRecent
<1>2. history' = [history EXCEPT ![m.room] = Kept(h, m)]
      /\ stored' = [stored EXCEPT ![m.room] = Append(s, m)]
  OBVIOUS
<1>3. Append(s, m) \in Seq(Message)
  BY <1>0
<1>4. TypeOK'
  <2>1. history' \in [Room -> Seq(Message)] /\ stored' \in [Room -> Seq(Message)]
    BY <1>0, <1>1, <1>2, <1>3 DEF TypeOK
  <2> QED
    BY <2>1 DEF TypeOK
<1>5. Located' /\ OneRoom' /\ Reached' /\ FeedOfRoom' /\ sending' = [d \in Client |-> sending'[d]]
  BY DEF Located, OneRoom, Reached, FeedOfRoom, TypeOK
<1>6. OfRoom'
  <2>1. ASSUME NEW r \in Room, NEW x \in ToSet(history'[r]) PROVE x.room = r
    <3>1. CASE r = m.room
      <4>1. x \in ToSet(h) \cup {m}
        BY <1>0, <1>1, <1>2, <2>1, <3>1 DEF TypeOK
      <4> QED
        BY <1>0, <3>1, <4>1 DEF OfRoom
    <3>2. CASE r # m.room
      <4>1. history'[r] = history[r]
        BY <1>2, <3>2 DEF TypeOK
      <4> QED
        BY <2>1, <4>1 DEF OfRoom
    <3> QED
      BY <3>1, <3>2
  <2>2. ASSUME NEW d \in Client, pc'[d] = "replay", NEW x \in ToSet(replay'[d])
        PROVE  x.room = target'[d]
    <3>1. pc[d] = "replay"
      BY <2>2 DEF TypeOK
    <3> QED
      BY <2>2, <3>1 DEF OfRoom
  <2> QED
    BY <2>1, <2>2 DEF OfRoom
<1>7. ASSUME NEW r \in Room PROVE Recent(history'[r], stored'[r])
  BY <1>0, <1>1, <1>2 DEF TypeOK
<1> QED
  BY <1>4, <1>5, <1>6, <1>7

\* Broadcast takes the room's lock.
LEMMA BroadcastKeeps == ASSUME FeedInv, NEW c \in Client, Broadcast(c) PROVE FeedInv'
<1> USE DEF FeedInv, Broadcast, Goto
<1>0. sending[c].room \in Room /\ members[sending[c].room] \subseteq Client
  BY DEF TypeOK, Message
<1>1. TypeOK'
  BY <1>0 DEF TypeOK
<1>2. Located' /\ OneRoom' /\ FeedOfRoom' /\ sending' = [d \in Client |-> sending'[d]]
  BY DEF Located, OneRoom, FeedOfRoom, TypeOK
<1>3. Reached'
  BY DEF Reached, TypeOK
<1>4. OfRoom'
  BY DEF OfRoom, TypeOK
<1> QED
  BY <1>1, <1>2, <1>3, <1>4

\* A Send of a message to a member of its room.
LEMMA SendKeeps ==
  ASSUME FeedInv, NEW d \in Client, NEW m \in Message, SendTo(d, m),
         d \in members[m.room], UNCHANGED <<currentRoom, members>>
  PROVE  /\ feed' \in [Client -> Seq(Message)]
         /\ lost' \in [Client -> SUBSET Message]
         /\ FeedOfRoom'
<1> USE DEF FeedInv
<1>1. CASE feed' = [feed EXCEPT ![d] = Append(@, m)] /\ UNCHANGED lost
  <2>1. /\ Append(feed[d], m) \in Seq(Message)
        /\ ToSet(Append(feed[d], m)) = ToSet(feed[d]) \cup {m}
    BY InAppend DEF TypeOK
  <2>2. feed' \in [Client -> Seq(Message)] /\ lost' \in [Client -> SUBSET Message]
    BY <1>1, <2>1 DEF TypeOK
  <2>3. m.room \in Room /\ currentRoom[d] = m.room
    BY DEF OneRoom, Message
  <2>4. ASSUME NEW e \in Client, NEW x \in ToSet(feed'[e])
        PROVE  x.room = currentRoom[e] /\ e \in members[x.room]
    <3>1. CASE e = d
      <4>1. x \in ToSet(feed[d]) \cup {m}
        BY <1>1, <2>1, <2>4, <3>1 DEF TypeOK
      <4> QED
        BY <2>3, <3>1, <4>1 DEF FeedOfRoom
    <3>2. CASE e # d
      <4>1. feed'[e] = feed[e]
        BY <1>1, <3>2 DEF TypeOK
      <4> QED
        BY <2>4, <4>1 DEF FeedOfRoom
    <3> QED
      BY <3>1, <3>2
  <2> QED
    BY <2>2, <2>4 DEF FeedOfRoom
<1>2. CASE lost' = [lost EXCEPT ![d] = @ \cup {m}] /\ UNCHANGED feed
  BY <1>2 DEF TypeOK, FeedOfRoom
<1> QED
  BY <1>1, <1>2 DEF SendTo

\* One Send of a broadcast.
LEMMA DeliverKeeps == ASSUME FeedInv, NEW c \in Client, Deliver(c) PROVE FeedInv'
<1> USE DEF FeedInv
<1>1. PICK d \in todo[c] : todo' = [todo EXCEPT ![c] = @ \ {d}] /\ SendTo(d, sending[c])
  BY DEF Deliver
<1>2. /\ pc[c] = "deliver"
      /\ UNCHANGED <<pc, hubMu, currentRoom, target, sent, sending, replay, members, history,
                     stored>>
  BY DEF Deliver
<1>3. d \in Client /\ sending[c] \in Message /\ d \in members[sending[c].room]
  BY <1>2 DEF TypeOK, Reached
<1>4. /\ feed' \in [Client -> Seq(Message)] /\ lost' \in [Client -> SUBSET Message]
      /\ FeedOfRoom'
  BY <1>1, <1>2, <1>3, SendKeeps
<1>5. TypeOK'
  BY <1>1, <1>2, <1>4 DEF TypeOK
<1>6. Located' /\ OneRoom' /\ OfRoom' /\ sending' = [e \in Client |-> sending'[e]]
  BY <1>2 DEF Located, OneRoom, OfRoom
<1>7. Reached'
  BY <1>1, <1>2 DEF Reached, TypeOK
<1>8. \A r \in Room : Recent(history'[r], stored'[r])
  BY <1>2
<1> QED
  BY <1>4, <1>5, <1>6, <1>7, <1>8

\* Broadcast is over.
LEMMA DeliveredKeeps == ASSUME FeedInv, NEW c \in Client, Delivered(c) PROVE FeedInv'
<1> USE DEF FeedInv, Delivered, Goto
<1>1. TypeOK'
  BY DEF TypeOK
<1>2. Located' /\ OneRoom' /\ FeedOfRoom'
  BY DEF Located, OneRoom, FeedOfRoom, TypeOK
<1>4. sending' = [d \in Client |-> sending'[d]]
  OBVIOUS
<1>3. Reached' /\ OfRoom'
  BY DEF Reached, OfRoom, TypeOK
<1> QED
  BY <1>1, <1>2, <1>3, <1>4

\* A handler takes h.mu to join a room.
LEMMA JoinKeeps ==
  ASSUME FeedInv, NEW c \in Client, NEW r \in Room, Join(c, r) PROVE FeedInv'
<1> USE DEF FeedInv, Join, Goto
<1>1. TypeOK'
  BY DEF TypeOK
<1>2. Located' /\ OneRoom'
  BY DEF Located, OneRoom, TypeOK
<1>3. Reached' /\ OfRoom' /\ FeedOfRoom'
  BY DEF Reached, OfRoom, FeedOfRoom, TypeOK
<1> QED
  BY <1>1, <1>2, <1>3

\* A client that leaves its room, or is gone, is in no room and has nothing of any.
LEMMA RemovedKeeps ==
  ASSUME FeedInv, NEW c \in Client, NEW line \in {"enter", "gone"},
         pc[c] \in {"leave", "idle"}, line = "enter" => pc[c] = "leave",
         currentRoom[c] # NoRoom => Unread(currentRoom[c]), Removed(c), Goto(c, line),
         UNCHANGED <<hubMu, currentRoom, target, sent, sending, todo, replay, history, stored>>
  PROVE  FeedInv'
<1> USE DEF FeedInv, Removed, Goto
<1>1. TypeOK'
  BY DEF TypeOK
<1>2. \A r \in Room : members'[r] = members[r] \ {c}
  BY DEF OneRoom, TypeOK
<1>3. OneRoom'
  BY <1>2 DEF OneRoom
<1>4. Located'
  BY <1>2 DEF Located, TypeOK
<1>5. Reached'
  <2> SUFFICES ASSUME NEW d \in Client, pc'[d] = "deliver"
               PROVE  todo[d] \subseteq members'[sending[d].room]
    BY DEF Reached
  <2>1. pc[d] = "deliver" /\ sending[d].room \in Room
    BY DEF TypeOK, Message
  <2>2. todo[d] \subseteq members[sending[d].room]
    BY <2>1 DEF Reached
  <2>3. c \notin todo[d]
    BY <2>1, <2>2, FeedAssumption DEF Unread, OneRoom
  <2> QED
    BY <1>2, <2>1, <2>2, <2>3
<1>6. OfRoom'
  BY DEF OfRoom, TypeOK
<1>7. FeedOfRoom'
  <2> SUFFICES ASSUME NEW d \in Client, NEW m \in ToSet(feed'[d])
               PROVE  m.room = currentRoom[d] /\ d \in members'[m.room]
    BY DEF FeedOfRoom
  <2>1. d # c
    BY DEF TypeOK, ToSet
  <2>2. feed'[d] = feed[d]
    BY <2>1 DEF TypeOK
  <2>3. m \in Message
    BY <2>2, InSeq DEF TypeOK
  <2>4. m.room = currentRoom[d] /\ d \in members[m.room] /\ m.room \in Room
    BY <2>2, <2>3 DEF FeedOfRoom, Message
  <2> QED
    BY <1>2, <2>1, <2>4
<1> QED
  BY <1>1, <1>3, <1>4, <1>5, <1>6, <1>7

\* A joiner is turned away.
LEMMA DeniedKeeps == ASSUME FeedInv, NEW c \in Client, Denied(c) PROVE FeedInv'
<1> USE DEF FeedInv, Denied, Goto
<1>1. TypeOK'
  BY DEF TypeOK
<1>2. Located' /\ OneRoom'
  BY DEF Located, OneRoom, TypeOK
<1>3. Reached' /\ OfRoom' /\ FeedOfRoom'
  BY DEF Reached, OfRoom, FeedOfRoom, TypeOK
<1> QED
  BY <1>1, <1>2, <1>3

\* A joiner enters its room with nothing shown yet.
LEMMA EnterKeeps == ASSUME FeedInv, NEW c \in Client, Enter(c) PROVE FeedInv'
<1> USE DEF FeedInv, Enter, Goto
<1>0. target[c] \in Room /\ \A r \in Room : c \notin members[r]
  BY DEF Located
<1>1. TypeOK'
  BY <1>0 DEF TypeOK
<1>2. Located'
  BY <1>0 DEF Located, TypeOK
<1>3. OneRoom'
  BY <1>0 DEF OneRoom, TypeOK
<1>4. Reached'
  BY <1>0 DEF Reached, TypeOK, Message
<1>5. OfRoom'
  BY DEF OfRoom, TypeOK
<1>6. FeedOfRoom'
  <2> SUFFICES ASSUME NEW d \in Client, NEW m \in ToSet(feed[d])
               PROVE  m.room = currentRoom'[d] /\ d \in members'[m.room]
    BY DEF FeedOfRoom
  <2>1. m \in Message
    BY InSeq DEF TypeOK
  <2>2. m.room = currentRoom[d] /\ d \in members[m.room] /\ m.room \in Room
    BY <2>1 DEF FeedOfRoom, Message
  <2>3. d # c
    BY <1>0, <2>2
  <2> QED
    BY <1>0, <2>2, <2>3 DEF TypeOK
<1> QED
  BY <1>1, <1>2, <1>3, <1>4, <1>5, <1>6

\* GetHistory.
LEMMA CatchUpKeeps == ASSUME FeedInv, NEW c \in Client, CatchUp(c) PROVE FeedInv'
<1> USE DEF FeedInv, CatchUp, Goto
<1>0. target[c] \in Room
  BY DEF Located
<1>1. TypeOK'
  BY <1>0 DEF TypeOK
<1>2. Located' /\ OneRoom'
  BY DEF Located, OneRoom, TypeOK
<1>3. Reached' /\ FeedOfRoom'
  BY DEF Reached, FeedOfRoom, TypeOK
<1>4. OfRoom'
  BY <1>0 DEF OfRoom, TypeOK
<1> QED
  BY <1>1, <1>2, <1>3, <1>4

\* One Send of the history.
LEMMA ReplayKeeps == ASSUME FeedInv, NEW c \in Client, Replay(c) PROVE FeedInv'
<1> USE DEF FeedInv
<1>1. /\ pc[c] = "replay" /\ replay[c] # <<>> /\ SendTo(c, Head(replay[c]))
      /\ replay' = [replay EXCEPT ![c] = Tail(@)]
      /\ UNCHANGED <<pc, hubMu, currentRoom, target, sent, sending, todo, members, history, stored>>
  BY DEF Replay
<1>2. replay[c] \in Seq(Message)
  BY DEF TypeOK
<1>3. /\ Head(replay[c]) \in ToSet(replay[c]) /\ Head(replay[c]) \in Message
      /\ Tail(replay[c]) \in Seq(Message)
      /\ ToSet(Tail(replay[c])) \subseteq ToSet(replay[c])
  BY <1>1, <1>2, InHeadTail
<1>4. Head(replay[c]).room = target[c] /\ c \in members[target[c]]
  BY <1>1, <1>3 DEF OfRoom, Located
<1>5. /\ feed' \in [Client -> Seq(Message)] /\ lost' \in [Client -> SUBSET Message]
      /\ FeedOfRoom'
  BY <1>1, <1>3, <1>4, SendKeeps
<1>6. TypeOK'
  BY <1>1, <1>3, <1>5 DEF TypeOK
<1>7. Located' /\ OneRoom' /\ Reached' /\ sending' = [e \in Client |-> sending'[e]]
  BY <1>1 DEF Located, OneRoom, Reached
<1>8. OfRoom'
  BY <1>1, <1>3 DEF OfRoom, TypeOK
<1>9. \A r \in Room : Recent(history'[r], stored'[r])
  BY <1>1
<1> QED
  BY <1>5, <1>6, <1>7, <1>8, <1>9

\* The joiner's handler returns.
LEMMA JoinedKeeps == ASSUME FeedInv, NEW c \in Client, Joined(c) PROVE FeedInv'
<1> USE DEF FeedInv, Joined, Goto
<1>1. TypeOK'
  BY DEF TypeOK
<1>2. Located' /\ OneRoom'
  BY DEF Located, OneRoom, TypeOK
<1>3. Reached' /\ OfRoom' /\ FeedOfRoom'
  BY DEF Reached, OfRoom, FeedOfRoom, TypeOK
<1> QED
  BY <1>1, <1>2, <1>3

-----------------------------------------------------------------------------
(* Theorems. *)

\* Every step preserves the invariant.
LEMMA StepKeeps == FeedInv /\ [Next]_vars => FeedInv'
<1> SUFFICES ASSUME FeedInv, [Next]_vars PROVE FeedInv'
  OBVIOUS
<1>1. CASE UNCHANGED vars
  BY <1>1 DEF vars, FeedInv, TypeOK, Located, OneRoom, Reached, OfRoom, FeedOfRoom
<1>2. ASSUME NEW c \in Client, Chat(c) PROVE FeedInv'
  BY <1>2, ChatKeeps
<1>3. ASSUME NEW c \in Client, NEW r \in Room, Join(c, r) PROVE FeedInv'
  BY <1>3, JoinKeeps
<1>4. ASSUME NEW c \in Client, Leave(c) PROVE FeedInv'
  BY <1>4, RemovedKeeps DEF Leave
<1>5. ASSUME NEW c \in Client, Disconnect(c) PROVE FeedInv'
  BY <1>5, RemovedKeeps DEF Disconnect
<1>6. ASSUME NEW c \in Client, Step(c) PROVE FeedInv'
  BY <1>4, <1>6, StoreKeeps, BroadcastKeeps, DeliverKeeps, DeliveredKeeps, DeniedKeeps,
     EnterKeeps, CatchUpKeeps, ReplayKeeps, JoinedKeeps DEF Step
<1> QED
  BY <1>1, <1>2, <1>3, <1>5, <1>6 DEF Next

\* The invariant holds in every reachable state.
THEOREM Invariance == Spec => []FeedInv
BY Established, StepKeeps, PTL DEF Spec, Safety

\* Handlers are at a line they have, and histories and queues hold messages.
THEOREM TypeCorrect == Spec => []TypeOK
<1>1. FeedInv => TypeOK
  BY DEF FeedInv
<1> QED
  BY <1>1, Invariance, PTL

\* Nothing of a room is queued for a client outside it, whichever way broadcasts, moves,
\* denials and disconnections interleave.
THEOREM NothingFromOutside == Spec => []FeedOfRoom
<1>1. FeedInv => FeedOfRoom
  BY DEF FeedInv
<1> QED
  BY <1>1, Invariance, PTL

\* The history is the end of what was stored, as long as MaxHistory allows.
THEOREM RecentHistory == Spec => []HistoryIsRecent
<1>1. FeedInv => HistoryIsRecent
  <2> SUFFICES ASSUME FeedInv, NEW r \in Room
               PROVE  /\ Len(history[r]) <= MaxHistory
                      /\ IsSuffix(history[r], stored[r])
                      /\ Len(history[r]) < MaxHistory => history[r] = stored[r]
    BY DEF HistoryIsRecent
  <2>1. history[r] \in Seq(Message) /\ stored[r] \in Seq(Message) /\ Recent(history[r], stored[r])
    BY DEF FeedInv, TypeOK
  <2>2. IsSuffix(history[r], stored[r])
    BY <2>1, SuffixByIndex DEF Recent
  <2>3. ASSUME Len(history[r]) < MaxHistory PROVE history[r] = stored[r]
    <3>1. Len(history[r]) = Len(stored[r])
      BY <2>1, <2>3 DEF Recent
    <3>2. \A i \in 1..Len(history[r]) : history[r][i] = stored[r][i]
      BY <2>1, <3>1 DEF Recent
    <3> QED
      BY <2>1, <3>1, <3>2, SeqEqual
  <2> QED
    BY <2>1, <2>2, <2>3 DEF Recent
<1> QED
  BY <1>1, Invariance, PTL

-----------------------------------------------------------------------------
(* No gap. *)

\* A message whose handler has still to reach the client.
Pending(m, c) ==
  \E s \in Client :
    /\ sending[s] = m
    /\ pc[s] \in {"store", "broadcast"} \/ (pc[s] = "deliver" /\ c \in todo[s])

\* What a member is owed of the history it has been sent, or will be: with the copy that
\* is being replayed, or by a handler under way.
Owed(c, m) ==
  m \in ToSet(feed[c]) \/ m \in lost[c] \/ m \in ToSet(replay[c]) \/ Pending(m, c)

\* The invariant behind NoGap.
GapInv ==
  /\ \A c \in Client : pc[c] # "replay" => replay[c] = <<>>
  /\ \A r \in Room : \A c \in members[r] : pc[c] # "catchup" =>
       \A m \in ToSet(history[r]) : Owed(c, m)

\* A step that takes nothing from a member and leaves its room's history keeps what it is owed.
LEMMA StillOwed ==
  ASSUME NEW c \in Client, NEW m, Owed(c, m),
         ToSet(feed[c]) \subseteq ToSet(feed'[c]), lost[c] \subseteq lost'[c],
         ToSet(replay[c]) \subseteq ToSet(replay'[c]) \cup ToSet(feed'[c]) \cup lost'[c],
         Pending(m, c) => Pending(m, c)' \/ m \in ToSet(feed'[c]) \/ m \in lost'[c]
  PROVE  Owed(c, m)'
BY DEF Owed

\* A Send reaches its client or is counted as lost, and takes nothing from anybody.
LEMMA SendReaches ==
  ASSUME FeedInv, NEW d \in Client, NEW m \in Message, SendTo(d, m)
  PROVE  /\ m \in ToSet(feed'[d]) \/ m \in lost'[d]
         /\ \A c \in Client : ToSet(feed[c]) \subseteq ToSet(feed'[c]) /\ lost[c] \subseteq lost'[c]
<1> USE DEF FeedInv
<1>1. CASE feed' = [feed EXCEPT ![d] = Append(@, m)] /\ UNCHANGED lost
  <2>1. ToSet(Append(feed[d], m)) = ToSet(feed[d]) \cup {m}
    BY InAppend DEF TypeOK
  <2>2. feed'[d] = Append(feed[d], m) /\ \A c \in Client \ {d} : feed'[c] = feed[c]
    BY <1>1 DEF TypeOK
  <2> QED
    BY <1>1, <2>1, <2>2
<1>2. CASE lost' = [lost EXCEPT ![d] = @ \cup {m}] /\ UNCHANGED feed
  BY <1>2 DEF TypeOK
<1> QED
  BY <1>1, <1>2 DEF SendTo

\* A handler that moves on without finishing leaves the pending messages pending.
LEMMA StaysPending ==
  ASSUME FeedInv, NEW c \in Client, NEW d \in Client, NEW m, Pending(m, c),
         \A s \in Client \ {d} : sending'[s] = sending[s] /\ pc'[s] = pc[s] /\ todo'[s] = todo[s],
         \/ pc[d] \notin {"store", "broadcast", "deliver"}
         \/ /\ sending'[d] = sending[d]
            /\ \/ pc'[d] \in {"store", "broadcast"}
               \/ pc'[d] = "deliver" /\ c \in todo'[d]
         \/ sending[d] # m
         \/ pc[d] = "deliver" /\ c \notin todo[d]
  PROVE  Pending(m, c)'
BY DEF Pending

\* The history grows by a message whose broadcast is still to come.
LEMMA StoreOwes == ASSUME FeedInv, GapInv, NEW c \in Client, Store(c) PROVE GapInv'
<1> USE DEF Store, Goto
<1> DEFINE m == sending[c]
<1>0. /\ m \in Message /\ m.room \in Room /\ pc = [d \in Client |-> pc[d]]
      /\ history[m.room] \in Seq(Message) /\ stored[m.room] \in Seq(Message)
      /\ Recent(history[m.room], stored[m.room])
      /\ history \in [Room -> Seq(Message)] /\ \A r \in Room : members[r] \subseteq Client
  BY DEF FeedInv, TypeOK, Message
<1>1. ToSet(Kept(history[m.room], m)) \subseteq ToSet(history[m.room]) \cup {m}
  BY <1>0, KeptIsRecent
<1>2. \A r \in Room : ToSet(history'[r]) \subseteq ToSet(history[r]) \cup {m}
  BY <1>0, <1>1
<1>3. ASSUME NEW r \in Room, NEW d \in members[r], pc'[d] # "catchup", NEW x \in ToSet(history'[r])
      PROVE  Owed(d, x)'
  <2>1. d \in Client /\ pc[d] # "catchup"
    BY <1>0, <1>3
  <2>2. CASE x = m
    <3>1. Pending(m, d)'
      BY <1>0 DEF Pending
    <3> QED
      BY <2>2, <3>1 DEF Owed
  <2>3. CASE x \in ToSet(history[r])
    <3>1. Owed(d, x)
      BY <1>3, <2>1, <2>3 DEF GapInv
    <3>2. Pending(x, d) => Pending(x, d)'
      BY <1>0, <2>1, StaysPending
    <3> QED
      BY <2>1, <3>1, <3>2, StillOwed
  <2> QED
    BY <1>2, <1>3, <2>2, <2>3
<1>4. ASSUME NEW d \in Client, pc'[d] # "replay" PROVE replay'[d] = <<>>
  BY <1>0, <1>4 DEF GapInv
<1> QED
  BY <1>3, <1>4 DEF GapInv

\* A member's copy of the history is made while it is a member.
LEMMA CatchUpOwes == ASSUME FeedInv, GapInv, NEW c \in Client, CatchUp(c) PROVE GapInv'
<1> USE DEF CatchUp, Goto
<1>0. /\ pc = [d \in Client |-> pc[d]] /\ replay \in [Client -> Seq(Message)]
      /\ \A r \in Room : members[r] \subseteq Client
      /\ \A r \in Room : c \in members[r] => r = target[c]
  BY DEF FeedInv, TypeOK, Located, OneRoom
<1>1. ASSUME NEW r \in Room, NEW d \in members[r], pc'[d] # "catchup", NEW x \in ToSet(history[r])
      PROVE  Owed(d, x)'
  <2>1. CASE d = c
    <3>1. x \in ToSet(replay'[c])
      BY <1>0, <1>1, <2>1
    <3> QED
      BY <2>1, <3>1 DEF Owed
  <2>2. CASE d # c
    <3>1. d \in Client /\ pc[d] # "catchup" /\ replay'[d] = replay[d]
      BY <1>0, <1>1, <2>2
    <3>2. Owed(d, x)
      BY <1>1, <3>1 DEF GapInv
    <3>3. Pending(x, d) => Pending(x, d)'
      BY <1>0, <3>1, StaysPending
    <3> QED
      BY <3>1, <3>2, <3>3, StillOwed
  <2> QED
    BY <2>1, <2>2
<1>2. ASSUME NEW d \in Client, pc'[d] # "replay" PROVE replay'[d] = <<>>
  BY <1>0, <1>2 DEF GapInv
<1> QED
  BY <1>1, <1>2 DEF GapInv

\* A Send of the history.
LEMMA ReplayOwes == ASSUME FeedInv, GapInv, NEW c \in Client, Replay(c) PROVE GapInv'
<1>0. /\ pc[c] = "replay" /\ replay[c] # <<>> /\ SendTo(c, Head(replay[c]))
      /\ replay' = [replay EXCEPT ![c] = Tail(@)]
      /\ UNCHANGED <<pc, hubMu, currentRoom, target, sent, sending, todo, members, history, stored>>
  BY DEF Replay
<1>1. /\ replay \in [Client -> Seq(Message)] /\ \A r \in Room : members[r] \subseteq Client
  BY DEF FeedInv, TypeOK
<1>2. Head(replay[c]) \in Message
  BY <1>0, <1>1, InHeadTail
<1>3. /\ Head(replay[c]) \in ToSet(feed'[c]) \/ Head(replay[c]) \in lost'[c]
      /\ \A d \in Client : ToSet(feed[d]) \subseteq ToSet(feed'[d]) /\ lost[d] \subseteq lost'[d]
  BY <1>0, <1>2, SendReaches
<1>4. ToSet(replay[c]) \subseteq ToSet(Tail(replay[c])) \cup {Head(replay[c])}
  BY <1>0, <1>1, InHeadOrTail
<1>5. \A d \in Client :
        ToSet(replay[d]) \subseteq ToSet(replay'[d]) \cup ToSet(feed'[d]) \cup lost'[d]
  BY <1>0, <1>1, <1>3, <1>4
<1>6. ASSUME NEW r \in Room, NEW d \in members[r], pc[d] # "catchup", NEW x \in ToSet(history[r])
      PROVE  Owed(d, x)'
  <2>1. d \in Client /\ Owed(d, x)
    BY <1>1, <1>6 DEF GapInv
  <2>2. Pending(x, d) => Pending(x, d)'
    BY <1>0 DEF Pending
  <2> QED
    BY <1>3, <1>5, <2>1, <2>2, StillOwed
<1> QED
  BY <1>0, <1>1, <1>6 DEF GapInv

\* A Send of a broadcast: its client is no longer owed the message.
LEMMA DeliverOwes == ASSUME FeedInv, GapInv, NEW c \in Client, Deliver(c) PROVE GapInv'
<1>0. PICK e \in todo[c] : todo' = [todo EXCEPT ![c] = @ \ {e}] /\ SendTo(e, sending[c])
  BY DEF Deliver
<1>1. /\ pc[c] = "deliver"
      /\ UNCHANGED <<pc, hubMu, currentRoom, target, sent, sending, replay, members, history,
                     stored>>
  BY DEF Deliver
<1>2. /\ todo \in [Client -> SUBSET Client] /\ \A r \in Room : members[r] \subseteq Client
      /\ e \in Client /\ sending[c] \in Message
  BY <1>0, <1>1 DEF FeedInv, TypeOK
<1>3. /\ sending[c] \in ToSet(feed'[e]) \/ sending[c] \in lost'[e]
      /\ \A d \in Client : ToSet(feed[d]) \subseteq ToSet(feed'[d]) /\ lost[d] \subseteq lost'[d]
  BY <1>0, <1>2, SendReaches
<1>4. ASSUME NEW r \in Room, NEW d \in members[r], pc[d] # "catchup", NEW x \in ToSet(history[r])
      PROVE  Owed(d, x)'
  <2>1. d \in Client /\ Owed(d, x)
    BY <1>2, <1>4 DEF GapInv
  <2>2. ASSUME Pending(x, d) PROVE Pending(x, d)' \/ x \in ToSet(feed'[d]) \/ x \in lost'[d]
    <3>1. CASE x = sending[c] /\ d = e
      BY <1>3, <3>1
    <3>2. CASE ~(x = sending[c] /\ d = e)
      BY <1>0, <1>1, <1>2, <2>2, <3>2 DEF Pending
    <3> QED
      BY <3>1, <3>2
  <2> QED
    BY <1>1, <1>3, <2>1, <2>2, StillOwed
<1> QED
  BY <1>1, <1>4 DEF GapInv

\* A client that leaves its room is owed nothing; nobody else is affected.
LEMMA RemovedOwes ==
  ASSUME FeedInv, GapInv, NEW c \in Client, NEW line \in {"enter", "gone"},
         pc[c] \in {"leave", "idle"}, Removed(c), Goto(c, line),
         UNCHANGED <<sending, todo, replay, history>>
  PROVE  GapInv'
<1> USE DEF Goto
<1>0. /\ pc = [d \in Client |-> pc[d]] /\ feed \in [Client -> Seq(Message)]
      /\ lost \in [Client -> SUBSET Message]
      /\ \A r \in Room : members[r] \subseteq Client
      /\ \A r \in Room : members'[r] = members[r] \ {c}
  BY DEF FeedInv, TypeOK, OneRoom, Removed
<1>1. ASSUME NEW r \in Room, NEW d \in members'[r], pc'[d] # "catchup", NEW x \in ToSet(history[r])
      PROVE  Owed(d, x)'
  <2>1. d \in Client /\ d # c /\ d \in members[r] /\ pc[d] # "catchup"
        /\ feed'[d] = feed[d] /\ lost'[d] = lost[d]
    BY <1>0, <1>1 DEF Removed
  <2>2. Owed(d, x)
    BY <1>1, <2>1 DEF GapInv
  <2>3. Pending(x, d) => Pending(x, d)'
    BY <1>0, <2>1, StaysPending
  <2> QED
    BY <2>1, <2>2, <2>3, StillOwed
<1>2. ASSUME NEW d \in Client, pc'[d] # "replay" PROVE replay'[d] = <<>>
  BY <1>0, <1>2 DEF GapInv
<1> QED
  BY <1>1, <1>2 DEF GapInv

\* A joiner enters: it is owed nothing before its catch-up.
LEMMA EnterOwes == ASSUME FeedInv, GapInv, NEW c \in Client, Enter(c) PROVE GapInv'
<1> USE DEF Enter, Goto
<1>0. /\ pc = [d \in Client |-> pc[d]] /\ target[c] \in Room
      /\ \A r \in Room : members[r] \subseteq Client /\ members'[r] \subseteq members[r] \cup {c}
  BY DEF FeedInv, TypeOK, Located
<1>1. ASSUME NEW r \in Room, NEW d \in members'[r], pc'[d] # "catchup", NEW x \in ToSet(history[r])
      PROVE  Owed(d, x)'
  <2>1. d \in Client /\ d # c /\ d \in members[r] /\ pc[d] # "catchup"
    BY <1>0, <1>1
  <2>2. Owed(d, x)
    BY <1>1, <2>1 DEF GapInv
  <2>3. Pending(x, d) => Pending(x, d)'
    BY <1>0, <2>1, StaysPending
  <2> QED
    BY <2>1, <2>2, <2>3, StillOwed
<1>2. ASSUME NEW d \in Client, pc'[d] # "replay" PROVE replay'[d] = <<>>
  BY <1>0, <1>2 DEF GapInv
<1> QED
  BY <1>1, <1>2 DEF GapInv

\* The other steps of a handler neither send nor move a member.
LEMMA QuietOwes ==
  ASSUME FeedInv, GapInv, NEW c \in Client,
         \/ Chat(c) \/ Broadcast(c) \/ Delivered(c) \/ Denied(c) \/ Joined(c)
         \/ \E r \in Room : Join(c, r)
  PROVE  GapInv'
<1>0. /\ pc = [d \in Client |-> pc[d]] /\ todo \in [Client -> SUBSET Client]
      /\ \A r \in Room : members[r] \subseteq Client
      /\ sending = [d \in Client |-> sending[d]]
      /\ UNCHANGED <<replay, members, history, feed, lost>>
      /\ \A s \in Client \ {c} : sending'[s] = sending[s] /\ pc'[s] = pc[s] /\ todo'[s] = todo[s]
  BY DEF FeedInv, TypeOK, Goto, Chat, Broadcast, Delivered, Denied, Joined, Join
<1>1. pc'[c] \notin {"catchup", "replay"} /\ pc[c] # "catchup"
      /\ (pc[c] = "replay" => replay[c] = <<>>)
  BY <1>0 DEF Goto, Chat, Broadcast, Delivered, Denied, Joined, Join
<1>2. ASSUME NEW r \in Room, NEW d \in members[r], pc'[d] # "catchup", NEW x \in ToSet(history[r])
      PROVE  Owed(d, x)'
  <2>1. d \in Client /\ pc[d] # "catchup"
    BY <1>0, <1>1, <1>2
  <2>2. Owed(d, x)
    BY <1>2, <2>1 DEF GapInv
  <2>3. CASE pc[c] \notin {"store", "broadcast", "deliver"}
    <3>1. Pending(x, d) => Pending(x, d)'
      BY <1>0, <2>1, <2>3, StaysPending
    <3> QED
      BY <1>0, <2>1, <2>2, <3>1, StillOwed
  <2>4. CASE Broadcast(c)
    <3>1. /\ pc'[c] = "deliver" /\ sending'[c] = sending[c]
          /\ todo'[c] = members[sending[c].room]
      BY <1>0, <2>4 DEF Broadcast, Goto
    <3>2. x.room = r
      BY <1>2 DEF FeedInv, OfRoom
    <3>3. Pending(x, d) => Pending(x, d)'
      BY <1>0, <1>2, <2>1, <3>1, <3>2 DEF Pending
    <3> QED
      BY <1>0, <2>1, <2>2, <3>3, StillOwed
  <2>5. CASE Delivered(c)
    <3>1. pc[c] = "deliver" /\ todo[c] = {}
      BY <2>5 DEF Delivered
    <3>2. Pending(x, d) => Pending(x, d)'
      BY <1>0, <2>1, <3>1, StaysPending
    <3> QED
      BY <1>0, <2>1, <2>2, <3>2, StillOwed
  <2> QED
    BY <2>3, <2>4, <2>5 DEF Chat, Denied, Joined, Join
<1>3. ASSUME NEW d \in Client, pc'[d] # "replay" PROVE replay'[d] = <<>>
  BY <1>0, <1>1, <1>3 DEF GapInv
<1> QED
  BY <1>0, <1>2, <1>3 DEF GapInv

\* Every step preserves it.
LEMMA GapStep == FeedInv /\ GapInv /\ [Next]_vars => GapInv'
<1> SUFFICES ASSUME FeedInv, GapInv, [Next]_vars PROVE GapInv'
  OBVIOUS
<1>1. CASE UNCHANGED vars
  BY <1>1 DEF vars, GapInv, Owed, Pending
<1>2. ASSUME NEW c \in Client, Leave(c) \/ Disconnect(c) PROVE GapInv'
  BY <1>2, RemovedOwes DEF Leave, Disconnect
<1>3. ASSUME NEW c \in Client, Step(c) PROVE GapInv'
  BY <1>2, <1>3, StoreOwes, DeliverOwes, EnterOwes, CatchUpOwes, ReplayOwes, QuietOwes DEF Step
<1>4. ASSUME NEW c \in Client, Chat(c) \/ \E r \in Room : Join(c, r) PROVE GapInv'
  BY <1>4, QuietOwes
<1> QED
  BY <1>1, <1>2, <1>3, <1>4 DEF Next

\* No gap between the history and the live messages, for every interleaving of stores,
\* broadcasts and joins: what is missing is still to come or was dropped by a full queue.
THEOREM GapFree == Spec => []NoGap
<1>1. Init => GapInv
  BY DEF Init, GapInv
<1>2. FeedInv /\ GapInv => NoGap
  <2> SUFFICES ASSUME FeedInv, GapInv, NEW r \in Room, NEW c \in members[r],
                      pc[c] \notin {"catchup", "replay"}, NEW m \in ToSet(history[r]),
                      BroadcastOver(m)
               PROVE  m \in ToSet(feed[c]) \cup lost[c]
    BY DEF NoGap
  <2>1. c \in Client
    BY DEF FeedInv, TypeOK
  <2>2. ToSet(replay[c]) = {}
    BY <2>1 DEF GapInv, ToSet
  <2>3. ~Pending(m, c)
    BY DEF BroadcastOver, Pending
  <2> QED
    BY <2>2, <2>3 DEF GapInv, Owed
<1> QED
  BY <1>1, <1>2, Invariance, GapStep, PTL DEF Spec, Safety

-----------------------------------------------------------------------------
(* At most twice. *)

\* Once(s, m): at most once; Twice(s, m): at most twice.
Once(s, m) == \A i, j \in DOMAIN s : s[i] = m /\ s[j] = m => i = j
Twice(s, m) ==
  \A i, j, k \in DOMAIN s : s[i] = m /\ s[j] = m /\ s[k] = m => i = j \/ j = k \/ i = k

\* The catch-up may still bring the message.
Awaited(c, m) == pc[c] \in {"enter", "catchup"} \/ m \in ToSet(replay[c])

\* One copy may come live and one with the history: each that is still to come was not
\* there yet.
Budget(c, m) ==
  /\ Twice(feed[c], m)
  /\ Pending(m, c) \/ Awaited(c, m) => Once(feed[c], m)
  /\ Pending(m, c) /\ Awaited(c, m) => m \notin ToSet(feed[c])

\* A new message is one that nobody has seen, and it is stored once.
Numbered ==
  /\ \A r \in Room : \A m \in ToSet(history[r]) : m.number <= sent[m.sender]
  /\ \A c \in Client : \A m \in ToSet(feed[c]) \cup ToSet(replay[c]) : m.number <= sent[m.sender]
  /\ \A c \in Client : pc[c] \in {"store", "broadcast", "deliver"} => sending[c].number <= sent[c]
  /\ \A c \in Client : pc[c] = "store" => \A r \in Room : sending[c] \notin ToSet(history[r])
  /\ \A r \in Room : \A m \in Message : Once(history[r], m)
  /\ \A c \in Client : \A m \in Message : Once(replay[c], m)

TwiceInv == Numbered /\ \A c \in Client : \A m \in Message : Budget(c, m)

\* One copy more.
LEMMA CopyMore ==
  ASSUME NEW s \in Seq(Message), NEW m \in Message
  PROVE  /\ \A x : x # m => /\ Once(s, x) => Once(Append(s, m), x)
                            /\ Twice(s, x) => Twice(Append(s, m), x)
         /\ m \notin ToSet(s) => Once(Append(s, m), m)
         /\ Once(s, m) => Twice(Append(s, m), m)
<1>1. PICK t : t = Append(s, m)
  OBVIOUS
<1>2. /\ Len(s) \in Nat /\ DOMAIN s = 1..Len(s) /\ DOMAIN t = 1..(Len(s) + 1)
      /\ \A i \in 1..Len(s) : t[i] = s[i]
      /\ t[Len(s) + 1] = m
  BY <1>1
<1>3. \A i \in DOMAIN t : (i \in DOMAIN s /\ t[i] = s[i]) \/ (i = Len(s) + 1 /\ t[i] = m)
  BY <1>2
<1>4. ASSUME NEW x, x # m, Once(s, x) PROVE Once(t, x)
  BY <1>3, <1>4 DEF Once
<1>5. ASSUME NEW x, x # m, Twice(s, x) PROVE Twice(t, x)
  BY <1>3, <1>5 DEF Twice
<1>6. ASSUME m \notin ToSet(s) PROVE Once(t, m)
  BY <1>3, <1>6 DEF Once, ToSet
<1>7. ASSUME Once(s, m) PROVE Twice(t, m)
  BY <1>3, <1>7 DEF Once, Twice
<1> QED
  BY <1>1, <1>4, <1>5, <1>6, <1>7

\* One copy less.
LEMMA CopyLess ==
  ASSUME NEW s \in Seq(Message), s # <<>>
  PROVE  /\ \A x : Once(s, x) => Once(Tail(s), x)
         /\ Once(s, Head(s)) => Head(s) \notin ToSet(Tail(s))
<1>1. PICK t : t = Tail(s)
  OBVIOUS
<1>2. /\ Len(s) \in Nat \ {0} /\ DOMAIN s = 1..Len(s) /\ DOMAIN t = 1..(Len(s) - 1)
      /\ \A i \in 1..(Len(s) - 1) : t[i] = s[i + 1]
      /\ Head(s) = s[1]
  <2>1. /\ t \in Seq(Message) /\ Len(t) = Len(s) - 1
        /\ \A i \in 1..Len(t) : t[i] = s[i + 1]
    BY <1>1, HeadTailProperties
  <2> QED
    BY <2>1, EmptySeq, LenProperties
<1>3. \A i \in DOMAIN t : i + 1 \in DOMAIN s /\ t[i] = s[i + 1] /\ i \in Nat \ {0}
  BY <1>2
<1>4. ASSUME NEW x, Once(s, x) PROVE Once(t, x)
  <2> SUFFICES ASSUME NEW i \in DOMAIN t, NEW j \in DOMAIN t, t[i] = x, t[j] = x PROVE i = j
    BY DEF Once
  <2>1. i + 1 = j + 1 /\ i \in Nat /\ j \in Nat
    BY <1>3, <1>4 DEF Once
  <2> QED
    BY <2>1
<1>5. ASSUME Once(s, Head(s)) PROVE Head(s) \notin ToSet(t)
  <2> SUFFICES ASSUME NEW i \in DOMAIN t, t[i] = Head(s) PROVE FALSE
    BY DEF ToSet
  <2>1. i + 1 \in DOMAIN s /\ 1 \in DOMAIN s /\ s[i + 1] = Head(s) /\ s[1] = Head(s) /\ i \in Nat \ {0}
    BY <1>2, <1>3
  <2>2. i + 1 = 1
    BY <1>5, <2>1 DEF Once
  <2> QED
    BY <2>1, <2>2
<1> QED
  BY <1>1, <1>4, <1>5

\* A message that is not there is there at most once, and one that is there at most once is
\* there at most twice.
LEMMA NoneOnceTwice ==
  ASSUME NEW s, NEW x
  PROVE  (x \notin ToSet(s) => Once(s, x)) /\ (Once(s, x) => Twice(s, x))
BY DEF ToSet, Once, Twice

\* AddMessage stores a message that is not in the history.
LEMMA KeptOnce ==
  ASSUME NEW h \in Seq(Message), NEW m \in Message, m \notin ToSet(h),
         \A x \in Message : Once(h, x)
  PROVE  \A x \in Message : Once(Kept(h, m), x)
<1>1. CASE Kept(h, m) = h
  BY <1>1
<1>2. CASE Kept(h, m) = Append(h, m)
  BY <1>2, CopyMore
<1>3. CASE Kept(h, m) = Append(Tail(h), m) /\ h # <<>>
  <2>1. Tail(h) \in Seq(Message) /\ m \notin ToSet(Tail(h)) /\ \A x \in Message : Once(Tail(h), x)
    BY <1>3, InHeadTail, CopyLess
  <2>2. \A x \in Message : Once(Append(Tail(h), m), x)
    BY <2>1, CopyMore
  <2> QED
    BY <1>3, <2>2
<1> QED
  <2>1. MaxHistory # 0 /\ Len(h) >= MaxHistory => h # <<>>
    BY FeedAssumption
  <2> QED
    BY <1>1, <1>2, <1>3, <2>1 DEF Kept

\* Nothing is sent and nobody is promised more.
LEMMA BudgetKept ==
  ASSUME NEW c \in Client, NEW x \in Message, Budget(c, x), feed'[c] = feed[c],
         Pending(x, c)' => Pending(x, c), Awaited(c, x)' => Awaited(c, x)
  PROVE  Budget(c, x)'
BY DEF Budget

\* What is sent is no longer to come.
LEMMA BudgetSpent ==
  ASSUME FeedInv, \A c \in Client : \A x \in Message : Budget(c, x),
         NEW d \in Client, NEW m \in Message, SendTo(d, m),
         \A c \in Client : \A x \in Message :
           (Pending(x, c)' => Pending(x, c)) /\ (Awaited(c, x)' => Awaited(c, x)),
         (Pending(m, d) /\ ~Pending(m, d)') \/ (Awaited(d, m) /\ ~Awaited(d, m)')
  PROVE  \A c \in Client : \A x \in Message : Budget(c, x)'
<1> SUFFICES ASSUME NEW c \in Client, NEW x \in Message PROVE Budget(c, x)'
  OBVIOUS
<1>1. CASE feed'[c] = feed[c]
  BY <1>1, BudgetKept
<1>2. CASE feed'[c] # feed[c]
  <2>1. c = d /\ feed'[d] = Append(feed[d], m) /\ feed[d] \in Seq(Message)
    BY <1>2 DEF SendTo, FeedInv, TypeOK
  <2>2. ToSet(feed'[d]) = ToSet(feed[d]) \cup {m}
    BY <2>1, InAppend
  <2>3. CASE x # m
    <3>1. /\ Once(feed[d], x) => Once(feed'[d], x)
          /\ Twice(feed[d], x) => Twice(feed'[d], x)
      BY <2>1, <2>3, CopyMore
    <3> QED
      BY <2>1, <2>2, <2>3, <3>1 DEF Budget
  <2>4. CASE x = m
    <3>1. /\ m \notin ToSet(feed[d]) => Once(feed'[d], m)
          /\ Once(feed[d], m) => Twice(feed'[d], m)
      BY <2>1, CopyMore
    <3>2. m \notin ToSet(feed[d]) => Once(feed[d], m)
      BY NoneOnceTwice
    <3> QED
      BY <2>1, <2>4, <3>1, <3>2 DEF Budget
  <2> QED
    BY <2>3, <2>4
<1> QED
  BY <1>1, <1>2

\* A Send shows nobody a message with a new number.
LEMMA SendNumbered ==
  ASSUME FeedInv, NEW d \in Client, NEW m \in Message, SendTo(d, m), m.number <= sent[m.sender],
         \A c \in Client : \A x \in ToSet(feed[c]) : x.number <= sent[x.sender]
  PROVE  \A c \in Client : \A x \in ToSet(feed'[c]) : x.number <= sent[x.sender]
<1> SUFFICES ASSUME NEW c \in Client, NEW x \in ToSet(feed'[c]) PROVE x.number <= sent[x.sender]
  OBVIOUS
<1>1. CASE feed'[c] = feed[c]
  BY <1>1
<1>2. CASE feed'[c] # feed[c]
  <2>1. c = d /\ feed'[d] = Append(feed[d], m) /\ feed[d] \in Seq(Message)
    BY <1>2 DEF SendTo, FeedInv, TypeOK
  <2>2. ToSet(feed'[d]) = ToSet(feed[d]) \cup {m}
    BY <2>1, InAppend
  <2> QED
    BY <2>1, <2>2
<1> QED
  BY <1>1, <1>2

\* A new message.
LEMMA ChatTwice == ASSUME FeedInv, TwiceInv, NEW c \in Client, Chat(c) PROVE TwiceInv'
<1> USE DEF TwiceInv, Chat, Goto
<1>1. PICK m \in Message : /\ m = [sender |-> c, number |-> sent[c] + 1, room |-> currentRoom[c]]
                           /\ m.sender = c /\ m.number = sent[c] + 1
  <2>1. sent[c] + 1 \in Nat \ {0} /\ currentRoom[c] \in Room
    BY DEF FeedInv, TypeOK
  <2> DEFINE m == [sender |-> c, number |-> sent[c] + 1, room |-> currentRoom[c]]
  <2>2. m \in Message /\ m.sender = c /\ m.number = sent[c] + 1
    BY <2>1 DEF Message
  <2> QED
    BY <2>2
<1>2. /\ sending'[c] = m /\ \A s \in Client \ {c} : sending'[s] = sending[s]
      /\ pc[c] = "idle" /\ pc'[c] = "store" /\ \A s \in Client \ {c} : pc'[s] = pc[s]
      /\ sent[c] \in Nat /\ sent'[c] = sent[c] + 1
      /\ \A s \in Client \ {c} : sent'[s] = sent[s] /\ sent[s] \in Nat
  BY <1>1 DEF FeedInv, TypeOK
<1>3. \A n, x : x \in Client /\ n \in Nat /\ n <= sent[x] => n <= sent'[x]
  BY <1>2
<1>4. /\ \A r \in Room : \A x \in ToSet(history[r]) : x \in Message
      /\ \A d \in Client : \A x \in ToSet(feed[d]) \cup ToSet(replay[d]) : x \in Message
      /\ \A d \in Client : pc[d] = "store" => sending[d] \in Message
      /\ \A x \in Message : x.number \in Nat /\ x.sender \in Client
  <2>1. \A r \in Room : \A x \in ToSet(history[r]) : x \in Message
    BY InSeq DEF FeedInv, TypeOK
  <2>2. \A d \in Client : \A x \in ToSet(feed[d]) \cup ToSet(replay[d]) : x \in Message
    BY InSeq DEF FeedInv, TypeOK
  <2> QED
    BY <2>1, <2>2 DEF FeedInv, TypeOK, Message
<1>5. /\ \A r \in Room : m \notin ToSet(history[r])
      /\ \A d \in Client : m \notin ToSet(feed[d]) \cup ToSet(replay[d])
  BY <1>1, <1>2 DEF Numbered
<1>6. Numbered'
  <2>1. /\ \A r \in Room : \A x \in ToSet(history[r]) : x.number <= sent'[x.sender]
        /\ \A d \in Client : \A x \in ToSet(feed[d]) \cup ToSet(replay[d]) : x.number <= sent'[x.sender]
    BY <1>3, <1>4 DEF Numbered
  <2>2. ASSUME NEW d \in Client, pc'[d] \in {"store", "broadcast", "deliver"}
        PROVE  /\ sending'[d].number <= sent'[d]
               /\ pc'[d] = "store" => \A r \in Room : sending'[d] \notin ToSet(history[r])
    <3>1. CASE d = c
      BY <1>1, <1>2, <1>5, <3>1
    <3>2. CASE d # c
      BY <1>2, <2>2, <3>2 DEF Numbered
    <3> QED
      BY <3>1, <3>2
  <2> QED
    BY <2>1, <2>2 DEF Numbered
<1>7. ASSUME NEW d \in Client, NEW x \in Message PROVE Budget(d, x)'
  <2>1. CASE x = m
    BY <1>5, <2>1, NoneOnceTwice DEF Budget
  <2>2. CASE x # m
    <3>1. Pending(x, d)' => Pending(x, d)
      BY <1>2, <2>2 DEF Pending
    <3>2. Awaited(d, x)' => Awaited(d, x)
      BY <1>2 DEF Awaited
    <3> QED
      BY <3>1, <3>2, BudgetKept
  <2> QED
    BY <2>1, <2>2
<1> QED
  BY <1>6, <1>7

\* A message is stored before it is sent to anybody, and once.
LEMMA StoreTwice == ASSUME FeedInv, TwiceInv, NEW c \in Client, Store(c) PROVE TwiceInv'
<1> USE DEF TwiceInv, Store, Goto
<1>1. PICK m \in Message : m = sending[c] /\ m.sender = c /\ m.room \in Room
  BY DEF FeedInv, TypeOK, Message
<1>2. /\ history'[m.room] = Kept(history[m.room], m)
      /\ \A r \in Room \ {m.room} : history'[r] = history[r]
      /\ pc[c] = "store" /\ pc'[c] = "broadcast" /\ \A s \in Client \ {c} : pc'[s] = pc[s]
      /\ history[m.room] \in Seq(Message) /\ stored[m.room] \in Seq(Message)
      /\ Recent(history[m.room], stored[m.room])
  BY <1>1 DEF FeedInv, TypeOK
<1>3. m \notin ToSet(history[m.room]) /\ m.number <= sent[m.sender]
  BY <1>1, <1>2 DEF Numbered
<1>4. \A r \in Room : ToSet(history'[r]) \subseteq ToSet(history[r]) \cup {m}
  BY <1>2, KeptIsRecent
<1>5. \A r \in Room : \A x \in Message : Once(history'[r], x)
  BY <1>2, <1>3, KeptOnce DEF Numbered
<1>6. ASSUME NEW d \in Client, pc'[d] = "store", NEW r \in Room
      PROVE  sending[d] \notin ToSet(history'[r])
  <2>1. d # c /\ pc[d] = "store"
    BY <1>2, <1>6
  <2>2. sending[d].sender = d
    BY <2>1 DEF FeedInv, TypeOK
  <2> QED
    BY <1>1, <1>4, <2>1, <2>2 DEF Numbered
<1>7. Numbered'
  BY <1>2, <1>3, <1>4, <1>5, <1>6 DEF Numbered
<1>8. ASSUME NEW d \in Client, NEW x \in Message PROVE Budget(d, x)'
  <2>1. Pending(x, d)' => Pending(x, d)
    BY <1>2 DEF Pending
  <2>2. Awaited(d, x)' => Awaited(d, x)
    BY <1>2 DEF Awaited
  <2> QED
    BY <2>1, <2>2, BudgetKept
<1> QED
  BY <1>7, <1>8

\* One Send of a broadcast.
LEMMA DeliverTwice == ASSUME FeedInv, TwiceInv, NEW c \in Client, Deliver(c) PROVE TwiceInv'
<1> USE DEF TwiceInv
<1>1. PICK d \in todo[c] : todo' = [todo EXCEPT ![c] = @ \ {d}] /\ SendTo(d, sending[c])
  BY DEF Deliver
<1>2. /\ pc[c] = "deliver"
      /\ UNCHANGED <<pc, hubMu, currentRoom, target, sent, sending, replay, members, history,
                     stored>>
  BY DEF Deliver
<1>3. /\ d \in Client /\ sending[c] \in Message /\ sending[c].sender = c
      /\ todo'[c] = todo[c] \ {d} /\ \A s \in Client \ {c} : todo'[s] = todo[s]
  BY <1>1, <1>2 DEF FeedInv, TypeOK
<1>4. \A e \in Client : \A x \in Message :
        (Pending(x, e)' => Pending(x, e)) /\ (Awaited(e, x)' => Awaited(e, x))
  BY <1>2, <1>3 DEF Pending, Awaited
<1>5. Pending(sending[c], d)
  BY <1>1, <1>2 DEF Pending
<1>6. ~Pending(sending[c], d)'
  <2> SUFFICES ASSUME NEW s \in Client, sending[s] = sending[c],
                      pc[s] \in {"store", "broadcast"} \/ (pc[s] = "deliver" /\ d \in todo'[s])
               PROVE  FALSE
    BY <1>2 DEF Pending
  <2>1. sending[s].sender = s
    BY DEF FeedInv, TypeOK
  <2> QED
    BY <1>2, <1>3, <2>1
<1>7. \A e \in Client : \A x \in Message : Budget(e, x)'
  <2>1. PICK m \in Message : m = sending[c]
    BY <1>3
  <2>2. SendTo(d, m) /\ Pending(m, d) /\ ~Pending(m, d)'
    BY <1>1, <1>2, <1>5, <1>6, <2>1 DEF Pending
  <2> QED
    BY <1>3, <1>4, <2>2, BudgetSpent
<1>8. sending[c].number <= sent[c]
  BY <1>2 DEF Numbered
<1>9. Numbered'
  <2>1. \A e \in Client : \A x \in ToSet(feed'[e]) : x.number <= sent[x.sender]
    BY <1>1, <1>3, <1>8, SendNumbered DEF Numbered
  <2> QED
    BY <1>2, <2>1 DEF Numbered
<1> QED
  BY <1>7, <1>9

\* One Send of the history: the copy has no second one.
LEMMA ReplayTwice == ASSUME FeedInv, GapInv, TwiceInv, NEW c \in Client, Replay(c) PROVE TwiceInv'
<1> USE DEF TwiceInv
<1>1. /\ pc[c] = "replay" /\ replay[c] # <<>> /\ SendTo(c, Head(replay[c]))
      /\ replay' = [replay EXCEPT ![c] = Tail(@)]
      /\ UNCHANGED <<pc, hubMu, currentRoom, target, sent, sending, todo, members, history, stored>>
  BY DEF Replay
<1>2. /\ replay[c] \in Seq(Message)
      /\ replay'[c] = Tail(replay[c]) /\ \A d \in Client \ {c} : replay'[d] = replay[d]
  BY <1>1 DEF FeedInv, TypeOK
<1>3. PICK m \in Message : m = Head(replay[c])
  BY <1>1, <1>2, InHeadTail
<1>4. /\ m \in ToSet(replay[c]) /\ ToSet(replay'[c]) \subseteq ToSet(replay[c])
      /\ m \notin ToSet(replay'[c]) /\ \A x \in Message : Once(replay'[c], x)
  BY <1>1, <1>2, <1>3, InHeadTail, CopyLess DEF Numbered
<1>5. \A e \in Client : \A x \in Message :
        (Pending(x, e)' => Pending(x, e)) /\ (Awaited(e, x)' => Awaited(e, x))
  BY <1>1, <1>2, <1>4 DEF Pending, Awaited
<1>6. Awaited(c, m) /\ ~Awaited(c, m)'
  BY <1>1, <1>4 DEF Awaited
<1>7. \A e \in Client : \A x \in Message : Budget(e, x)'
  BY <1>1, <1>3, <1>5, <1>6, BudgetSpent
<1>8. m.number <= sent[m.sender]
  BY <1>4 DEF Numbered
<1>9. Numbered'
  <2>1. \A d \in Client : \A x \in ToSet(feed'[d]) : x.number <= sent[x.sender]
    BY <1>1, <1>3, <1>8, SendNumbered DEF Numbered
  <2>2. \A d \in Client : ToSet(replay'[d]) \subseteq ToSet(replay[d])
    BY <1>2, <1>4
  <2>3. \A d \in Client : \A x \in Message : Once(replay'[d], x)
    BY <1>2, <1>4 DEF Numbered
  <2> QED
    BY <1>1, <2>1, <2>2, <2>3 DEF Numbered
<1> QED
  BY <1>7, <1>9

\* A stay begins with an empty feed.
LEMMA RemovedTwice ==
  ASSUME FeedInv, TwiceInv, NEW c \in Client, NEW line \in {"enter", "gone"},
         Removed(c), Goto(c, line), UNCHANGED <<sent, sending, todo, replay, history>>,
         pc[c] \in {"leave", "idle"}
  PROVE  TwiceInv'
<1> USE DEF TwiceInv, Removed, Goto
<1>1. /\ feed'[c] = <<>> /\ \A d \in Client \ {c} : feed'[d] = feed[d] /\ pc'[d] = pc[d]
      /\ pc'[c] = line
  BY DEF FeedInv, TypeOK
<1>2. ToSet(feed'[c]) = {}
  BY <1>1 DEF ToSet
<1>3. Numbered'
  BY <1>1, <1>2 DEF Numbered
<1>4. ASSUME NEW d \in Client, NEW x \in Message PROVE Budget(d, x)'
  <2>1. CASE d = c
    BY <1>2, <2>1, NoneOnceTwice DEF Budget
  <2>2. CASE d # c
    <3>1. Pending(x, d)' => Pending(x, d)
      BY <1>1 DEF Pending
    <3>2. Awaited(d, x)' => Awaited(d, x)
      BY <1>1, <2>2 DEF Awaited
    <3> QED
      BY <1>1, <2>2, <3>1, <3>2, BudgetKept
  <2> QED
    BY <2>1, <2>2
<1> QED
  BY <1>3, <1>4

\* GetHistory: what is to come with the history is now known.
LEMMA CatchUpTwice == ASSUME FeedInv, TwiceInv, NEW c \in Client, CatchUp(c) PROVE TwiceInv'
<1> USE DEF TwiceInv, CatchUp, Goto
<1>1. /\ target[c] \in Room /\ pc[c] = "catchup" /\ pc'[c] = "replay"
      /\ replay'[c] = history[target[c]]
      /\ \A d \in Client \ {c} : replay'[d] = replay[d] /\ pc'[d] = pc[d]
  BY DEF FeedInv, TypeOK, Located
<1>2. Numbered'
  BY <1>1 DEF Numbered
<1>3. ASSUME NEW d \in Client, NEW x \in Message PROVE Budget(d, x)'
  <2>1. Pending(x, d)' => Pending(x, d)
    BY <1>1 DEF Pending
  <2>2. Awaited(d, x)' => Awaited(d, x)
    BY <1>1 DEF Awaited
  <2> QED
    BY <2>1, <2>2, BudgetKept
<1> QED
  BY <1>2, <1>3

\* The other steps of a handler promise nobody anything.
LEMMA QuietTwice ==
  ASSUME FeedInv, TwiceInv, NEW c \in Client,
         \/ Broadcast(c) \/ Delivered(c) \/ Denied(c) \/ Enter(c) \/ Joined(c)
         \/ \E r \in Room : Join(c, r)
  PROVE  TwiceInv'
<1> USE DEF TwiceInv
<1>1. /\ UNCHANGED <<sent, replay, history, feed>>
      /\ \A s \in Client \ {c} : sending'[s] = sending[s] /\ pc'[s] = pc[s] /\ todo'[s] = todo[s]
  BY DEF FeedInv, TypeOK, Goto, Broadcast, Delivered, Denied, Enter, Joined, Join
<1>2. \/ pc[c] = "broadcast" /\ pc'[c] = "deliver" /\ sending'[c] = sending[c]
      \/ pc'[c] \in {"idle", "leave"}
      \/ pc[c] = "enter" /\ pc'[c] = "catchup"
  BY DEF FeedInv, TypeOK, Goto, Broadcast, Delivered, Denied, Enter, Joined, Join
<1>3. Numbered'
  BY <1>1, <1>2 DEF Numbered
<1>4. ASSUME NEW d \in Client, NEW x \in Message PROVE Budget(d, x)'
  <2>1. Pending(x, d)' => Pending(x, d)
    BY <1>1, <1>2 DEF Pending
  <2>2. Awaited(d, x)' => Awaited(d, x)
    BY <1>1, <1>2 DEF Awaited
  <2> QED
    BY <1>1, <2>1, <2>2, BudgetKept
<1> QED
  BY <1>3, <1>4

\* Every step preserves it.
LEMMA TwiceStep == FeedInv /\ GapInv /\ TwiceInv /\ [Next]_vars => TwiceInv'
<1> SUFFICES ASSUME FeedInv, GapInv, TwiceInv, [Next]_vars PROVE TwiceInv'
  OBVIOUS
<1>1. CASE UNCHANGED vars
  BY <1>1 DEF vars, TwiceInv, Numbered, Budget, Awaited, Pending
<1>2. ASSUME NEW c \in Client, Leave(c) \/ Disconnect(c) PROVE TwiceInv'
  BY <1>2, RemovedTwice DEF Leave, Disconnect
<1>3. ASSUME NEW c \in Client, Chat(c) PROVE TwiceInv'
  BY <1>3, ChatTwice
<1>4. ASSUME NEW c \in Client, NEW r \in Room, Join(c, r) PROVE TwiceInv'
  BY <1>4, QuietTwice
<1>5. ASSUME NEW c \in Client, Step(c) PROVE TwiceInv'
  BY <1>2, <1>5, StoreTwice, DeliverTwice, ReplayTwice, CatchUpTwice, QuietTwice DEF Step
<1> QED
  BY <1>1, <1>2, <1>3, <1>4, <1>5 DEF Next

\* A message reaches a client at most twice in one stay, however its store, its broadcast
\* and the client's joining interleave.
THEOREM NoThirdCopy == Spec => []AtMostTwice
<1>1. Init => TwiceInv
  <2> SUFFICES ASSUME Init PROVE TwiceInv
    OBVIOUS
  <2>1. ToSet(<<>>) = {} /\ \A x : Once(<<>>, x) /\ Twice(<<>>, x)
    BY DEF ToSet, Once, Twice
  <2> QED
    BY <2>1 DEF Init, TwiceInv, Numbered, Budget
<1>2. FeedInv /\ TwiceInv => AtMostTwice
  <2> SUFFICES ASSUME FeedInv, TwiceInv, NEW c \in Client, NEW i \in DOMAIN feed[c],
                      NEW j \in DOMAIN feed[c], NEW k \in DOMAIN feed[c],
                      feed[c][i] = feed[c][j], feed[c][j] = feed[c][k]
               PROVE  i = j \/ j = k \/ i = k
    BY DEF AtMostTwice
  <2>1. feed[c][i] \in Message
    BY ElementOfSeq, LenProperties DEF FeedInv, TypeOK
  <2> QED
    BY <2>1 DEF TwiceInv, Budget, Twice
<1>3. Init => GapInv
  BY DEF Init, GapInv
<1> QED
  BY <1>1, <1>2, <1>3, GapStep, Invariance, TwiceStep, PTL DEF Spec, Safety

-----------------------------------------------------------------------------
(* RoomFeed implements Conversation. *)

\* What has been stored in any room, and who is in any.
Said == UNION {ToSet(stored[r]) : r \in Room}
Inside == UNION {members[r] : r \in Room}

\* How many messages of each client have been stored.
Count == [c \in Client |-> IF pc[c] = "store" THEN sent[c] - 1 ELSE sent[c]]

\* A handler's message is for its client's room, and it is the last one until it is stored;
\* what a broadcast or a catch-up has still to send was stored.
SaidInv ==
  /\ \A c \in Client :
       /\ pc[c] \in {"store", "broadcast", "deliver"} => sending[c].room = currentRoom[c]
       /\ pc[c] = "store" => sending[c].number = sent[c]
       /\ pc[c] \in {"broadcast", "deliver"} => sending[c] \in Said
       /\ ToSet(replay[c]) \subseteq Said

\* A history holds what was stored.
LEMMA RecentIsStored ==
  ASSUME NEW h \in Seq(Message), NEW s \in Seq(Message), Recent(h, s)
  PROVE  ToSet(h) \subseteq ToSet(s)
<1> SUFFICES ASSUME NEW x \in ToSet(h) PROVE x \in ToSet(s)
  OBVIOUS
<1>1. PICK i \in 1..Len(h) : x = h[i]
  BY LenProperties DEF ToSet
<1>2. Len(h) \in Nat /\ Len(s) \in Nat /\ DOMAIN s = 1..Len(s) /\ Len(h) <= Len(s)
  BY LenProperties DEF Recent
<1>3. x = s[Len(s) - Len(h) + i] /\ Len(s) - Len(h) + i \in 1..Len(s)
  BY <1>1, <1>2 DEF Recent
<1> QED
  BY <1>2, <1>3 DEF ToSet

\* AddMessage adds its message to what was stored.
LEMMA StoreSays ==
  ASSUME FeedInv, NEW c \in Client, Store(c) PROVE Said' = Said \cup {sending[c]}
<1> DEFINE m == sending[c]
<1>1. m \in Message /\ m.room \in Room /\ stored \in [Room -> Seq(Message)]
      /\ stored' = [stored EXCEPT ![m.room] = Append(@, m)]
  BY DEF FeedInv, TypeOK, Store, Message
<1>2. ToSet(Append(stored[m.room], m)) = ToSet(stored[m.room]) \cup {m}
  BY <1>1, InAppend
<1>3. \A r \in Room \ {m.room} : stored'[r] = stored[r]
  BY <1>1
<1>4. stored'[m.room] = Append(stored[m.room], m)
  BY <1>1
<1> QED
  BY <1>1, <1>2, <1>3, <1>4 DEF Said

\* Every other step leaves what was stored alone.
LEMMA SaidSame == ASSUME UNCHANGED stored PROVE Said' = Said
BY DEF Said

\* Every step preserves it.
LEMMA SaidStep == FeedInv /\ SaidInv /\ [Next]_vars => SaidInv'
<1> SUFFICES ASSUME FeedInv, SaidInv, [Next]_vars PROVE SaidInv'
  OBVIOUS
<1>0. /\ pc = [c \in Client |-> pc[c]] /\ sending = [c \in Client |-> sending[c]]
      /\ replay \in [Client -> Seq(Message)] /\ sent \in [Client -> Nat]
      /\ currentRoom = [c \in Client |-> currentRoom[c]]
  BY DEF FeedInv, TypeOK
<1>1. CASE UNCHANGED vars
  BY <1>1 DEF vars, SaidInv, Said
<1>2. ASSUME NEW c \in Client, Chat(c) PROVE SaidInv'
  <2>1. /\ sending'[c].room = currentRoom[c] /\ sending'[c].number = sent'[c]
        /\ pc'[c] = "store" /\ Said' = Said /\ UNCHANGED <<currentRoom, replay>>
        /\ \A d \in Client \ {c} : sending'[d] = sending[d] /\ pc'[d] = pc[d] /\ sent'[d] = sent[d]
    BY <1>0, <1>2, SaidSame DEF Chat, Goto
  <2> QED
    BY <2>1 DEF SaidInv
<1>3. ASSUME NEW c \in Client, Store(c) PROVE SaidInv'
  <2>1. /\ pc[c] = "store" /\ pc'[c] = "broadcast" /\ Said' = Said \cup {sending[c]}
        /\ UNCHANGED <<currentRoom, replay, sending, sent>>
        /\ \A d \in Client \ {c} : pc'[d] = pc[d]
    BY <1>0, <1>3, StoreSays DEF Store, Goto
  <2> QED
    BY <2>1 DEF SaidInv
<1>4. ASSUME NEW c \in Client, CatchUp(c) PROVE SaidInv'
  <2>1. target[c] \in Room /\ history[target[c]] \in Seq(Message)
        /\ stored[target[c]] \in Seq(Message) /\ Recent(history[target[c]], stored[target[c]])
    BY <1>4 DEF FeedInv, TypeOK, Located, CatchUp
  <2>2. ToSet(history[target[c]]) \subseteq Said
    BY <2>1, RecentIsStored DEF Said
  <2>3. /\ pc'[c] = "replay" /\ replay'[c] = history[target[c]] /\ Said' = Said
        /\ UNCHANGED <<currentRoom, sending, sent>>
        /\ \A d \in Client \ {c} : pc'[d] = pc[d] /\ replay'[d] = replay[d]
    BY <1>0, <1>4, SaidSame DEF CatchUp, Goto
  <2> QED
    BY <2>2, <2>3 DEF SaidInv
<1>5. ASSUME NEW c \in Client, Replay(c) PROVE SaidInv'
  <2>1. ToSet(Tail(replay[c])) \subseteq ToSet(replay[c])
    BY <1>0, <1>5, InHeadTail DEF Replay
  <2>2. /\ replay'[c] = Tail(replay[c]) /\ Said' = Said
        /\ UNCHANGED <<pc, currentRoom, sending, sent>>
        /\ \A d \in Client \ {c} : replay'[d] = replay[d]
    BY <1>0, <1>5, SaidSame DEF Replay
  <2> QED
    BY <2>1, <2>2 DEF SaidInv
<1>6. ASSUME NEW c \in Client, Broadcast(c) \/ Deliver(c) PROVE SaidInv'
  <2>1. /\ pc[c] \in {"broadcast", "deliver"} /\ pc'[c] = "deliver" /\ Said' = Said
        /\ UNCHANGED <<currentRoom, sending, sent, replay>>
        /\ \A d \in Client \ {c} : pc'[d] = pc[d]
    BY <1>0, <1>6, SaidSame DEF Broadcast, Deliver, Goto
  <2> QED
    BY <2>1 DEF SaidInv
<1>7. ASSUME NEW c \in Client,
             \/ Delivered(c) \/ Leave(c) \/ Denied(c) \/ Enter(c) \/ Joined(c) \/ Disconnect(c)
             \/ \E r \in Room : Join(c, r)
      PROVE  SaidInv'
  <2>1. /\ pc'[c] \notin {"store", "broadcast", "deliver"} /\ Said' = Said
        /\ UNCHANGED <<sent, replay>>
        /\ \A d \in Client \ {c} :
             pc'[d] = pc[d] /\ sending'[d] = sending[d] /\ currentRoom'[d] = currentRoom[d]
    BY <1>0, <1>7, SaidSame DEF Delivered, Leave, Denied, Enter, Joined, Disconnect, Join, Goto
  <2> QED
    BY <2>1 DEF SaidInv
<1> QED
  BY <1>1, <1>2, <1>3, <1>4, <1>5, <1>6, <1>7 DEF Next, Step

\* Who is in some room is in the one it believes to be in.
LEMMA InsideRoom ==
  ASSUME FeedInv, NEW c \in Client, NEW r \in Room, c \in members[r]
  PROVE  c \in Inside /\ currentRoom[c] = r
BY DEF FeedInv, OneRoom, Inside

\* A Send to a member, of a stored message of its room, is heard or dropped.
LEMMA SendHeard ==
  ASSUME FeedInv, NEW d \in Client, NEW m \in Said, m.room \in Room, d \in members[m.room],
         Once(feed[d], m), SendTo(d, m), UNCHANGED <<pc, currentRoom, sent, members, stored>>
  PROVE  C!Next \/ UNCHANGED C!cvars
<1>1. d \in Inside /\ currentRoom[d] = m.room
  BY InsideRoom
<1>2. CASE UNCHANGED feed
  BY <1>2 DEF C!cvars
<1>3. CASE feed' = [feed EXCEPT ![d] = Append(@, m)]
  <2>1. C!Hear(d, m)
    BY <1>1, <1>3 DEF C!Hear, Once, Inside
  <2> QED
    BY <2>1 DEF C!Next, Said
<1> QED
  BY <1>2, <1>3 DEF SendTo

\* A broadcast reaches members of the message's room, who have it at most from the history.
LEMMA DeliverMaps ==
  ASSUME FeedInv, TwiceInv, SaidInv, NEW c \in Client, Deliver(c)
  PROVE  C!Next \/ UNCHANGED C!cvars
<1>1. PICK d \in todo[c] : SendTo(d, sending[c])
  BY DEF Deliver
<1>2. PICK m \in Message : m = sending[c]
  BY DEF FeedInv, TypeOK, Deliver
<1>3. pc[c] = "deliver" /\ UNCHANGED <<pc, currentRoom, sent, members, stored>>
  BY DEF Deliver
<1>4. d \in Client /\ d \in members[m.room] /\ m \in Said /\ m.room \in Room
  BY <1>1, <1>2, <1>3 DEF FeedInv, TypeOK, Reached, SaidInv, Message
<1>5. Pending(m, d)
  BY <1>1, <1>2, <1>3 DEF Pending
<1>6. Once(feed[d], m)
  BY <1>4, <1>5 DEF TwiceInv, Budget
<1> QED
  BY <1>1, <1>2, <1>3, <1>4, <1>6, SendHeard

\* A catch-up shows a member its room's messages, which it has at most from a broadcast.
LEMMA ReplayMaps ==
  ASSUME FeedInv, TwiceInv, SaidInv, NEW c \in Client, Replay(c)
  PROVE  C!Next \/ UNCHANGED C!cvars
<1>1. /\ pc[c] = "replay" /\ replay[c] # <<>> /\ SendTo(c, Head(replay[c]))
      /\ UNCHANGED <<pc, currentRoom, sent, members, stored>>
  BY DEF Replay
<1>2. replay[c] \in Seq(Message)
  BY DEF FeedInv, TypeOK
<1>3. PICK m \in Message : m = Head(replay[c]) /\ m \in ToSet(replay[c])
  BY <1>1, <1>2, InHeadTail
<1>4. m.room \in Room /\ c \in members[m.room] /\ m \in Said
  BY <1>1, <1>3 DEF FeedInv, OfRoom, Located, SaidInv, Message
<1>5. Once(feed[c], m)
  BY <1>3 DEF TwiceInv, Budget, Awaited
<1> QED
  BY <1>1, <1>3, <1>4, <1>5, SendHeard

\* AddMessage is where a message is said.
LEMMA StoreMaps ==
  ASSUME FeedInv, SaidInv, NEW c \in Client, Store(c)
  PROVE  C!Next
<1>1. /\ pc[c] = "store" /\ sent[c] \in Nat /\ sending[c] \in Message
      /\ sending[c].sender = c /\ sending[c].number = sent[c]
      /\ sending[c].room = currentRoom[c] /\ currentRoom[c] \in Room
  BY DEF Store, FeedInv, TypeOK, SaidInv, Message
<1>2. sending[c] = [sender |-> c, number |-> sent[c], room |-> currentRoom[c]]
  BY <1>1 DEF Message
<1>3. /\ UNCHANGED <<currentRoom, sent, members, feed>>
      /\ pc' = [pc EXCEPT ![c] = "broadcast"] /\ pc = [d \in Client |-> pc[d]]
  BY DEF Store, Goto, FeedInv, TypeOK
<1>4. Count[c] + 1 = sent[c] /\ Count' = [Count EXCEPT ![c] = @ + 1]
  <2>1. pc'[c] = "broadcast" /\ \A d \in Client \ {c} : pc'[d] = pc[d]
    BY <1>3
  <2>2. Count[c] = sent[c] - 1 /\ Count'[c] = sent[c]
    BY <1>1, <1>3, <2>1 DEF Count
  <2>3. \A d \in Client \ {c} : Count'[d] = Count[d]
    BY <1>3, <2>1 DEF Count
  <2>4. Count[c] + 1 = sent[c]
    BY <1>1, <2>2
  <2>5. Count = [d \in Client |-> Count[d]] /\ Count' = [d \in Client |-> Count'[d]]
    BY DEF Count
  <2> QED
    BY <2>2, <2>3, <2>4, <2>5
<1>5. Said' = Said \cup {[sender |-> c, number |-> Count[c] + 1, room |-> currentRoom[c]]}
  BY <1>2, <1>4, StoreSays
<1>6. C!Say(c)
  BY <1>1, <1>3, <1>4, <1>5 DEF C!Say, Count, Said
<1> QED
  BY <1>6 DEF C!Next

\* A member that leaves or is gone ends its stay; nothing changes for who is in no room.
LEMMA RemovedMaps ==
  ASSUME FeedInv, NEW c \in Client, pc[c] # "store", NEW line \in {"enter", "gone"},
         Removed(c), Goto(c, line), UNCHANGED <<currentRoom, sent, stored>>
  PROVE  C!Next \/ UNCHANGED C!cvars
<1>1. /\ pc = [d \in Client |-> pc[d]] /\ feed \in [Client -> Seq(Message)]
      /\ \A r \in Room : members'[r] = members[r] \ {c}
  BY DEF FeedInv, TypeOK, OneRoom, Removed
<1>2. Count' = Count
  BY <1>1 DEF Count, Goto
<1>3. Inside' = Inside \ {c}
  BY <1>1 DEF Inside
<1>4. feed' = [feed EXCEPT ![c] = <<>>]
  BY DEF Removed
<1>5. CASE c \in Inside
  <2>1. C!Leave(c)
    BY <1>2, <1>3, <1>4, <1>5 DEF C!Leave, Count, Inside
  <2> QED
    BY <2>1 DEF C!Next
<1>6. CASE c \notin Inside
  <2>1. ToSet(feed[c]) = {}
    <3> SUFFICES ASSUME NEW m \in ToSet(feed[c]) PROVE FALSE
      OBVIOUS
    <3>1. m \in Message
      BY <1>1, InSeq
    <3> QED
      BY <1>6, <3>1 DEF FeedInv, FeedOfRoom, Inside, Message
  <2>2. feed[c] = <<>>
    BY <1>1, <2>1, InHeadTail
  <2>3. feed' = feed /\ Inside' = Inside
    BY <1>1, <1>3, <1>4, <1>6, <2>2
  <2> QED
    BY <1>2, <2>3 DEF C!cvars, Count, Inside
<1> QED
  BY <1>5, <1>6

\* A joiner enters its room.
LEMMA EnterMaps ==
  ASSUME FeedInv, NEW c \in Client, Enter(c)
  PROVE  C!Next
<1>1. /\ target[c] \in Room /\ c \notin Inside
      /\ pc = [d \in Client |-> pc[d]] /\ members \in [Room -> SUBSET Client]
  BY DEF Enter, FeedInv, TypeOK, Located, Inside
<1>2. Count' = Count
  BY <1>1 DEF Count, Enter, Goto
<1>3. \A r \in Room : members'[r] = IF r = target[c] THEN members[r] \cup {c} ELSE members[r]
  BY <1>1 DEF Enter
<1>4. PICK r \in Room : r = target[c]
  BY <1>1
<1>5. Inside' = Inside \cup {c}
  <2>1. \A q \in Room : members[q] \subseteq members'[q] /\ members'[q] \subseteq members[q] \cup {c}
    BY <1>3
  <2>2. c \in members'[r]
    BY <1>3, <1>4
  <2>3. Inside' \subseteq Inside \cup {c}
    BY <2>1 DEF Inside
  <2>4. Inside \cup {c} \subseteq Inside'
    BY <2>1, <2>2 DEF Inside
  <2> QED
    BY <2>3, <2>4
<1>6. C!Enter(c, r)
  BY <1>1, <1>2, <1>4, <1>5 DEF C!Enter, Enter, Count, Inside
<1> QED
  BY <1>6 DEF C!Next

\* The other steps are none of Conversation's concern.
LEMMA QuietMaps ==
  ASSUME FeedInv, NEW c \in Client,
         \/ Chat(c) \/ Broadcast(c) \/ Delivered(c) \/ Denied(c) \/ CatchUp(c) \/ Joined(c)
         \/ \E r \in Room : Join(c, r)
  PROVE  UNCHANGED C!cvars
<1>1. /\ pc = [d \in Client |-> pc[d]] /\ sent \in [Client -> Nat]
      /\ UNCHANGED <<currentRoom, members, stored, feed>>
  BY DEF FeedInv, TypeOK, Chat, Broadcast, Delivered, Denied, CatchUp, Joined, Join
<1>2. Count' = Count
  BY <1>1 DEF Count, Goto, Chat, Broadcast, Delivered, Denied, CatchUp, Joined, Join
<1> QED
  BY <1>1, <1>2 DEF C!cvars, Count

\* Every step of a handler is one of Conversation or changes nothing it speaks of.
LEMMA StepConverses ==
  FeedInv /\ TwiceInv /\ SaidInv /\ [Next]_vars => [C!Next]_(C!cvars)
<1> SUFFICES ASSUME FeedInv, TwiceInv, SaidInv, [Next]_vars
             PROVE  C!Next \/ UNCHANGED C!cvars
  OBVIOUS
<1>1. CASE UNCHANGED vars
  BY <1>1 DEF vars, C!cvars
<1>2. ASSUME NEW c \in Client, Leave(c) \/ Disconnect(c) PROVE C!Next \/ UNCHANGED C!cvars
  BY <1>2, RemovedMaps DEF Leave, Disconnect
<1>3. ASSUME NEW c \in Client, Step(c) PROVE C!Next \/ UNCHANGED C!cvars
  BY <1>2, <1>3, StoreMaps, DeliverMaps, EnterMaps, ReplayMaps, QuietMaps DEF Step
<1>4. ASSUME NEW c \in Client, Chat(c) \/ \E r \in Room : Join(c, r)
      PROVE  C!Next \/ UNCHANGED C!cvars
  BY <1>4, QuietMaps
<1> QED
  BY <1>1, <1>2, <1>3, <1>4 DEF Next

\* Where a relay starts, nobody has said or heard anything.
LEMMA StartsSilent == Init => GapInv /\ TwiceInv /\ SaidInv /\ C!Init
<1> SUFFICES ASSUME Init PROVE GapInv /\ TwiceInv /\ SaidInv /\ C!Init
  OBVIOUS
<1>1. ToSet(<<>>) = {} /\ \A x : Once(<<>>, x) /\ Twice(<<>>, x)
  BY DEF ToSet, Once, Twice
<1>2. GapInv /\ TwiceInv /\ SaidInv
  BY <1>1 DEF Init, GapInv, TwiceInv, Numbered, Budget, SaidInv
<1>3. \A r \in Room : ToSet(stored[r]) = {} /\ members[r] = {}
  BY <1>1 DEF Init
<1>4. Said = {} /\ Inside = {} /\ Count = [c \in Client |-> 0]
  BY <1>3 DEF Init, Said, Inside, Count
<1>5. C!Init
  BY <1>4 DEF Init, C!Init, Said, Inside, Count
<1> QED
  BY <1>2, <1>5

\* The handlers of the relay hold the conversation it promises: messages are said in order
\* in their sender's room, and heard in that room only, after they were said, at most twice.
THEOREM Refinement == Spec => ImplementsConversation
BY StartsSilent, Invariance, GapStep, TwiceStep, SaidStep, StepConverses, PTL
   DEF Spec, Safety, ImplementsConversation, C!Spec
=============================================================================
