----------------------------- MODULE SessionProofs -----------------------------
(* Proofs about Session, for any names, passphrases and numbers of requests and posts. *)
EXTENDS Session, FiniteSetTheorems, FunctionTheorems, SequenceTheorems, TLAPS

-----------------------------------------------------------------------------
(* Sequences. *)

\* What is in a sequence after one more element,
LEMMA AppendSet ==
  ASSUME NEW S, NEW s \in Seq(S), NEW e \in S
  PROVE  Append(s, e) \in Seq(S) /\ ToSet(Append(s, e)) = ToSet(s) \cup {e}
<1>1. /\ Append(s, e) \in Seq(S) /\ Len(Append(s, e)) = Len(s) + 1
      /\ \A i \in 1..Len(s) : Append(s, e)[i] = s[i]
      /\ Append(s, e)[Len(s) + 1] = e
  BY AppendProperties
<1>2. Len(s) \in Nat /\ DOMAIN s = 1..Len(s) /\ DOMAIN Append(s, e) = 1..(Len(s) + 1)
  BY <1>1, LenProperties
<1>3. ToSet(Append(s, e)) \subseteq ToSet(s) \cup {e}
  BY <1>1, <1>2 DEF ToSet
<1>4. e \in ToSet(Append(s, e))
  <2>1. Len(s) + 1 \in DOMAIN Append(s, e)
    BY <1>2
  <2> QED
    BY <1>1, <2>1 DEF ToSet
<1>5. ASSUME NEW i \in 1..Len(s) PROVE s[i] \in ToSet(Append(s, e))
  <2>1. i \in DOMAIN Append(s, e)
    BY <1>2
  <2> QED
    BY <1>1, <2>1 DEF ToSet
<1>6. ToSet(s) \subseteq ToSet(Append(s, e))
  BY <1>2, <1>5 DEF ToSet
<1> QED
  BY <1>1, <1>3, <1>4, <1>6

\* what is left when the first is taken,
LEMMA HeadTailSet ==
  ASSUME NEW S, NEW s \in Seq(S), s # <<>>
  PROVE  /\ Head(s) \in S /\ Tail(s) \in Seq(S)
         /\ ToSet(s) = ToSet(Tail(s)) \cup {Head(s)}
<1>1. /\ Tail(s) \in Seq(S) /\ Len(Tail(s)) = Len(s) - 1 /\ Head(s) \in S
      /\ \A i \in 1..Len(Tail(s)) : Tail(s)[i] = s[i + 1]
  BY HeadTailProperties
<1>2. /\ Len(s) \in Nat /\ Len(s) > 0
      /\ DOMAIN s = 1..Len(s) /\ DOMAIN Tail(s) = 1..(Len(s) - 1)
  BY <1>1, EmptySeq, LenProperties
<1>3. Head(s) \in ToSet(s)
  BY <1>2 DEF ToSet
<1>4. ASSUME NEW i \in DOMAIN Tail(s) PROVE Tail(s)[i] \in ToSet(s)
  <2>1. i + 1 \in DOMAIN s /\ Tail(s)[i] = s[i + 1]
    BY <1>1, <1>2
  <2> QED
    BY <2>1 DEF ToSet
<1>5. ASSUME NEW i \in DOMAIN s, i # 1 PROVE s[i] \in ToSet(Tail(s))
  <2>1. i - 1 \in DOMAIN Tail(s) /\ Tail(s)[i - 1] = s[i]
    BY <1>1, <1>2, <1>5
  <2> QED
    BY <2>1 DEF ToSet
<1>6. ToSet(s) \subseteq ToSet(Tail(s)) \cup {Head(s)}
  BY <1>2, <1>5 DEF ToSet
<1>7. ToSet(Tail(s)) \subseteq ToSet(s)
  BY <1>4 DEF ToSet
<1> QED
  BY <1>1, <1>3, <1>6, <1>7

\* and what is there after another sequence is added.
LEMMA ConcatSet ==
  ASSUME NEW S, NEW s \in Seq(S), NEW t \in Seq(S)
  PROVE  s \o t \in Seq(S) /\ ToSet(s \o t) = ToSet(s) \cup ToSet(t)
<1>1. /\ s \o t \in Seq(S) /\ Len(s \o t) = Len(s) + Len(t)
      /\ \A i \in 1..(Len(s) + Len(t)) :
           (s \o t)[i] = IF i <= Len(s) THEN s[i] ELSE t[i - Len(s)]
  BY ConcatProperties
<1>2. /\ Len(s) \in Nat /\ Len(t) \in Nat
      /\ DOMAIN s = 1..Len(s) /\ DOMAIN t = 1..Len(t)
      /\ DOMAIN (s \o t) = 1..(Len(s) + Len(t))
  BY <1>1, LenProperties
<1>3. ASSUME NEW i \in DOMAIN s PROVE s[i] \in ToSet(s \o t)
  <2>1. i \in DOMAIN (s \o t) /\ (s \o t)[i] = s[i]
    BY <1>1, <1>2
  <2> QED
    BY <2>1 DEF ToSet
<1>4. ASSUME NEW i \in DOMAIN t PROVE t[i] \in ToSet(s \o t)
  <2>1. Len(s) + i \in DOMAIN (s \o t) /\ (s \o t)[Len(s) + i] = t[i]
    BY <1>1, <1>2
  <2> QED
    BY <2>1 DEF ToSet
<1>5. ASSUME NEW i \in DOMAIN (s \o t) PROVE (s \o t)[i] \in ToSet(s) \cup ToSet(t)
  <2>1. CASE i <= Len(s)
    BY <1>1, <1>2, <2>1 DEF ToSet
  <2>2. CASE ~(i <= Len(s))
    <3>1. i - Len(s) \in DOMAIN t /\ (s \o t)[i] = t[i - Len(s)]
      BY <1>1, <1>2, <2>2
    <3> QED
      BY <3>1 DEF ToSet
  <2> QED
    BY <2>1, <2>2
<1> QED
  BY <1>1, <1>3, <1>4, <1>5 DEF ToSet

-----------------------------------------------------------------------------
(* The invariant. *)

\* No request between the i-th and the j-th asks for a room.
NoJoin(i, j) == \A k \in i..j : up[k].type # "join"

\* No request under way asks for a room.
Quiet == NoJoin(1, Len(up))

\* The i-th request is the last that asks for a room.
LastJoin(i) == up[i].type = "join" /\ NoJoin(i + 1, Len(up))

\* The client believes to be where the relay will have put it, if it grants everything.
Guess ==
  /\ active = current
  /\ ~upset =>
       /\ member
       /\ \A i \in 1..Len(up) : up[i].type # "auth"
       /\ Quiet => Normal[current] = room
       /\ \A i \in 1..Len(up) : LastJoin(i) => up[i].name = current

\* Messages are sealed for the room they will be posted in: the relay's, or that of the
\* last join before them, whose passphrase is then the room's.
Sealing ==
  ~upset =>
    /\ Quiet /\ secret[room] \in Key => keys[current] = secret[room]
    /\ \A i \in 1..Len(up) : LastJoin(i) /\ up[i].key # NoKey => keys[current] = up[i].key
    /\ \A j \in 1..Len(up) :
         up[j].type = "chat" /\ NoJoin(1, j) /\ secret[room] \in Key
           => up[j].key = secret[room]
    /\ \A i, j \in 1..Len(up) :
         i < j /\ up[i].type = "join" /\ up[j].type = "chat" /\ NoJoin(i + 1, j)
               /\ up[i].key # NoKey
           => up[j].key = up[i].key

\* The user's room exists on the relay, and a room that does not has no history.
Rooms ==
  /\ secret[room] # Absent
  /\ \A r \in Room : secret[r] = Absent => history[r] = <<>>
  /\ \A r \in Room : \A m \in ToSet(history[r]) : m.room = r

Stored(r) == {m.id : m \in ToSet(history[r])}
Coming(r) == {m.id : m \in {x \in ToSet(down) : x.room = r}}
Arrived(r) == {p.line.id : p \in {x \in ToSet(incoming) : x.room = r}}
Shown(n) == {l.id : l \in ToSet(shown[n])}

\* What a room's feed has and is about to get is of its history, and all of it if it is
\* the user's room and was not emptied; nothing is in a feed twice.
Followed ==
  /\ ~upset => \A r \in Room : Coming(r) \cup Arrived(r) \cup Shown(r) \subseteq Stored(r)
  /\ ~upset /\ room \notin cleared =>
       Stored(room) \subseteq Coming(room) \cup Arrived(room) \cup Shown(room)
  /\ \A n \in Name : \A i, j \in DOMAIN shown[n] : shown[n][i].id = shown[n][j].id => i = j

SessInv == TypeOK /\ Guess /\ Sealing /\ Rooms /\ Followed /\ SealedUnlessUpset

-----------------------------------------------------------------------------
(* The requests under way. *)

\* What a request holds.
LEMMA RequestIs ==
  ASSUME NEW q \in Request
  PROVE  /\ q.type \in {"join", "chat", "auth"}
         /\ q.type = "join" => q.name \in Name /\ q.key \in Key \cup {NoKey}
         /\ q.type = "chat" => q.key \in Key \cup {NoKey}
BY DEF Request

\* One more request at the end.
LEMMA Longer ==
  ASSUME TypeOK, NEW q \in Request, up' = Append(up, q)
  PROVE  /\ Len(up) \in Nat /\ Len(up') = Len(up) + 1 /\ up' \in Seq(Request)
         /\ \A i \in 1..Len(up) : up'[i] = up[i]
         /\ up'[Len(up) + 1] = q
         /\ \A i \in Nat \ {0}, j \in 0..Len(up) : NoJoin(i, j)' <=> NoJoin(i, j)
         /\ \A i \in Nat \ {0}, j \in {Len(up) + 1} : i <= j =>
              (NoJoin(i, j)' <=> NoJoin(i, Len(up)) /\ q.type # "join")
         /\ Quiet' <=> Quiet /\ q.type # "join"
         /\ \A i \in 1..Len(up) : LastJoin(i)' <=> LastJoin(i) /\ q.type # "join"
         /\ \A i \in {Len(up) + 1} : LastJoin(i)' <=> q.type = "join"
<1>1. /\ Len(up) \in Nat /\ Len(up') = Len(up) + 1 /\ up' \in Seq(Request)
      /\ \A i \in 1..Len(up) : up'[i] = up[i]
      /\ up'[Len(up) + 1] = q
  BY AppendProperties, LenProperties DEF TypeOK
<1>2. ASSUME NEW i \in Nat \ {0}, NEW j \in 0..Len(up) PROVE NoJoin(i, j)' <=> NoJoin(i, j)
  BY <1>1 DEF NoJoin
<1>3. ASSUME NEW i \in Nat \ {0}, NEW j \in {Len(up) + 1}, i <= j
      PROVE  NoJoin(i, j)' <=> NoJoin(i, Len(up)) /\ q.type # "join"
  <2>1. i..j = i..Len(up) \cup {j}
    BY <1>1, <1>3
  <2> QED
    BY <1>1, <2>1 DEF NoJoin
<1>4. Quiet' <=> Quiet /\ q.type # "join"
  <2>1. 1..(Len(up) + 1) = 1..Len(up) \cup {Len(up) + 1}
    BY <1>1
  <2> QED
    BY <1>1, <2>1 DEF Quiet, NoJoin
<1>5. ASSUME NEW i \in 1..Len(up) PROVE LastJoin(i)' <=> LastJoin(i) /\ q.type # "join"
  <2>1. (i + 1)..(Len(up) + 1) = (i + 1)..Len(up) \cup {Len(up) + 1}
    BY <1>1
  <2> QED
    BY <1>1, <2>1 DEF LastJoin, NoJoin
<1>6. ASSUME NEW i \in {Len(up) + 1} PROVE LastJoin(i)' <=> q.type = "join"
  BY <1>1, <1>6 DEF LastJoin, NoJoin
<1> QED
  BY <1>1, <1>2, <1>3, <1>4, <1>5, <1>6

\* The first request taken away.
LEMMA Shorter ==
  ASSUME TypeOK, up # <<>>, up' = Tail(up)
  PROVE  /\ Len(up) \in Nat \ {0} /\ Len(up') = Len(up) - 1 /\ up' \in Seq(Request)
         /\ Head(up) = up[1] /\ up[1] \in Request
         /\ \A i \in 1..(Len(up) - 1) : up'[i] = up[i + 1]
         /\ \A i \in Nat \ {0}, j \in 0..(Len(up) - 1) : NoJoin(i, j)' <=> NoJoin(i + 1, j + 1)
         /\ up[1].type # "join" => \A j \in 0..Len(up) : NoJoin(1, j) <=> NoJoin(2, j)
         /\ Quiet' <=> NoJoin(2, Len(up))
         /\ \A i \in 1..(Len(up) - 1) : LastJoin(i)' <=> LastJoin(i + 1)
<1>1. /\ Len(up) \in Nat \ {0} /\ Len(up') = Len(up) - 1 /\ up' \in Seq(Request)
      /\ Head(up) = up[1] /\ up[1] \in Request
      /\ \A i \in 1..(Len(up) - 1) : up'[i] = up[i + 1]
  BY HeadTailProperties, LenProperties, EmptySeq DEF TypeOK
<1>2. ASSUME NEW i \in Nat \ {0}, NEW j \in 0..(Len(up) - 1)
      PROVE  NoJoin(i, j)' <=> NoJoin(i + 1, j + 1)
  <2>1. \A k \in i..j : up'[k] = up[k + 1] /\ k + 1 \in (i + 1)..(j + 1)
    BY <1>1
  <2>2. \A k \in (i + 1)..(j + 1) : k - 1 \in i..j /\ up'[k - 1] = up[k]
    BY <1>1
  <2> QED
    BY <2>1, <2>2 DEF NoJoin
<1>3. ASSUME up[1].type # "join", NEW j \in 0..Len(up) PROVE NoJoin(1, j) <=> NoJoin(2, j)
  <2>1. \A k \in 1..j : k = 1 \/ k \in 2..j
    BY <1>1
  <2> QED
    BY <1>3, <2>1 DEF NoJoin
<1>4. PICK n \in 0..(Len(up) - 1) : n = Len(up') /\ n + 1 = Len(up)
  <2>1. Len(up) - 1 \in 0..(Len(up) - 1)
    BY <1>1
  <2> WITNESS Len(up) - 1 \in 0..(Len(up) - 1)
  <2> QED
    BY <1>1
<1>5. Quiet' <=> NoJoin(1, n)'
  BY <1>4 DEF Quiet, NoJoin
<1>6. \A i \in 1..n : LastJoin(i)' <=> up'[i].type = "join" /\ NoJoin(i + 1, n)'
  BY <1>4 DEF LastJoin, NoJoin
<1>7. Quiet' <=> NoJoin(2, Len(up))
  <2>1. 1 \in Nat \ {0} /\ n \in 0..(Len(up) - 1) /\ 1 + 1 = 2
    BY <1>1, <1>4
  <2>2. NoJoin(1, n)' <=> NoJoin(1 + 1, n + 1)
    BY <1>2, <2>1
  <2> QED
    BY <1>4, <1>5, <2>1, <2>2
<1>8. ASSUME NEW i \in 1..(Len(up) - 1) PROVE LastJoin(i)' <=> LastJoin(i + 1)
  <2>1. i \in 1..n /\ i + 1 \in Nat \ {0} /\ n \in 0..(Len(up) - 1)
    BY <1>1, <1>4
  <2>2. LastJoin(i)' <=> up'[i].type = "join" /\ NoJoin(i + 1, n)'
    BY <1>6, <2>1
  <2>3. NoJoin(i + 1, n)' <=> NoJoin((i + 1) + 1, n + 1)
    BY <1>2, <2>1
  <2>4. up'[i] = up[i + 1]
    BY <1>1
  <2>5. LastJoin(i + 1) <=> up[i + 1].type = "join" /\ NoJoin((i + 1) + 1, n + 1)
    BY <1>4 DEF LastJoin
  <2> QED
    BY <2>2, <2>3, <2>4, <2>5
<1> QED
  BY <1>1, <1>2, <1>3, <1>7, <1>8

-----------------------------------------------------------------------------
(* Steps of the user. *)

\* JoinRoom: the client is where its last request will bring it, with the passphrase.
LEMMA JoinGuesses ==
  ASSUME TypeOK, Guess, Sealing, NEW name \in Name, NEW key \in Key \cup {NoKey},
         JoinRoom(name, key), active' = name, UNCHANGED upset
  PROVE  Guess' /\ Sealing'
<1> USE DEF JoinRoom, Ask, relay
<1>1. PICK q \in Request : q = [type |-> "join", name |-> name, key |-> key]
  BY DEF Request
<1>2. up' = Append(up, q) /\ q.type = "join" /\ q.name = name /\ q.key = key
  BY <1>1
<1>3. /\ Len(up) \in Nat /\ Len(up') = Len(up) + 1 /\ up' \in Seq(Request)
      /\ \A i \in 1..Len(up) : up'[i] = up[i]
      /\ up'[Len(up) + 1] = q
      /\ \A i \in Nat \ {0}, j \in 0..Len(up) : NoJoin(i, j)' <=> NoJoin(i, j)
      /\ ~Quiet'
      /\ \A i \in 1..Len(up) : ~LastJoin(i)'
  BY <1>2, Longer
<1>4. \A i \in 1..Len(up') : i \in 1..Len(up) \/ i = Len(up) + 1
  BY <1>3
<1>5. Guess'
  BY <1>2, <1>3, <1>4 DEF Guess
<1>6. key # NoKey => keys'[current'] = key
  BY DEF TypeOK
<1>7. Sealing'
  BY <1>2, <1>3, <1>4, <1>6 DEF Sealing
<1> QED
  BY <1>5, <1>7

\* SendChat seals for the room the client believes it is in.
LEMMA ChatSeals ==
  ASSUME TypeOK, Guess, Sealing, SendChat
  PROVE  Guess' /\ Sealing'
<1> USE DEF SendChat, Ask, relay, client
<1>1. PICK q \in Request : q = [type |-> "chat", key |-> keys[current]]
  BY DEF Request, TypeOK
<1>2. up' = Append(up, q) /\ q.type = "chat" /\ q.key = keys[current]
  BY <1>1
<1>3. /\ Len(up) \in Nat /\ Len(up') = Len(up) + 1 /\ up' \in Seq(Request)
      /\ \A i \in 1..Len(up) : up'[i] = up[i]
      /\ up'[Len(up) + 1] = q
      /\ \A i \in Nat \ {0}, j \in 0..Len(up) : NoJoin(i, j)' <=> NoJoin(i, j)
      /\ \A i \in Nat \ {0}, j \in {Len(up) + 1} : i <= j => (NoJoin(i, j)' <=> NoJoin(i, Len(up)))
      /\ Quiet' <=> Quiet
      /\ \A i \in 1..Len(up) : LastJoin(i)' <=> LastJoin(i)
      /\ \A i \in {Len(up) + 1} : ~LastJoin(i)'
  BY <1>2, Longer
<1>4. \A i \in 1..Len(up') : i \in 1..Len(up) \/ i = Len(up) + 1
  BY <1>3
<1>5. Guess'
  BY <1>2, <1>3, <1>4 DEF Guess
<1>6. Sealing'
  <2> SUFFICES ASSUME ~upset PROVE Sealing'
    BY DEF Sealing
  <2>1. ASSUME NEW j \in 1..Len(up'), up'[j].type = "chat", NoJoin(1, j)', secret[room] \in Key
        PROVE  up'[j].key = secret[room]
    BY <2>1, <1>2, <1>3, <1>4 DEF Sealing, Quiet
  <2>2. ASSUME NEW i \in 1..Len(up'), NEW j \in 1..Len(up'), i < j, up'[i].type = "join",
               up'[j].type = "chat", NoJoin(i + 1, j)', up'[i].key # NoKey
        PROVE  up'[j].key = up'[i].key
    <3>1. i \in 1..Len(up) /\ up'[i] = up[i]
      BY <2>2, <1>3, <1>4
    <3>2. CASE j \in 1..Len(up)
      BY <2>2, <3>1, <3>2, <1>3 DEF Sealing
    <3>3. CASE j = Len(up) + 1
      <4>1. LastJoin(i)
        BY <2>2, <3>1, <3>3, <1>3 DEF LastJoin
      <4> QED
        BY <2>2, <3>1, <3>3, <4>1, <1>2, <1>3 DEF Sealing
    <3> QED
      BY <3>2, <3>3, <1>4
  <2> QED
    BY <2>1, <2>2, <1>2, <1>3, <1>4 DEF Sealing
<1> QED
  BY <1>5, <1>6

-----------------------------------------------------------------------------
(* Steps of the relay. *)

\* The message that handleChatMsg makes of the first request.
MayRelay(m) ==
  /\ \E cut \in BOOLEAN :
       m = [id |-> posts + 1, room |-> room, sealed |-> Head(up).key, cut |-> cut]
  /\ up # <<>> /\ Head(up).type = "chat" /\ posts < MaxPosts /\ posts' = posts + 1
  /\ history' = [history EXCEPT ![room] = Append(@, m)]
  /\ up' = Tail(up) /\ down' = down \o (IF member THEN <<m>> ELSE <<>>)
  /\ UNCHANGED <<client, shown, cleared, asked, incoming, room, member, secret, upset>>

LEMMA RelayIs ==
  ASSUME Relay PROVE \E m : MayRelay(m)
<1> DEFINE Made(cut) == [id |-> posts + 1, room |-> room, sealed |-> Head(up).key, cut |-> cut]
<1>1. PICK cut \in BOOLEAN :
        /\ history' = [history EXCEPT ![room] = Append(@, Made(cut))]
        /\ Answer(IF member THEN <<Made(cut)>> ELSE <<>>)
  BY DEF Relay, SanitizeText
<1>2. MayRelay(Made(cut))
  BY <1>1 DEF Relay, Answer, MayRelay
<1> QED
  BY <1>2

\* handleChatMsg posts what was sealed for this room.
LEMMA RelayKeepsGuess ==
  ASSUME TypeOK, Guess, Sealing, Relay
  PROVE  /\ Guess' /\ Sealing'
         /\ Head(up).key \in Key \cup {NoKey}
         /\ ~upset /\ secret[room] \in Key => Head(up).key = secret[room]
<1>0. /\ up # <<>> /\ up' = Tail(up) /\ Head(up).type = "chat"
      /\ UNCHANGED <<client, room, member, secret, upset>>
  BY RelayIs DEF MayRelay
<1> USE <1>0 DEF client
<1>1. /\ Len(up) \in Nat \ {0} /\ Len(up') = Len(up) - 1 /\ up' \in Seq(Request)
      /\ Head(up) = up[1] /\ up[1] \in Request
      /\ \A i \in 1..(Len(up) - 1) : up'[i] = up[i + 1]
      /\ \A i \in Nat \ {0}, j \in 0..(Len(up) - 1) : NoJoin(i, j)' <=> NoJoin(i + 1, j + 1)
      /\ up[1].type # "join" => \A j \in 0..Len(up) : NoJoin(1, j) <=> NoJoin(2, j)
      /\ Quiet' <=> NoJoin(2, Len(up))
      /\ \A i \in 1..(Len(up) - 1) : LastJoin(i)' <=> LastJoin(i + 1)
  BY Shorter
<1>2. up[1].type = "chat" /\ (Quiet' <=> Quiet)
  <2>1. Len(up) \in 0..Len(up) /\ up[1].type = "chat"
    BY <1>1
  <2> QED
    BY <2>1, <1>1 DEF Quiet
<1>3. \A i \in 1..Len(up') : i + 1 \in 1..Len(up) /\ up'[i] = up[i + 1]
  BY <1>1
<1>4. Guess'
  BY <1>1, <1>2, <1>3 DEF Guess
<1>5. Sealing'
  <2> SUFFICES ASSUME ~upset PROVE Sealing'
    BY DEF Sealing
  <2>1. ASSUME NEW j \in 1..Len(up'), up'[j].type = "chat", NoJoin(1, j)', secret[room] \in Key
        PROVE  up'[j].key = secret[room]
    <3>1. NoJoin(1, j + 1)
      BY <2>1, <1>1, <1>2, <1>3
    <3> QED
      BY <2>1, <3>1, <1>3 DEF Sealing
  <2>2. ASSUME NEW i \in 1..Len(up'), NEW j \in 1..Len(up'), i < j, up'[i].type = "join",
               up'[j].type = "chat", NoJoin(i + 1, j)', up'[i].key # NoKey
        PROVE  up'[j].key = up'[i].key
    <3>1. PICK k \in 1..Len(up), l \in 1..Len(up) : k = i + 1 /\ l = j + 1
      BY <1>3
    <3>2. up[k] = up'[i] /\ up[l] = up'[j] /\ k < l
      BY <2>2, <3>1, <1>3
    <3>3. i + 1 \in Nat \ {0} /\ j \in 0..(Len(up) - 1)
      BY <1>1
    <3>4. NoJoin(k + 1, l)
      BY <2>2, <3>1, <3>3, <1>1
    <3> QED
      BY <2>2, <3>2, <3>4 DEF Sealing
  <2> QED
    BY <2>1, <2>2, <1>1, <1>2, <1>3 DEF Sealing
<1>6. Head(up).key \in Key \cup {NoKey}
  BY <1>1, <1>2, RequestIs
<1>7. ~upset /\ secret[room] \in Key => Head(up).key = secret[room]
  <2>1. NoJoin(1, 1)
    BY <1>2 DEF NoJoin
  <2>2. 1 \in 1..Len(up)
    BY <1>1
  <2> QED
    BY <2>1, <2>2, <1>1, <1>2 DEF Sealing
<1> QED
  BY <1>4, <1>5, <1>6, <1>7

\* joinRoomInternal brings the user where the client believed to be going, and the room
\* has the passphrase that came with the request.
LEMMA AdmitKeepsGuess ==
  ASSUME TypeOK, Guess, Sealing, up # <<>>, Head(up).type = "join",
         NEW r \in Room, r = Normal[Head(up).name], Admit(r, Head(up).key)
  PROVE  Guess' /\ Sealing' /\ Head(up).key \in Key \cup {NoKey}
<1> USE DEF Admit, Answer, client
<1>1. /\ Len(up) \in Nat \ {0} /\ Len(up') = Len(up) - 1 /\ up' \in Seq(Request)
      /\ Head(up) = up[1] /\ up[1] \in Request
      /\ \A i \in 1..(Len(up) - 1) : up'[i] = up[i + 1]
      /\ \A i \in Nat \ {0}, j \in 0..(Len(up) - 1) : NoJoin(i, j)' <=> NoJoin(i + 1, j + 1)
      /\ Quiet' <=> NoJoin(2, Len(up))
      /\ \A i \in 1..(Len(up) - 1) : LastJoin(i)' <=> LastJoin(i + 1)
  BY Shorter
<1>2. up[1].type = "join" /\ (Quiet' <=> LastJoin(1))
  BY <1>1 DEF LastJoin
<1>3. \A i \in 1..Len(up') : i + 1 \in 1..Len(up) /\ up'[i] = up[i + 1]
  BY <1>1
<1>4. up[1].key \in Key \cup {NoKey}
  BY <1>1, <1>2, RequestIs
<1>5. Guess'
  BY <1>1, <1>2, <1>3 DEF Guess
<1>6. secret'[room'] \in Key => up[1].key # NoKey /\ secret'[room'] = up[1].key
  BY <1>1, <1>4, SessionAssumption DEF TypeOK
<1>7. Sealing'
  <2> SUFFICES ASSUME ~upset PROVE Sealing'
    BY DEF Sealing
  <2>1. ASSUME NEW j \in 1..Len(up'), up'[j].type = "chat", NoJoin(1, j)', secret'[room'] \in Key
        PROVE  up'[j].key = secret'[room']
    <3>1. NoJoin(1 + 1, j + 1)
      BY <2>1, <1>1, <1>3
    <3>2. 1 \in 1..Len(up) /\ j + 1 \in 1..Len(up) /\ 1 < j + 1
      BY <1>1, <1>3
    <3> QED
      BY <2>1, <3>1, <3>2, <1>2, <1>3, <1>6 DEF Sealing
  <2>2. ASSUME NEW i \in 1..Len(up'), NEW j \in 1..Len(up'), i < j, up'[i].type = "join",
               up'[j].type = "chat", NoJoin(i + 1, j)', up'[i].key # NoKey
        PROVE  up'[j].key = up'[i].key
    <3>1. PICK k \in 1..Len(up), l \in 1..Len(up) : k = i + 1 /\ l = j + 1
      BY <1>3
    <3>2. up[k] = up'[i] /\ up[l] = up'[j] /\ k < l
      BY <2>2, <3>1, <1>3
    <3>3. i + 1 \in Nat \ {0} /\ j \in 0..(Len(up) - 1)
      BY <1>1
    <3>4. NoJoin(k + 1, l)
      BY <2>2, <3>1, <3>3, <1>1
    <3> QED
      BY <2>2, <3>2, <3>4 DEF Sealing
  <2>3. Quiet' /\ secret'[room'] \in Key => keys[current] = secret'[room']
    BY <1>1, <1>2, <1>6 DEF Sealing
  <2>4. UNCHANGED <<keys, current, upset>>
    OBVIOUS
  <2> HIDE DEF Admit, Answer, client
  <2>5. ASSUME NEW i \in 1..Len(up'), LastJoin(i)', up'[i].key # NoKey
        PROVE  keys[current] = up'[i].key
    <3>1. i + 1 \in 1..Len(up) /\ up'[i] = up[i + 1] /\ LastJoin(i + 1)
      BY <2>5, <1>1, <1>3
    <3> QED
      BY <2>5, <3>1 DEF Sealing
  <2> QED
    BY <2>1, <2>2, <2>3, <2>4, <2>5 DEF Sealing
<1> QED
  BY <1>1, <1>4, <1>5, <1>7

-----------------------------------------------------------------------------
(* What the feeds hold. *)

\* A message more in a room's history.
LEMMA HistoryIs ==
  ASSUME TypeOK, NEW r \in Room, NEW m \in Message,
         history' = [history EXCEPT ![r] = Append(@, m)]
  PROVE  /\ history' \in [Room -> Seq(Message)]
         /\ \A x \in Room : ToSet(history'[x]) =
              IF x = r THEN ToSet(history[x]) \cup {m} ELSE ToSet(history[x])
<1>1. history[r] \in Seq(Message)
  BY DEF TypeOK
<1>2. Append(history[r], m) \in Seq(Message)
      /\ ToSet(Append(history[r], m)) = ToSet(history[r]) \cup {m}
  BY <1>1, AppendSet
<1>3. history' \in [Room -> Seq(Message)]
  BY <1>2 DEF TypeOK
<1>4. \A x \in Room : history'[x] = IF x = r THEN Append(history[r], m) ELSE history[x]
  BY DEF TypeOK
<1> QED
  BY <1>2, <1>3, <1>4

\* Nothing but that message is new.
LEMMA HistoryGrows ==
  ASSUME TypeOK, NEW r \in Room, NEW m \in Message,
         history' = [history EXCEPT ![r] = Append(@, m)],
         NEW x \in Room, NEW y \in ToSet(history'[x])
  PROVE  y \in ToSet(history[x]) \/ (x = r /\ y = m)
<1>1. ToSet(history'[x]) = IF x = r THEN ToSet(history[x]) \cup {m} ELSE ToSet(history[x])
  BY HistoryIs
<1>2. PICK A, B : A = ToSet(history'[x]) /\ B = ToSet(history[x])
  OBVIOUS
<1>3. y \in A /\ A = IF x = r THEN B \cup {m} ELSE B
  BY <1>1, <1>2
<1>4. y \in B \/ (x = r /\ y = m)
  BY <1>3
<1> QED
  BY <1>2, <1>4

\* A post is on its way to the user who is a member.
LEMMA PostFollows ==
  ASSUME TypeOK, Followed, ~upset => member, NEW r \in Room, NEW m \in Message, m.room = r,
         history' = [history EXCEPT ![r] = Append(@, m)],
         ToSet(down') = ToSet(down) \cup (IF member /\ room = r THEN {m} ELSE {}),
         UNCHANGED <<incoming, shown, cleared, room, upset>>
  PROVE  Followed'
<1>1. \A x \in Room : Stored(x)' = IF x = r THEN Stored(x) \cup {m.id} ELSE Stored(x)
  <2> TAKE x \in Room
  <2>1. ToSet(history'[x]) = IF x = r THEN ToSet(history[x]) \cup {m} ELSE ToSet(history[x])
    BY HistoryIs
  <2>2. Stored(x)' = {l.id : l \in ToSet(history'[x])}
    BY DEF Stored
  <2>3. PICK H : H = ToSet(history[x])
    OBVIOUS
  <2>4. Stored(x) = {l.id : l \in H}
    BY <2>3 DEF Stored
  <2>5. {l.id : l \in H \cup {m}} = {l.id : l \in H} \cup {m.id}
    OBVIOUS
  <2> QED
    BY <2>1, <2>2, <2>3, <2>4, <2>5
<1>2. \A x \in Room : Coming(x)' =
        IF x = r /\ member /\ room = r THEN Coming(x) \cup {m.id} ELSE Coming(x)
  BY DEF Coming
<1>3. \A x \in Room : Arrived(x)' = Arrived(x) /\ Shown(x)' = Shown(x)
  BY DEF Arrived, Shown
<1>4. room \in Room
  BY DEF TypeOK
<1> QED
  BY <1>1, <1>2, <1>3, <1>4 DEF Followed

\* A joining brings the history.
LEMMA AdmitFollows ==
  ASSUME TypeOK, Rooms, Followed, NEW r \in Room, room' = r, down' = down \o history[r],
         UNCHANGED <<incoming, shown, history, upset>>
  PROVE  Followed' /\ down' \in Seq(Message)
<1>1. down' \in Seq(Message) /\ ToSet(down') = ToSet(down) \cup ToSet(history[r])
  BY ConcatSet DEF TypeOK
<1>2. \A x \in Room : Coming(x)' = IF x = r THEN Coming(x) \cup Stored(r) ELSE Coming(x)
  BY <1>1 DEF Coming, Stored, Rooms
<1>3. \A x \in Room : /\ Arrived(x)' = Arrived(x) /\ Shown(x)' = Shown(x)
                       /\ Stored(x)' = Stored(x)
  BY DEF Arrived, Shown, Stored
<1> QED
  BY <1>1, <1>2, <1>3 DEF Followed

\* readPump passes the messages on.
LEMMA ReadFollows ==
  ASSUME TypeOK, Followed, ReadPump
  PROVE  TypeOK' /\ Followed'
<1> USE DEF ReadPump, relay, client
<1>1. PICK h \in Message : h = Head(down)
  BY HeadTailSet DEF TypeOK
<1>2. Tail(down) \in Seq(Message) /\ ToSet(down) = ToSet(down') \cup {h}
  BY <1>1, HeadTailSet DEF TypeOK
<1>3. PICK p : p = [room |-> h.room, line |-> [id |-> h.id, readable |-> Decrypt(h)]]
  OBVIOUS
<1>4. p \in [room : Room, line : Line] /\ p.room = h.room /\ p.line.id = h.id
  BY <1>3 DEF Message, Line, Decrypt
<1>5. incoming' = Append(incoming, p)
  BY <1>1, <1>3
<1>6. incoming' \in Seq([room : Room, line : Line]) /\ ToSet(incoming') = ToSet(incoming) \cup {p}
  <2>1. incoming \in Seq([room : Room, line : Line])
    BY DEF TypeOK
  <2>2. PICK P : P = [room : Room, line : Line]
    OBVIOUS
  <2>3. Append(incoming, p) \in Seq(P) /\ ToSet(Append(incoming, p)) = ToSet(incoming) \cup {p}
    <3>1. incoming \in Seq(P) /\ p \in P
      BY <1>4, <2>1, <2>2
    <3> HIDE <2>2
    <3> QED
      BY <3>1, AppendSet
  <2> QED
    BY <1>5, <2>2, <2>3
<1>7. TypeOK'
  BY <1>2, <1>6 DEF TypeOK
<1>8. \A x \in Room : Coming(x) \cup Arrived(x) = Coming(x)' \cup Arrived(x)'
  <2> TAKE x \in Room
  <2>1. Coming(x) = IF x = h.room THEN Coming(x)' \cup {h.id} ELSE Coming(x)'
    BY <1>2 DEF Coming
  <2>2. Arrived(x)' = IF x = h.room THEN Arrived(x) \cup {h.id} ELSE Arrived(x)
    BY <1>4, <1>6 DEF Arrived
  <2> QED
    BY <2>1, <2>2
<1>9. \A x \in Room : Shown(x)' = Shown(x) /\ Stored(x)' = Stored(x)
  BY DEF Shown, Stored
<1>10. room \in Room
  BY DEF TypeOK
<1> QED
  BY <1>7, <1>8, <1>9, <1>10 DEF Followed

\* The screen takes a message once.
LEMMA ShowFollows ==
  ASSUME TypeOK, Followed, HandleChat
  PROVE  TypeOK' /\ Followed'
<1> USE DEF HandleChat, relay, client
<1>1. PICK p \in [room : Room, line : Line] : p = Head(incoming)
  BY HeadTailSet DEF TypeOK
<1>2. /\ Tail(incoming) \in Seq([room : Room, line : Line])
      /\ ToSet(incoming) = ToSet(incoming') \cup {p}
  BY <1>1, HeadTailSet DEF TypeOK
<1>3. p.room \in Room /\ p.room \in Name /\ p.line \in Line /\ shown[p.room] \in Seq(Line)
  BY SessionAssumption DEF TypeOK
<1>4. \A x \in Room : Arrived(x) = IF x = p.room THEN Arrived(x)' \cup {p.line.id} ELSE Arrived(x)'
  BY <1>2 DEF Arrived
<1>5. \A x \in Room : Coming(x)' = Coming(x) /\ Stored(x)' = Stored(x) /\ x \in Name
  BY SessionAssumption DEF Coming, Stored
<1>6. room \in Room
  BY DEF TypeOK
<1>7. CASE HasMessage(p.room, p.line.id)
  <2>1. p.line.id \in Shown(p.room) /\ shown' = shown
    BY <1>1, <1>7 DEF HasMessage, Shown, ToSet
  <2>2. \A n \in Name : Shown(n)' = Shown(n)
    BY <2>1 DEF Shown
  <2>3. TypeOK'
    BY <1>2, <2>1 DEF TypeOK
  <2> QED
    BY <1>4, <1>5, <1>6, <2>1, <2>2, <2>3 DEF Followed
<1>8. CASE ~HasMessage(p.room, p.line.id)
  <2>1. shown' = [shown EXCEPT ![p.room] = Append(@, p.line)]
    BY <1>1, <1>8
  <2>2. PICK t \in Seq(Line) : t = Append(shown[p.room], p.line)
    BY <1>3, AppendSet
  <2>3. ToSet(t) = ToSet(shown[p.room]) \cup {p.line}
    BY <1>3, <2>2, AppendSet
  <2>4. \A n \in Name : shown'[n] = IF n = p.room THEN t ELSE shown[n]
    BY <2>1, <2>2 DEF TypeOK
  <2>5. TypeOK'
    BY <1>2, <1>3, <2>1, <2>2 DEF TypeOK
  <2>6. \A n \in Name : Shown(n)' = IF n = p.room THEN Shown(n) \cup {p.line.id} ELSE Shown(n)
    BY <2>3, <2>4 DEF Shown
  <2>7. ASSUME NEW n \in Name, NEW i \in DOMAIN shown'[n], NEW j \in DOMAIN shown'[n],
               shown'[n][i].id = shown'[n][j].id
        PROVE  i = j
    <3>1. CASE n # p.room
      <4>1. shown'[n] = shown[n]
        BY <2>4, <3>1
      <4> QED
        BY <2>7, <4>1 DEF Followed
    <3>2. CASE n = p.room
      <4>1. DOMAIN shown[n] = 1..Len(shown[n]) /\ Len(shown[n]) \in Nat
        BY <1>3, <3>2, LenProperties
      <4>2. /\ DOMAIN t = 1..(Len(shown[n]) + 1)
            /\ \A k \in 1..Len(shown[n]) : t[k] = shown[n][k]
            /\ t[Len(shown[n]) + 1] = p.line
        BY <1>3, <2>2, <3>2, AppendProperties, LenProperties
      <4>3. \A k \in 1..Len(shown[n]) : shown[n][k].id # p.line.id
        BY <1>8, <3>2, <4>1 DEF HasMessage
      <4>4. shown'[n] = t
        BY <2>4, <3>2
      <4>5. \A k \in DOMAIN t : k \in 1..Len(shown[n]) \/ k = Len(shown[n]) + 1
        BY <4>1, <4>2
      <4>6. \A k, l \in 1..Len(shown[n]) : shown[n][k].id = shown[n][l].id => k = l
        BY <4>1 DEF Followed
      <4> QED
        BY <2>7, <4>2, <4>3, <4>4, <4>5, <4>6
    <3> QED
      BY <3>1, <3>2
  <2> QED
    BY <1>4, <1>5, <1>6, <2>5, <2>6, <2>7 DEF Followed
<1> QED
  BY <1>7, <1>8

-----------------------------------------------------------------------------
(* Every step keeps the invariant. *)

\* At the start nothing has been asked and nothing posted.
LEMMA Established ==
  Init => SessInv
<1> SUFFICES ASSUME Init PROVE SessInv
  OBVIOUS
<1> USE SessionAssumption DEF Init, NewFeeds, NewSecrets, NewHistories
<1>1. TypeOK
  <2>1. /\ shown \in [Name -> Seq(Line)]
        /\ history \in [Room -> Seq(Message)]
    OBVIOUS
  <2>2. up \in Seq(Request) /\ down \in Seq(Message)
        /\ incoming \in Seq([room : Room, line : Line])
    OBVIOUS
  <2>3. secret \in [Room -> Key \cup {NoKey, Absent}] /\ keys \in [Name -> Key \cup {NoKey}]
    OBVIOUS
  <2>4. /\ current \in Name /\ active \in Name /\ asked \in 0..MaxRequests
        /\ room \in Room /\ posts \in 0..MaxPosts
    OBVIOUS
  <2> QED
    BY ZenonT(20), <2>1, <2>2, <2>3, <2>4 DEF TypeOK
<1>2. ToSet(<<>>) = {} /\ Len(<<>>) = 0
  BY DEF ToSet
<1>3. Guess
  BY <1>2 DEF Guess, LastJoin
<1>4. Sealing
  BY <1>2 DEF Sealing, LastJoin
<1>5. Rooms /\ SealedUnlessUpset
  BY <1>2 DEF Rooms, SealedUnlessUpset
<1>6. Followed
  BY <1>2 DEF Followed, Stored, Coming, Arrived, Shown
<1> QED
  BY <1>1, <1>3, <1>4, <1>5, <1>6 DEF SessInv

\* What a request leaves as it is.
LEMMA AskKeeps ==
  ASSUME TypeOK, Rooms, Followed, SealedUnlessUpset, NEW q \in Request, Ask(q), upset => upset'
  PROVE  /\ Rooms' /\ Followed' /\ SealedUnlessUpset'
         /\ asked' \in 0..MaxRequests /\ up' \in Seq(Request)
<1> USE DEF Ask, relay
<1>1. asked' \in 0..MaxRequests
  BY SessionAssumption DEF TypeOK
<1>2. up' \in Seq(Request)
  BY AppendSet DEF TypeOK
<1>3. Rooms' /\ SealedUnlessUpset'
  BY DEF Rooms, SealedUnlessUpset
<1>4. Followed'
  BY DEF Followed, Stored, Coming, Arrived, Shown
<1> QED
  BY <1>1, <1>2, <1>3, <1>4

\* JoinRoom, by /join or by switchRoom.
LEMMA JoinKeeps ==
  ASSUME SessInv, NEW name \in Name, NEW key \in Key \cup {NoKey},
         JoinRoom(name, key), active' = name, UNCHANGED upset
  PROVE  SessInv'
<1>1. Guess' /\ Sealing'
  BY JoinGuesses DEF SessInv
<1>2. PICK q \in Request : q = [type |-> "join", name |-> name, key |-> key]
  BY DEF Request
<1>3. /\ Rooms' /\ Followed' /\ SealedUnlessUpset'
      /\ asked' \in 0..MaxRequests /\ up' \in Seq(Request)
  BY <1>2, AskKeeps DEF SessInv, JoinRoom
<1>4. TypeOK'
  BY <1>3 DEF SessInv, TypeOK, JoinRoom, Ask, relay
<1> QED
  BY <1>1, <1>3, <1>4 DEF SessInv

\* SendChat.
LEMMA SendKeeps ==
  ASSUME SessInv, SendChat PROVE SessInv'
<1>1. Guess' /\ Sealing'
  BY ChatSeals DEF SessInv
<1>2. PICK q \in Request : q = [type |-> "chat", key |-> keys[current]]
  BY DEF Request, SessInv, TypeOK
<1>3. /\ Rooms' /\ Followed' /\ SealedUnlessUpset'
      /\ asked' \in 0..MaxRequests /\ up' \in Seq(Request)
  BY <1>2, AskKeeps DEF SessInv, SendChat
<1>4. TypeOK'
  BY <1>3 DEF SessInv, TypeOK, SendChat, Ask, relay, client
<1> QED
  BY <1>1, <1>3, <1>4 DEF SessInv

\* A second login: nothing is promised from here on.
LEMMA AuthenticateKeeps ==
  ASSUME SessInv, Authenticate PROVE SessInv'
<1>1. Guess' /\ Sealing'
  BY DEF SessInv, Guess, Sealing, Authenticate, client
<1>2. PICK q \in Request : q = [type |-> "auth"]
  BY DEF Request
<1>3. /\ Rooms' /\ Followed' /\ SealedUnlessUpset'
      /\ asked' \in 0..MaxRequests /\ up' \in Seq(Request)
  BY <1>2, AskKeeps DEF SessInv, Authenticate
<1>4. TypeOK'
  BY <1>3 DEF SessInv, TypeOK, Authenticate, Ask, relay, client
<1> QED
  BY <1>1, <1>3, <1>4 DEF SessInv

\* /clear takes lines away, and says so.
LEMMA ClearKeeps ==
  ASSUME SessInv, Clear PROVE SessInv'
<1>1. UNCHANGED <<client, up, relay, upset>>
  BY DEF Clear
<1>2. Guess' /\ Sealing'
  BY <1>1 DEF SessInv, Guess, Sealing, Quiet, NoJoin, LastJoin, client, relay
<1>3. Rooms' /\ SealedUnlessUpset'
  BY <1>1 DEF SessInv, Rooms, SealedUnlessUpset, relay
<1> USE DEF Clear, client, relay
<1>4. /\ shown' \in [Name -> Seq(Line)]
      /\ \A n \in Name : shown'[n] = IF n = active THEN <<>> ELSE shown[n]
  BY DEF SessInv, TypeOK
<1>5. TypeOK'
  <2>1. asked' \in 0..MaxRequests /\ cleared' \subseteq Name
    BY SessionAssumption DEF SessInv, TypeOK
  <2> QED
    BY <1>4, <2>1 DEF SessInv, TypeOK
<1>6. Followed'
  <2>1. \A r \in Room : Coming(r)' = Coming(r) /\ Arrived(r)' = Arrived(r) /\ Stored(r)' = Stored(r)
    BY DEF Coming, Arrived, Stored
  <2>2. ToSet(<<>>) = {} /\ DOMAIN <<>> = {}
    BY DEF ToSet
  <2>3. \A n \in Name : Shown(n)' = IF n = active THEN {} ELSE Shown(n)
    BY <1>4, <2>2 DEF Shown
  <2>4. room \in Room /\ room \in Name /\ Room \subseteq Name
    BY SessionAssumption DEF SessInv, TypeOK
  <2>5. \A n \in Name : \A i, j \in DOMAIN shown'[n] : shown'[n][i].id = shown'[n][j].id => i = j
    BY <1>4, <2>2 DEF SessInv, Followed
  <2> QED
    BY <2>1, <2>3, <2>4, <2>5 DEF SessInv, Followed
<1> QED
  BY <1>2, <1>3, <1>5, <1>6 DEF SessInv

\* A switch to a relay on which the user is in #general and nothing has been said.
LEMMA SwitchServerKeeps ==
  ASSUME SessInv, SwitchServer PROVE SessInv'
<1> USE SessionAssumption DEF SwitchServer, NewFeeds, NewSecrets, NewHistories
<1>1. TypeOK'
  <2>1. /\ shown' \in [Name -> Seq(Line)]
        /\ history' \in [Room -> Seq(Message)]
    OBVIOUS
  <2>2. up' \in Seq(Request) /\ down' \in Seq(Message)
    OBVIOUS
  <2>3. secret' \in [Room -> Key \cup {NoKey, Absent}]
    OBVIOUS
  <2>4. /\ current' \in Name /\ active' \in Name /\ asked' \in 0..MaxRequests
        /\ room' \in Room /\ member' \in BOOLEAN /\ upset' \in BOOLEAN /\ cleared' = {}
    BY DEF SessInv, TypeOK
  <2>5. UNCHANGED <<keys, incoming, posts>>
    OBVIOUS
  <2> QED
    BY <2>1, <2>2, <2>3, <2>4, <2>5 DEF SessInv, TypeOK
<1>2. ToSet(<<>>) = {} /\ Len(<<>>) = 0
  BY DEF ToSet
<1>3. Guess' /\ Sealing'
  BY <1>2 DEF Guess, Sealing, LastJoin
<1>4. Rooms' /\ SealedUnlessUpset'
  BY <1>2 DEF Rooms, SealedUnlessUpset
<1>5. Followed'
  <2>1. \A n \in Name : \A i, j \in DOMAIN shown'[n] :
          shown'[n][i].id = shown'[n][j].id => i = j
    OBVIOUS
  <2>2. ASSUME ~upset', NEW r \in Room
        PROVE  Coming(r)' = {} /\ Arrived(r)' = {} /\ Shown(r)' = {} /\ Stored(r)' = {}
    <3>1. incoming' = <<>> /\ down' = <<>> /\ shown'[r] = <<>> /\ history'[r] = <<>>
      BY <2>2
    <3> QED
      BY <1>2, <3>1 DEF Coming, Arrived, Shown, Stored
  <2>3. room' \in Room
    OBVIOUS
  <2> QED
    BY <2>1, <2>2, <2>3 DEF Followed
<1> QED
  BY <1>1, <1>3, <1>4, <1>5 DEF SessInv

\* An answer that changes nothing else: a refusal, or a wrong password.
LEMMA RefusalKeeps ==
  ASSUME SessInv, up # <<>>, Answer(<<>>), upset', member' \in BOOLEAN,
         UNCHANGED <<cleared, room, secret, history, posts>>
  PROVE  SessInv'
<1> USE DEF Answer, client
<1>1. up' \in Seq(Request)
  BY HeadTailSet DEF SessInv, TypeOK
<1>2. down' = down
  BY ConcatProperties, EmptySeq DEF SessInv, TypeOK
<1>3. TypeOK'
  BY <1>1, <1>2 DEF SessInv, TypeOK
<1>4. Guess' /\ Sealing' /\ SealedUnlessUpset'
  BY DEF SessInv, Guess, Sealing, SealedUnlessUpset
<1>5. Rooms'
  BY DEF SessInv, Rooms
<1>6. Followed'
  BY <1>2 DEF SessInv, Followed, Stored, Coming, Arrived, Shown
<1> QED
  BY <1>3, <1>4, <1>5, <1>6 DEF SessInv

\* A message more in the history of a room that exists, and sealed for it.
LEMMA PostSealed ==
  ASSUME SessInv, NEW r \in Room, NEW m \in Message, m.room = r, secret[r] # Absent,
         ~upset /\ secret[r] \in Key => m.sealed = secret[r],
         history' = [history EXCEPT ![r] = Append(@, m)], UNCHANGED <<secret, room, upset>>
  PROVE  Rooms' /\ SealedUnlessUpset'
<1>2. \A x \in Room : secret[x] = Absent => history'[x] = <<>>
  BY DEF SessInv, TypeOK, Rooms
<1>3. Rooms'
  <2>1. ASSUME NEW x \in Room, NEW y \in ToSet(history'[x]) PROVE y.room = x
    <3>1. y \in ToSet(history[x]) \/ (x = r /\ y = m)
      BY <2>1, HistoryGrows DEF SessInv
    <3> QED
      BY <3>1 DEF SessInv, Rooms
  <2> QED
    BY <1>2, <2>1 DEF SessInv, Rooms
<1>4. SealedUnlessUpset'
  <2>1. ASSUME ~upset, NEW x \in Room, secret[x] \in Key, NEW y \in ToSet(history'[x])
        PROVE  y.sealed = secret[x]
    <3>1. y \in ToSet(history[x]) \/ (x = r /\ y = m)
      BY <2>1, HistoryGrows DEF SessInv
    <3> QED
      BY <2>1, <3>1 DEF SessInv, SealedUnlessUpset
  <2> QED
    BY <2>1 DEF SealedUnlessUpset
<1> QED
  BY <1>3, <1>4

\* It goes to the user who is a member.
LEMMA RelayAdds ==
  ASSUME TypeOK, NEW m \in Message, MayRelay(m)
  PROVE  down' \in Seq(Message) /\ ToSet(down') = ToSet(down) \cup (IF member THEN {m} ELSE {})
<1> USE DEF MayRelay
<1>1. down \in Seq(Message)
  BY DEF TypeOK
<1>2. CASE member
  <2>1. <<m>> \in Seq(Message) /\ ToSet(<<m>>) = {m}
    BY DEF ToSet
  <2>2. PICK t : t = <<m>>
    OBVIOUS
  <2>3. down' = down \o t /\ t \in Seq(Message) /\ ToSet(t) = {m}
    BY <1>2, <2>1, <2>2
  <2> QED
    BY <1>1, <1>2, <2>3, ConcatSet
<1>3. CASE ~member
  <2>1. down' = down
    BY <1>1, <1>3, ConcatProperties, EmptySeq
  <2> QED
    BY <1>1, <1>3, <2>1
<1> QED
  BY <1>2, <1>3

\* handleChatMsg.
LEMMA RelayKeeps ==
  ASSUME SessInv, Relay PROVE SessInv'
<1>1. Guess' /\ Sealing' /\ Head(up).key \in Key \cup {NoKey}
      /\ (~upset /\ secret[room] \in Key => Head(up).key = secret[room])
  BY RelayKeepsGuess DEF SessInv
<1>2. PICK m : MayRelay(m)
  BY RelayIs
<1>3. posts + 1 \in 1..MaxPosts /\ room \in Room
  BY SessionAssumption DEF SessInv, TypeOK, Relay
<1>4. m \in Message /\ m.room = room /\ m.sealed = Head(up).key
  BY <1>1, <1>2, <1>3 DEF Message, MayRelay
<1>5. /\ history' = [history EXCEPT ![room] = Append(@, m)]
      /\ down' = down \o (IF member THEN <<m>> ELSE <<>>)
      /\ up # <<>> /\ up' = Tail(up) /\ posts' = posts + 1
      /\ UNCHANGED <<client, shown, cleared, asked, incoming, room, member, secret, upset>>
  BY <1>2 DEF MayRelay
<1>6. down' \in Seq(Message) /\ ToSet(down') = ToSet(down) \cup (IF member THEN {m} ELSE {})
  BY <1>2, <1>4, RelayAdds DEF SessInv
<1>7. Followed'
  BY <1>3, <1>4, <1>5, <1>6, PostFollows DEF SessInv, Guess
<1>8. Rooms' /\ SealedUnlessUpset'
  BY <1>1, <1>3, <1>4, <1>5, PostSealed DEF SessInv, Rooms
<1>9. TypeOK'
  <2>1. history' \in [Room -> Seq(Message)]
    BY <1>3, <1>4, <1>5, HistoryIs DEF SessInv
  <2>2. up' \in Seq(Request)
    BY <1>5, HeadTailSet DEF SessInv, TypeOK
  <2>3. posts' \in 0..MaxPosts
    BY <1>3, <1>5, SessionAssumption
  <2> QED
    BY <1>5, <1>6, <2>1, <2>2, <2>3 DEF SessInv, TypeOK, client
<1> QED
  BY <1>1, <1>7, <1>8, <1>9 DEF SessInv

\* joinRoomInternal after a JOIN_ROOM.
LEMMA AdmitKeeps ==
  ASSUME SessInv, up # <<>>, NEW r \in Room, NEW key \in Key \cup {NoKey}, Admit(r, key),
         Guess', Sealing'
  PROVE  SessInv'
<1>1. /\ room' = r /\ member' = TRUE /\ up' = Tail(up) /\ down' = down \o history[r]
      /\ cleared' = cleared \ {r}
      /\ UNCHANGED <<client, shown, asked, incoming, history, posts, upset>>
  BY DEF Admit, Answer
<1>2. Followed' /\ down' \in Seq(Message)
  BY <1>1, AdmitFollows DEF SessInv
<1>3. /\ secret' \in [Room -> Key \cup {NoKey, Absent}] /\ secret'[r] # Absent
      /\ \A x \in Room : secret[x] # Absent => secret'[x] = secret[x]
      /\ \A x \in Room : secret'[x] = Absent => secret[x] = Absent
  BY SessionAssumption DEF SessInv, TypeOK, Admit
<1>4. TypeOK'
  <2>1. up' \in Seq(Request)
    BY <1>1, HeadTailSet DEF SessInv, TypeOK
  <2> QED
    BY <1>1, <1>2, <1>3, <2>1 DEF SessInv, TypeOK, client
<1>5. Rooms'
  BY <1>1, <1>3 DEF SessInv, Rooms
<1>6. SealedUnlessUpset'
  <2>1. \A x \in Room : secret[x] = Absent => ToSet(history[x]) = {}
    BY DEF SessInv, Rooms, ToSet
  <2> QED
    BY <1>1, <1>3, <2>1 DEF SessInv, SealedUnlessUpset
<1> QED
  BY <1>2, <1>4, <1>5, <1>6 DEF SessInv

\* handleJoinRoom, right password or wrong.
LEMMA HandleJoinKeeps ==
  ASSUME SessInv, HandleJoin PROVE SessInv'
<1>1. PICK r : r = Normal[Head(up).name]
  OBVIOUS
<1>2. /\ up # <<>> /\ Head(up).type = "join" /\ r # NoRoom
      /\ Admit(r, Head(up).key) \/ Deny(r, Head(up).key)
  BY <1>1 DEF HandleJoin
<1>3. r \in Room
  <2>1. Head(up) \in Request
    BY <1>2, HeadTailSet DEF SessInv, TypeOK
  <2> QED
    BY <1>1, <1>2, <2>1, RequestIs, SessionAssumption
<1>4. CASE Admit(r, Head(up).key)
  <2>1. Guess' /\ Sealing' /\ Head(up).key \in Key \cup {NoKey}
    BY <1>1, <1>2, <1>3, <1>4, AdmitKeepsGuess DEF SessInv
  <2> QED
    BY <1>2, <1>3, <1>4, <2>1, AdmitKeeps
<1>5. CASE Deny(r, Head(up).key)
  BY <1>2, <1>5, RefusalKeeps DEF Deny
<1> QED
  BY <1>2, <1>4, <1>5

\* handleAuth is on its way only after the user asked for it.
LEMMA HandleAuthKeeps ==
  ASSUME SessInv, HandleAuth PROVE SessInv'
<1>1. up # <<>> /\ Head(up).type = "auth" /\ Admit(General, NoKey)
  BY DEF HandleAuth
<1>2. upset
  <2>1. Len(up) \in Nat /\ Len(up) # 0 /\ Head(up) = up[1]
    BY <1>1, LenProperties, EmptySeq, HeadTailProperties DEF SessInv, TypeOK
  <2>2. 1 \in 1..Len(up)
    BY <2>1
  <2> QED
    BY <1>1, <2>1, <2>2 DEF SessInv, Guess
<1>3. Guess' /\ Sealing'
  BY <1>1, <1>2 DEF SessInv, Guess, Sealing, Admit, Answer, client
<1> QED
  BY <1>1, <1>3, AdmitKeeps, SessionAssumption

\* Another user's room is new, so it is not the user's and has no history.
LEMMA CreateKeeps ==
  ASSUME SessInv, NEW r \in Room, NEW key \in Key, Create(r, key) PROVE SessInv'
<1> USE DEF Create, client
<1>1. /\ secret' \in [Room -> Key \cup {NoKey, Absent}] /\ secret'[room] = secret[room]
      /\ \A x \in Room : secret'[x] = IF x = r THEN key ELSE secret[x]
  BY DEF SessInv, TypeOK, Rooms
<1>2. TypeOK'
  BY <1>1 DEF SessInv, TypeOK
<1>3. Guess'
  BY DEF SessInv, Guess, Quiet, NoJoin, LastJoin
<1>4. Sealing'
  BY <1>1 DEF SessInv, Sealing, Quiet, NoJoin, LastJoin
<1>5. Rooms'
  BY <1>1 DEF SessInv, Rooms
<1>6. SealedUnlessUpset'
  <2>1. ToSet(history[r]) = {}
    BY DEF SessInv, Rooms, ToSet
  <2> QED
    BY <1>1, <2>1 DEF SessInv, SealedUnlessUpset
<1>7. Followed'
  BY DEF SessInv, Followed, Stored, Coming, Arrived, Shown
<1> QED
  BY <1>2, <1>3, <1>4, <1>5, <1>6, <1>7 DEF SessInv

\* The message of another user.
MayPost(r, m) ==
  /\ \E cut \in BOOLEAN : m = [id |-> posts + 1, room |-> r, sealed |-> secret[r], cut |-> cut]
  /\ secret[r] # Absent /\ posts < MaxPosts /\ posts' = posts + 1
  /\ history' = [history EXCEPT ![r] = Append(@, m)]
  /\ down' = IF member /\ room = r THEN Append(down, m) ELSE down
  /\ UNCHANGED <<client, shown, cleared, asked, up, incoming, room, member, secret, upset>>

LEMMA PostIs ==
  ASSUME NEW r \in Room, Post(r) PROVE \E m : MayPost(r, m)
<1> DEFINE Made(cut) == [id |-> posts + 1, room |-> r, sealed |-> secret[r], cut |-> cut]
<1>1. PICK cut \in BOOLEAN :
        /\ history' = [history EXCEPT ![r] = Append(@, Made(cut))]
        /\ down' = IF member /\ room = r THEN Append(down, Made(cut)) ELSE down
  BY DEF Post, SanitizeText
<1>2. MayPost(r, Made(cut))
  BY <1>1 DEF Post, MayPost
<1> QED
  BY <1>2

\* It keeps the invariant.
LEMMA PostKeeps ==
  ASSUME SessInv, NEW r \in Room, Post(r) PROVE SessInv'
<1>1. PICK m : MayPost(r, m)
  BY PostIs
<1>2. /\ secret[r] # Absent /\ posts' = posts + 1
      /\ history' = [history EXCEPT ![r] = Append(@, m)]
      /\ down' = IF member /\ room = r THEN Append(down, m) ELSE down
      /\ UNCHANGED <<client, shown, cleared, asked, up, incoming, room, member, secret, upset>>
  BY <1>1 DEF MayPost
<1>3. posts + 1 \in 1..MaxPosts
  BY SessionAssumption DEF SessInv, TypeOK, Post
<1>4. m \in Message /\ m.room = r /\ m.sealed = secret[r]
  BY <1>1, <1>2, <1>3 DEF SessInv, TypeOK, Message, MayPost
<1>5. /\ down' \in Seq(Message)
      /\ ToSet(down') = ToSet(down) \cup (IF member /\ room = r THEN {m} ELSE {})
  <2>1. down \in Seq(Message)
    BY DEF SessInv, TypeOK
  <2> QED
    BY <1>2, <1>4, <2>1, AppendSet
<1>6. Followed'
  BY <1>2, <1>4, <1>5, PostFollows DEF SessInv, Guess
<1>7. Rooms' /\ SealedUnlessUpset'
  BY <1>2, <1>4, PostSealed
<1>8. TypeOK'
  <2>1. history' \in [Room -> Seq(Message)]
    BY <1>2, <1>4, HistoryIs DEF SessInv
  <2>2. posts' \in 0..MaxPosts
    BY <1>2, <1>3, SessionAssumption
  <2> QED
    BY <1>2, <1>5, <2>1, <2>2 DEF SessInv, TypeOK, client
<1>9. Guess' /\ Sealing'
  BY <1>2 DEF SessInv, Guess, Sealing, Quiet, NoJoin, LastJoin, client
<1> QED
  BY <1>6, <1>7, <1>8, <1>9 DEF SessInv

\* readPump and handleIncomingPacket touch neither the requests nor the rooms.
LEMMA BackKeeps ==
  ASSUME SessInv, ReadPump \/ HandleChat PROVE SessInv'
<1>1. TypeOK' /\ Followed'
  BY ReadFollows, ShowFollows DEF SessInv
<1>2. UNCHANGED <<client, up, relay, upset>>
  BY DEF ReadPump, HandleChat
<1>3. Guess' /\ Sealing'
  BY <1>2 DEF SessInv, Guess, Sealing, Quiet, NoJoin, LastJoin, client, relay
<1>4. Rooms' /\ SealedUnlessUpset'
  BY <1>2 DEF SessInv, Rooms, SealedUnlessUpset, relay
<1> QED
  BY <1>1, <1>3, <1>4 DEF SessInv

\* One case per action.
LEMMA StepKeeps ==
  SessInv /\ [Next]_vars => SessInv'
<1> SUFFICES ASSUME SessInv, [Next]_vars PROVE SessInv'
  OBVIOUS
<1>1. ASSUME NEW n \in Name, NEW k \in Key \cup {NoKey}, Join(n, k) PROVE SessInv'
  BY <1>1, JoinKeeps DEF Join
<1>2. ASSUME NEW r \in Room, SwitchRoom(r) PROVE SessInv'
  <2>1. r \in Name
    BY SessionAssumption
  <2> QED
    BY <1>2, <2>1, JoinKeeps DEF SwitchRoom
<1>3. CASE SendChat
  BY <1>3, SendKeeps
<1>4. CASE Authenticate
  BY <1>4, AuthenticateKeeps
<1>5. CASE Refuse
  <2>1. member' \in BOOLEAN
    BY <1>5 DEF Refuse, relay, SessInv, TypeOK
  <2> QED
    BY <1>5, <2>1, RefusalKeeps DEF Refuse, relay
<1>6. CASE Relay
  BY <1>6, RelayKeeps
<1>7. CASE HandleJoin
  BY <1>7, HandleJoinKeeps
<1>8. CASE HandleAuth
  BY <1>8, HandleAuthKeeps
<1>9. ASSUME NEW r \in Room, NEW k \in Key, Create(r, k) PROVE SessInv'
  BY <1>9, CreateKeeps
<1>10. ASSUME NEW r \in Room, Post(r) PROVE SessInv'
  BY <1>10, PostKeeps
<1>11. CASE ReadPump \/ HandleChat
  BY <1>11, BackKeeps
<1>12. CASE SwitchServer \/ Clear
  BY <1>12, SwitchServerKeeps, ClearKeeps
<1>13. CASE UNCHANGED vars
  <2> USE <1>13 DEF vars, client, relay
  <2>1. TypeOK' /\ Rooms' /\ SealedUnlessUpset'
    BY DEF SessInv, TypeOK, Rooms, SealedUnlessUpset
  <2>2. Guess' /\ Sealing'
    BY DEF SessInv, Guess, Sealing, Quiet, NoJoin, LastJoin
  <2>3. Followed'
    BY DEF SessInv, Followed, Stored, Coming, Arrived, Shown
  <2> QED
    BY <2>1, <2>2, <2>3 DEF SessInv
<1> QED
  BY <1>1, <1>2, <1>3, <1>4, <1>5, <1>6, <1>7, <1>8, <1>9, <1>10, <1>11, <1>12, <1>13
     DEF Next

-----------------------------------------------------------------------------
(* What follows. *)

\* The invariant of everything below.
THEOREM Invariance == Spec => []SessInv
BY Established, StepKeeps, PTL DEF Spec

\* The client's fields, the queues and the relay's maps keep their Go types.
THEOREM TypeCorrect == Spec => []TypeOK
<1>1. SessInv => TypeOK
  BY DEF SessInv
<1> QED
  BY Invariance, <1>1, PTL

\* The client's early guess of its room (JoinRoom sets it before the relay answers) comes
\* true unless the relay refuses something.
THEOREM Agreement == Spec => []RoomsAgree
<1>1. SessInv => RoomsAgree
  <2> SUFFICES ASSUME SessInv, Settled, ~upset
               PROVE  current = active /\ Normal[active] = room /\ member
    BY DEF RoomsAgree
  <2>1. Quiet
    BY DEF Settled, Quiet, NoJoin
  <2> QED
    BY <2>1 DEF SessInv, Guess
<1> QED
  BY Invariance, <1>1, PTL

\* A feed has a room's messages once each, whatever the history and the broadcast bring,
\* and all of them once nothing is under way, if the user has not emptied it since.
THEOREM ExactFeed == Spec => []FeedExact
<1>1. SessInv => FeedExact
  <2> SUFFICES ASSUME SessInv PROVE FeedExact
    OBVIOUS
  <2>1. ASSUME NEW n \in Name PROVE Cardinality({l.id : l \in ToSet(shown[n])}) = Len(shown[n])
    <3>1. shown[n] \in Seq(Line)
      BY DEF SessInv, TypeOK
    <3>2. DOMAIN shown[n] = 1..Len(shown[n]) /\ Len(shown[n]) \in Nat
      BY <3>1, LenProperties
    <3>3. PICK I : I = {l.id : l \in ToSet(shown[n])}
      OBVIOUS
    <3>4. PICK f : f = [i \in 1..Len(shown[n]) |-> shown[n][i].id]
      OBVIOUS
    <3>5. \A i \in 1..Len(shown[n]) : f[i] \in I
      BY <3>2, <3>3, <3>4 DEF ToSet
    <3>6. \A e \in I : \E i \in 1..Len(shown[n]) : f[i] = e
      BY <3>2, <3>3, <3>4 DEF ToSet
    <3>7. \A i, j \in 1..Len(shown[n]) : f[i] = f[j] => i = j
      BY <3>2, <3>4 DEF SessInv, Followed
    <3>8. f \in Bijection(1..Len(shown[n]), I)
      BY <3>4, <3>5, <3>6, <3>7, Fun_IsBij
    <3>9. ExistsBijection(1..Len(shown[n]), I)
      BY <3>8, Fun_ExistsBij
    <3> QED
      BY <3>2, <3>3, <3>9, FS_CountingElements
  <2>2. ASSUME Settled, ~upset
        PROVE  /\ Shown(room) \subseteq Stored(room)
               /\ room \notin cleared => Stored(room) \subseteq Shown(room)
    <3>1. Coming(room) = {} /\ Arrived(room) = {}
      BY <2>2 DEF Settled, Coming, Arrived, ToSet
    <3>2. room \in Room
      BY DEF SessInv, TypeOK
    <3> QED
      BY <2>2, <3>1, <3>2 DEF SessInv, Followed
  <2> QED
    BY <2>1, <2>2 DEF FeedExact, Stored, Shown
<1> QED
  BY Invariance, <1>1, PTL

\* Everything in a private room's history is sealed with the room's passphrase, unless a
\* refusal or a second login came between.
THEOREM Sealed == Spec => []SealedUnlessUpset
<1>1. SessInv => SealedUnlessUpset
  BY DEF SessInv
<1> QED
  BY Invariance, <1>1, PTL

-----------------------------------------------------------------------------
(* What can be read. *)

\* A join under way will be turned away from the room.
Doomed(r) ==
  \E i \in 1..Len(up) : up[i].type = "join" /\ Normal[up[i].name] = r /\ up[i].key # secret[r]

OneSpelling(r) == \A n \in Name \ {r} : Normal[n] = r => keys[n] = NoKey

\* The passphrase of a join under way is the client's for that name, unless a later join
\* has brought another.
Kept ==
  \A i \in 1..Len(up) : up[i].type = "join" /\ up[i].key # NoKey =>
    /\ keys[up[i].name] # NoKey
    /\ \/ keys[up[i].name] = up[i].key
       \/ \E j \in (i + 1)..Len(up) :
            up[j].type = "join" /\ up[j].name = up[i].name /\ up[j].key \notin {NoKey, up[i].key}

\* A line shows the text of its message, unless that was cut.
Tells(r, l) == \A m \in ToSet(history[r]) : m.id = l.id => (l.readable <=> ~m.cut)

Opened(r) ==
  secret[r] \in Key /\ OneSpelling(r) /\ ~Doomed(r) =>
    /\ room = r \/ Coming(r) # {} => keys[r] = secret[r]
    /\ \A p \in ToSet(incoming) : p.room = r => Tells(r, p.line)
    /\ \A l \in ToSet(shown[r]) : Tells(r, l)

\* The client has the passphrase of the private room it is in or still hears from, unless it
\* has asked to join with another and will be turned away.
Readable ==
  ~upset =>
    /\ \A m \in ToSet(down) : secret[m.room] \in Key => m.sealed = secret[m.room]
    /\ \A r \in Room : Opened(r)

\* A message of a room is known by its number, and those on their way to the user are
\* messages as they were stored.
Numbered ==
  /\ \A r \in Room : \A m \in ToSet(history[r]) : m.id \in 1..posts
  /\ \A r \in Room : \A x, y \in ToSet(history[r]) : x.id = y.id => x = y
  /\ ~upset => \A m \in ToSet(down) : m.room \in Room /\ m \in ToSet(history[m.room])

ReadInv == SessInv /\ Kept /\ Numbered /\ Readable

\* The histories after a message more: what they hold, and that nothing is gone.
More(r, m) ==
  /\ \A x \in Room : \A y \in ToSet(history'[x]) : y \in ToSet(history[x]) \/ y = m
  /\ \A x \in Room : \A y \in ToSet(history[x]) : y \in ToSet(history'[x])
  /\ m \in ToSet(history'[r])

LEMMA HistoryMore ==
  ASSUME TypeOK, NEW r \in Room, NEW m \in Message,
         history' = [history EXCEPT ![r] = Append(@, m)]
  PROVE  More(r, m)
<1>1. \A x \in Room : ToSet(history'[x]) =
        IF x = r THEN ToSet(history[x]) \cup {m} ELSE ToSet(history[x])
  BY HistoryIs
<1>2. ASSUME NEW x \in Room, NEW y \in ToSet(history'[x]) PROVE y \in ToSet(history[x]) \/ y = m
  <2>1. PICK A, B : A = ToSet(history'[x]) /\ B = ToSet(history[x])
    OBVIOUS
  <2>2. y \in A /\ A = IF x = r THEN B \cup {m} ELSE B
    BY <1>1, <1>2, <2>1
  <2>3. y \in B \/ y = m
    BY <2>2
  <2> QED
    BY <2>1, <2>3
<1>3. ASSUME NEW x \in Room, NEW y \in ToSet(history[x]) PROVE y \in ToSet(history'[x])
  <2>1. PICK A, B : A = ToSet(history'[x]) /\ B = ToSet(history[x])
    OBVIOUS
  <2>2. y \in B /\ A = IF x = r THEN B \cup {m} ELSE B
    BY <1>1, <1>3, <2>1
  <2>3. y \in A
    BY <2>2
  <2> QED
    BY <2>1, <2>3
<1>4. m \in ToSet(history'[r])
  <2>1. PICK A, B : A = ToSet(history'[r]) /\ B = ToSet(history[r])
    OBVIOUS
  <2>2. A = B \cup {m}
    BY <1>1, <2>1
  <2> QED
    BY <2>1, <2>2
<1> QED
  BY <1>2, <1>3, <1>4 DEF More

\* A message more, with the next number.
LEMMA PostNumbers ==
  ASSUME SessInv, Numbered, NEW r \in Room, NEW m \in Message, m.room = r, m.id = posts + 1,
         posts' = posts + 1, More(r, m),
         ToSet(down') \subseteq ToSet(down) \cup {m}, UNCHANGED upset
  PROVE  Numbered'
<1>1. posts \in Nat
  BY SessionAssumption DEF SessInv, TypeOK
<1>2. ASSUME NEW x \in Room, NEW y \in ToSet(history'[x]) PROVE y.id \in 1..posts'
  BY <1>1, <1>2 DEF Numbered, More
<1>3. ASSUME NEW x \in Room, NEW y \in ToSet(history'[x]), NEW z \in ToSet(history'[x]),
             y.id = z.id
      PROVE  y = z
  <2>1. \A o \in ToSet(history[x]) : o.id # m.id
    BY <1>1 DEF Numbered
  <2> QED
    BY <1>3, <2>1 DEF Numbered, More
<1>4. ASSUME ~upset, NEW y \in ToSet(down') PROVE y.room \in Room /\ y \in ToSet(history'[y.room])
  <2>1. CASE y \in ToSet(down)
    BY <1>4, <2>1 DEF Numbered, More
  <2>2. CASE y = m
    BY <2>2 DEF More
  <2> QED
    BY <1>4, <2>1, <2>2
<1> QED
  BY <1>2, <1>3, <1>4 DEF Numbered

\* Every step keeps the numbers apart.
LEMMA NumbersKeep ==
  ASSUME SessInv, Numbered, [Next]_vars
  PROVE  Numbered'
<1>1. ASSUME UNCHANGED <<history, posts>>, ToSet(down') \subseteq ToSet(down) \/ upset', upset => upset'
      PROVE  Numbered'
  BY <1>1 DEF Numbered
<1>2. CASE Relay
  <2>1. PICK m : MayRelay(m)
    BY <1>2, RelayIs
  <2>2. Head(up).key \in Key \cup {NoKey}
    BY <1>2, RelayKeepsGuess DEF SessInv
  <2>3. posts + 1 \in 1..MaxPosts /\ room \in Room
    BY <2>1, SessionAssumption DEF SessInv, TypeOK, MayRelay
  <2>4. m \in Message /\ m.room = room /\ m.id = posts + 1
    BY <2>1, <2>2, <2>3 DEF Message, MayRelay
  <2>5. ToSet(down') \subseteq ToSet(down) \cup {m}
    BY <2>1, <2>4, RelayAdds DEF SessInv
  <2> QED
    <3>1. More(room, m)
      BY <2>1, <2>3, <2>4, HistoryMore DEF SessInv, MayRelay
    <3> QED
      BY <2>1, <2>3, <2>4, <2>5, <3>1, PostNumbers DEF MayRelay
<1>3. ASSUME NEW r \in Room, Post(r) PROVE Numbered'
  <2>1. PICK m : MayPost(r, m)
    BY <1>3, PostIs
  <2>2. posts + 1 \in 1..MaxPosts
    BY <2>1, SessionAssumption DEF SessInv, TypeOK, MayPost
  <2>3. m \in Message /\ m.room = r /\ m.id = posts + 1
    BY <2>1, <2>2 DEF SessInv, TypeOK, Message, MayPost
  <2>4. ToSet(down') \subseteq ToSet(down) \cup {m}
    BY <2>1, <2>3, AppendSet DEF SessInv, TypeOK, MayPost
  <2> QED
    <3>1. More(r, m)
      BY <2>1, <2>3, HistoryMore DEF SessInv, MayPost
    <3> QED
      BY <2>1, <2>3, <2>4, <3>1, PostNumbers DEF MayPost
<1>4. ASSUME NEW r \in Room, NEW key, Admit(r, key) PROVE Numbered'
  <2>1. UNCHANGED <<history, posts, upset>> /\ down' = down \o history[r]
    BY <1>4 DEF Admit, Answer
  <2>2. ToSet(down') = ToSet(down) \cup ToSet(history[r])
    BY <2>1, ConcatSet DEF SessInv, TypeOK
  <2>3. \A m \in ToSet(history[r]) : m.room = r
    BY DEF SessInv, Rooms
  <2> QED
    BY <2>1, <2>2, <2>3 DEF Numbered
<1>5. CASE HandleJoin
  <2>1. CASE upset' /\ UNCHANGED <<history, posts>>
    BY <2>1, <1>1
  <2>2. CASE Admit(Normal[Head(up).name], Head(up).key)
    <3>1. Head(up) \in Request
      BY <1>5, HeadTailSet DEF SessInv, TypeOK, HandleJoin
    <3>2. Normal[Head(up).name] \in Room
      BY <1>5, <3>1, RequestIs, SessionAssumption DEF HandleJoin
    <3> QED
      BY <2>2, <3>2, <1>4
  <2> QED
    BY <1>5, <2>1, <2>2 DEF HandleJoin, Deny
<1>6. CASE HandleAuth
  BY <1>4, <1>6, SessionAssumption DEF HandleAuth
<1>7. CASE ReadPump
  <2>1. ToSet(down') \subseteq ToSet(down)
    BY <1>7, HeadTailSet DEF ReadPump, SessInv, TypeOK
  <2> QED
    BY <1>1, <1>7, <2>1 DEF ReadPump, relay
<1>8. CASE SwitchServer
  <2>1. ToSet(<<>>) = {}
    BY DEF ToSet
  <2> QED
    BY <1>8, <2>1 DEF SwitchServer, NewHistories, Numbered
<1>9. CASE Refuse
  BY <1>1, <1>9 DEF Refuse, relay
<1>10. CASE UNCHANGED <<history, posts, down>> /\ (upset => upset')
  BY <1>1, <1>10
<1>11. CASE Next
  <2>1. ASSUME NEW n \in Name, NEW k \in Key \cup {NoKey}, Join(n, k) PROVE Numbered'
    BY <1>10, <2>1 DEF Join, JoinRoom, Ask, relay
  <2>2. ASSUME NEW r \in Room, SwitchRoom(r) PROVE Numbered'
    BY <1>10, <2>2 DEF SwitchRoom, JoinRoom, Ask, relay
  <2>3. ASSUME NEW r \in Room, NEW k \in Key, Create(r, k) PROVE Numbered'
    BY <1>10, <2>3 DEF Create
  <2>4. CASE SendChat \/ Authenticate \/ Clear \/ HandleChat
    BY <1>10, <2>4 DEF SendChat, Authenticate, Clear, HandleChat, Ask, relay
  <2> QED
    BY <1>2, <1>3, <1>5, <1>6, <1>7, <1>8, <1>9, <1>11, <2>1, <2>2, <2>3, <2>4 DEF Next
<1>12. CASE UNCHANGED vars
  BY <1>10, <1>12 DEF vars, relay
<1> QED
  BY <1>11, <1>12

\* A request more may doom a room, and dooms none less.
LEMMA KeptLonger ==
  ASSUME TypeOK, Kept, NEW q \in Request, up' = Append(up, q), UNCHANGED secret,
         \/ keys' = keys /\ (q.type = "join" => q.key = NoKey)
         \/ q.type = "join" /\ q.key # NoKey /\ keys' = [keys EXCEPT ![q.name] = q.key]
  PROVE  /\ Kept'
         /\ \A r \in Room : Doomed(r) => Doomed(r)'
         /\ q.type = "join" => \A r \in Room : Normal[q.name] = r /\ q.key # secret[r] => Doomed(r)'
<1>1. /\ Len(up) \in Nat /\ Len(up') = Len(up) + 1 /\ up' \in Seq(Request)
      /\ \A i \in 1..Len(up) : up'[i] = up[i]
      /\ up'[Len(up) + 1] = q
  BY Longer
<1>2. \A i \in 1..Len(up') : i \in 1..Len(up) \/ i = Len(up) + 1
  BY <1>1
<1>3. Len(up) + 1 \in 1..Len(up') /\ \A i \in 1..Len(up) : i \in 1..Len(up')
  BY <1>1
<1>4. \A r \in Room : Doomed(r) => Doomed(r)'
  BY <1>1, <1>3 DEF Doomed
<1>5. q.type = "join" => \A r \in Room : Normal[q.name] = r /\ q.key # secret[r] => Doomed(r)'
  BY <1>1, <1>3 DEF Doomed
<1>6. Kept'
  <2> SUFFICES ASSUME NEW i \in 1..Len(up'), up'[i].type = "join", up'[i].key # NoKey
               PROVE  /\ keys'[up'[i].name] # NoKey
                      /\ \/ keys'[up'[i].name] = up'[i].key
                         \/ \E j \in (i + 1)..Len(up') :
                              /\ up'[j].type = "join" /\ up'[j].name = up'[i].name
                              /\ up'[j].key \notin {NoKey, up'[i].key}
    BY DEF Kept
  <2>1. up'[i] \in Request
    BY <1>1, ElementOfSeq
  <2>2. up'[i].name \in Name
    BY <2>1, RequestIs
  <2>3. CASE i = Len(up) + 1
    BY <2>2, <2>3, <1>1 DEF TypeOK
  <2>4. CASE i \in 1..Len(up)
    <3>1. up'[i] = up[i] /\ keys[up[i].name] # NoKey
      BY <2>4, <1>1 DEF Kept
    <3>2. CASE keys' = keys
      <4>1. CASE keys[up[i].name] = up[i].key
        BY <3>1, <3>2, <4>1
      <4>2. CASE keys[up[i].name] # up[i].key
        <5>1. PICK j \in (i + 1)..Len(up) :
                up[j].type = "join" /\ up[j].name = up[i].name /\ up[j].key \notin {NoKey, up[i].key}
          BY <2>4, <3>1, <4>2 DEF Kept
        <5>2. j \in (i + 1)..Len(up') /\ up'[j] = up[j]
          BY <5>1, <1>1, <2>4
        <5> QED
          BY <3>1, <3>2, <5>1, <5>2
      <4> QED
        BY <4>1, <4>2
    <3>3. CASE q.type = "join" /\ q.key # NoKey /\ keys' = [keys EXCEPT ![q.name] = q.key]
      <4>1. CASE q.name # up[i].name
        <5>1. keys'[up[i].name] = keys[up[i].name]
          BY <2>2, <3>1, <3>3, <4>1 DEF TypeOK
        <5>2. CASE keys[up[i].name] = up[i].key
          BY <3>1, <5>1, <5>2
        <5>3. CASE keys[up[i].name] # up[i].key
          <6>1. PICK j \in (i + 1)..Len(up) :
                  up[j].type = "join" /\ up[j].name = up[i].name /\ up[j].key \notin {NoKey, up[i].key}
            BY <2>4, <3>1, <5>3 DEF Kept
          <6>2. j \in (i + 1)..Len(up') /\ up'[j] = up[j]
            BY <6>1, <1>1, <2>4
          <6> QED
            BY <3>1, <5>1, <6>1, <6>2
        <5> QED
          BY <5>2, <5>3
      <4>2. CASE q.name = up[i].name
        <5>1. keys'[up[i].name] = q.key
          BY <2>2, <3>1, <3>3, <4>2 DEF TypeOK
        <5>2. Len(up) + 1 \in (i + 1)..Len(up')
          BY <1>1, <2>4
        <5> QED
          BY <1>1, <3>1, <3>3, <4>2, <5>1, <5>2
      <4> QED
        BY <4>1, <4>2
    <3> QED
      BY <3>2, <3>3, <2>1, <3>1
  <2> QED
    BY <2>3, <2>4, <1>2
<1> QED
  BY <1>4, <1>5, <1>6

\* The request answered no longer dooms a room, the others do.
LEMMA KeptShorter ==
  ASSUME TypeOK, Kept, up # <<>>, up' = Tail(up), UNCHANGED keys
  PROVE  /\ Kept'
         /\ \A r \in Room : secret'[r] = secret[r] /\ Doomed(r) =>
              \/ Doomed(r)'
              \/ Head(up).type = "join" /\ Normal[Head(up).name] = r /\ Head(up).key # secret[r]
         /\ Head(up).type = "join" /\ Head(up).key # NoKey =>
              /\ keys[Head(up).name] # NoKey
              /\ \/ keys[Head(up).name] = Head(up).key
                 \/ \A r \in Room : Normal[Head(up).name] = r /\ secret'[r] = Head(up).key => Doomed(r)'
<1>1. /\ Len(up) \in Nat \ {0} /\ Len(up') = Len(up) - 1
      /\ Head(up) = up[1] /\ up[1] \in Request
      /\ \A i \in 1..(Len(up) - 1) : up'[i] = up[i + 1]
  BY Shorter
<1>2. \A i \in 2..Len(up) : i - 1 \in 1..Len(up') /\ up'[i - 1] = up[i]
  BY <1>1
<1>3. Kept'
  <2> SUFFICES ASSUME NEW i \in 1..Len(up'), up'[i].type = "join", up'[i].key # NoKey
               PROVE  /\ keys[up'[i].name] # NoKey
                      /\ \/ keys[up'[i].name] = up'[i].key
                         \/ \E j \in (i + 1)..Len(up') :
                              /\ up'[j].type = "join" /\ up'[j].name = up'[i].name
                              /\ up'[j].key \notin {NoKey, up'[i].key}
    BY DEF Kept
  <2>1. i + 1 \in 1..Len(up) /\ up'[i] = up[i + 1]
    BY <1>1
  <2>2. CASE keys[up'[i].name] = up'[i].key
    BY <2>1, <2>2 DEF Kept
  <2>3. CASE keys[up'[i].name] # up'[i].key
    <3>1. PICK j \in ((i + 1) + 1)..Len(up) :
            /\ up[j].type = "join" /\ up[j].name = up[i + 1].name
            /\ up[j].key \notin {NoKey, up[i + 1].key}
      BY <2>1, <2>3 DEF Kept
    <3>2. j - 1 \in (i + 1)..Len(up') /\ up'[j - 1] = up[j]
      BY <3>1, <1>1, <1>2
    <3> QED
      BY <2>1, <3>1, <3>2 DEF Kept
  <2> QED
    BY <2>2, <2>3
<1>4. ASSUME NEW r \in Room, secret'[r] = secret[r], Doomed(r)
      PROVE  \/ Doomed(r)'
             \/ Head(up).type = "join" /\ Normal[Head(up).name] = r /\ Head(up).key # secret[r]
  <2>1. PICK i \in 1..Len(up) :
          up[i].type = "join" /\ Normal[up[i].name] = r /\ up[i].key # secret[r]
    BY <1>4 DEF Doomed
  <2>2. CASE i = 1
    BY <1>1, <2>1, <2>2
  <2>3. CASE i # 1
    <3>1. i - 1 \in 1..Len(up') /\ up'[i - 1] = up[i]
      BY <1>2, <2>3
    <3> QED
      BY <1>4, <2>1, <3>1 DEF Doomed
  <2> QED
    BY <2>2, <2>3
<1>5. ASSUME Head(up).type = "join", Head(up).key # NoKey, keys[Head(up).name] # Head(up).key,
             NEW r \in Room, Normal[Head(up).name] = r, secret'[r] = Head(up).key
      PROVE  Doomed(r)'
  <2>1. PICK j \in (1 + 1)..Len(up) :
          up[j].type = "join" /\ up[j].name = up[1].name /\ up[j].key \notin {NoKey, up[1].key}
    BY <1>1, <1>5 DEF Kept
  <2>2. j - 1 \in 1..Len(up') /\ up'[j - 1] = up[j]
    BY <1>2, <2>1
  <2> QED
    BY <1>1, <1>5, <2>1, <2>2 DEF Doomed
<1>6. Head(up).type = "join" /\ Head(up).key # NoKey => keys[Head(up).name] # NoKey
  BY <1>1 DEF Kept
<1> QED
  BY <1>3, <1>4, <1>5, <1>6

\* Messages on their way come from the room's history.
LEMMA NothingFrom ==
  ASSUME SessInv, ~upset, NEW r \in Room, secret[r] = Absent
  PROVE  /\ room # r /\ ToSet(history[r]) = {}
         /\ \A m \in ToSet(down) : m.room # r
         /\ \A p \in ToSet(incoming) : p.room # r
         /\ ToSet(shown[r]) = {}
<1>1. room # r /\ ToSet(history[r]) = {} /\ Stored(r) = {}
  <2>1. history[r] = <<>> /\ room # r
    BY DEF SessInv, Rooms
  <2> QED
    BY <2>1 DEF ToSet, Stored
<1>2. Coming(r) = {} /\ Arrived(r) = {} /\ Shown(r) = {}
  BY <1>1 DEF SessInv, Followed
<1>3. \A m \in ToSet(down) : m.room # r
  BY <1>2 DEF Coming
<1>4. \A p \in ToSet(incoming) : p.room # r
  BY <1>2 DEF Arrived
<1>5. ToSet(shown[r]) = {}
  BY <1>2 DEF Shown
<1> QED
  BY <1>1, <1>3, <1>4, <1>5

\* A passphrase typed for a private room is the room's, or dooms it.
LEMMA JoinReads ==
  ASSUME ReadInv, NEW name \in Name, NEW key \in Key \cup {NoKey},
         JoinRoom(name, key), UNCHANGED upset
  PROVE  Kept' /\ Readable'
<1> USE DEF JoinRoom, Ask, relay
<1>1. PICK q \in Request : q = [type |-> "join", name |-> name, key |-> key]
  BY DEF Request
<1>2. up' = Append(up, q) /\ q.type = "join" /\ q.name = name /\ q.key = key
  BY <1>1
<1>3. /\ Kept'
      /\ \A r \in Room : Doomed(r) => Doomed(r)'
      /\ \A r \in Room : Normal[name] = r /\ key # secret[r] => Doomed(r)'
  BY <1>2, KeptLonger DEF ReadInv, SessInv
<1>4. ASSUME ~upset, NEW r \in Room, secret[r] \in Key, OneSpelling(r)', ~Doomed(r)'
      PROVE  /\ OneSpelling(r) /\ ~Doomed(r)
             /\ keys[r] = secret[r] => keys'[r] = secret[r]
  <2>1. r \in Name /\ Normal[r] = r
    BY SessionAssumption
  <2>2. CASE key = NoKey
    BY <2>2, <1>3, <1>4 DEF OneSpelling
  <2>3. CASE key # NoKey /\ Normal[name] = r
    <3>1. keys'[name] = key /\ \A n \in Name \ {name} : keys'[n] = keys[n]
      BY <2>3 DEF ReadInv, SessInv, TypeOK
    <3>2. name = r
      BY <1>4, <2>3, <3>1 DEF OneSpelling
    <3>3. key = secret[r]
      BY <1>3, <1>4, <2>3
    <3> QED
      BY <1>3, <1>4, <2>1, <3>1, <3>2, <3>3 DEF OneSpelling
  <2>4. CASE key # NoKey /\ Normal[name] # r
    <3>1. \A n \in Name : Normal[n] = r => keys'[n] = keys[n]
      BY <2>4 DEF ReadInv, SessInv, TypeOK
    <3> QED
      BY <1>3, <1>4, <2>1, <3>1 DEF OneSpelling
  <2> QED
    BY <2>2, <2>3, <2>4
<1>5. ASSUME ~upset, NEW r \in Room PROVE Opened(r)'
  <2>1. Opened(r)
    BY <1>5 DEF ReadInv, Readable
  <2> QED
    BY <2>1, <1>4, <1>5 DEF Opened, Coming, Tells
<1>6. Readable'
  BY <1>5 DEF ReadInv, Readable
<1> QED
  BY <1>3, <1>6

\* Messages and logins bring no passphrase.
LEMMA AskReads ==
  ASSUME ReadInv, SendChat \/ Authenticate
  PROVE  Kept' /\ Readable'
<1> USE DEF SendChat, Authenticate, Ask, relay, client
<1>1. PICK q \in Request : up' = Append(up, q) /\ q.type # "join"
  <2>1. CASE SendChat
    <3>1. PICK q \in Request : q = [type |-> "chat", key |-> keys[current]]
      BY DEF Request, ReadInv, SessInv, TypeOK
    <3> QED
      BY <2>1, <3>1
  <2>2. CASE Authenticate
    <3>1. PICK q \in Request : q = [type |-> "auth"]
      BY DEF Request
    <3> QED
      BY <2>2, <3>1
  <2> QED
    BY <2>1, <2>2
<1>2. Kept' /\ \A r \in Room : Doomed(r) => Doomed(r)'
  BY <1>1, KeptLonger DEF ReadInv, SessInv
<1>3. Readable'
  <2> SUFFICES ASSUME ~upset' PROVE Readable'
    BY DEF Readable
  <2>1. ~upset
    BY DEF ReadInv, SessInv, TypeOK
  <2>2. ASSUME NEW r \in Room PROVE Opened(r)'
    <3>1. Opened(r)
      BY <2>1 DEF ReadInv, Readable
    <3> QED
      BY <3>1, <1>2 DEF Opened, Coming, OneSpelling, Tells
  <2> QED
    BY <2>1, <2>2 DEF ReadInv, Readable
<1> QED
  BY <1>2, <1>3

\* A message sealed for the room it is posted in, sent to the user who is there; no line of
\* another message is taken for its.
LEMMA PostReads ==
  ASSUME ReadInv, NEW m \in Message, secret[m.room] \in Key => m.sealed = secret[m.room],
         m.id = posts + 1, history' = [history EXCEPT ![m.room] = Append(@, m)],
         ToSet(down') = ToSet(down) \/ (room = m.room /\ ToSet(down') = ToSet(down) \cup {m}),
         \A r \in Room : Doomed(r) => Doomed(r)',
         UNCHANGED <<keys, incoming, shown, room, secret, upset>>
  PROVE  Readable'
<1> SUFFICES ASSUME ~upset PROVE Readable'
  BY DEF Readable
<1>1. ASSUME NEW x \in ToSet(down'), secret[x.room] \in Key PROVE x.sealed = secret[x.room]
  BY <1>1 DEF ReadInv, Readable
<1>2. ASSUME NEW r \in Room PROVE Opened(r)'
  <2>1. Opened(r) /\ (room = r \/ Coming(r)' = Coming(r))
    BY DEF ReadInv, Readable, Coming
  <2>2. ASSUME NEW l, l.id \in Stored(r), Tells(r, l) PROVE Tells(r, l)'
    <3>1. PICK o \in ToSet(history[r]) : o.id = l.id
      BY <2>2 DEF Stored
    <3>2. o.id \in 1..posts /\ posts \in Nat
      BY SessionAssumption DEF ReadInv, Numbered, SessInv, TypeOK
    <3>3. m.room \in Room
      BY DEF Message
    <3>4. \A y \in ToSet(history'[r]) : y \in ToSet(history[r]) \/ y = m
      BY <3>3, HistoryGrows DEF ReadInv, SessInv
    <3> QED
      BY <2>2, <3>1, <3>2, <3>4 DEF Tells
  <2>3. \A p \in ToSet(incoming) : p.room = r => p.line.id \in Stored(r)
    BY DEF ReadInv, SessInv, Followed, Arrived
  <2>4. \A l \in ToSet(shown[r]) : l.id \in Stored(r)
    BY DEF ReadInv, SessInv, Followed, Shown
  <2> QED
    BY <2>1, <2>2, <2>3, <2>4 DEF Opened, OneSpelling
<1> QED
  BY <1>1, <1>2 DEF Readable

\* joinRoomInternal lets the user in with the room's passphrase, and it is the client's
\* unless a later join has changed it.
LEMMA AdmitReads ==
  ASSUME ReadInv, up # <<>>, Head(up).type = "join",
         NEW r \in Room, r = Normal[Head(up).name], Admit(r, Head(up).key)
  PROVE  Kept' /\ Readable'
<1> USE DEF Admit, Answer, client
<1>1. Head(up).name \in Name /\ Head(up).key \in Key \cup {NoKey}
  BY HeadTailSet, RequestIs DEF ReadInv, SessInv, TypeOK
<1>2. PICK name \in Name, key \in Key \cup {NoKey} : name = Head(up).name /\ key = Head(up).key
  BY <1>1
<1>3. /\ Kept'
      /\ \A x \in Room : secret'[x] = secret[x] /\ Doomed(x) =>
           Doomed(x)' \/ (x = r /\ key # secret[x])
      /\ key # NoKey =>
           /\ keys[name] # NoKey
           /\ keys[name] = key \/ (secret'[r] = key => Doomed(r)')
  BY <1>2, KeptShorter DEF ReadInv, SessInv
<1>4. /\ secret[r] \in {Absent, NoKey, key}
      /\ secret'[r] = IF secret[r] = Absent THEN key ELSE secret[r]
      /\ \A x \in Room \ {r} : secret'[x] = secret[x]
  BY <1>2 DEF ReadInv, SessInv, TypeOK
<1>5. ToSet(down') = ToSet(down) \cup ToSet(history[r])
  BY ConcatSet DEF ReadInv, SessInv, TypeOK
<1>6. \A m \in ToSet(history[r]) : m.room = r
  BY DEF ReadInv, SessInv, Rooms
<1>7. Readable'
  <2> SUFFICES ASSUME ~upset PROVE Readable'
    BY DEF Readable
  <2>1. secret[r] = Absent =>
          /\ ToSet(history[r]) = {}
          /\ \A m \in ToSet(down) : m.room # r
          /\ \A p \in ToSet(incoming) : p.room # r
          /\ ToSet(shown[r]) = {}
    BY NothingFrom DEF ReadInv
  <2>2. ASSUME NEW m \in ToSet(down'), secret'[m.room] \in Key PROVE m.sealed = secret'[m.room]
    <3>1. \A x \in ToSet(down) : x.room \in Room
      <4>1. down \in Seq(Message)
        BY DEF ReadInv, SessInv, TypeOK
      <4>2. DOMAIN down = 1..Len(down)
        BY <4>1, LenProperties
      <4>3. \A i \in 1..Len(down) : down[i] \in Message
        BY <4>1, ElementOfSeq
      <4> QED
        BY <4>2, <4>3 DEF ToSet, Message
    <3>2. CASE m \in ToSet(down)
      BY <2>1, <2>2, <3>1, <3>2, <1>4 DEF ReadInv, Readable
    <3>3. CASE m \in ToSet(history[r])
      BY <2>1, <2>2, <3>3, <1>4, <1>6 DEF ReadInv, SessInv, SealedUnlessUpset
    <3> QED
      BY <2>2, <3>2, <3>3, <1>5
  <2>3. ASSUME NEW x \in Room, x # r PROVE Opened(x)'
    <3>1. Opened(x) /\ Coming(x)' = Coming(x) /\ secret'[x] = secret[x] /\ room' # x
      BY <2>3, <1>4, <1>5, <1>6 DEF ReadInv, Readable, Coming
    <3> QED
      BY <2>3, <3>1, <1>3 DEF Opened, OneSpelling, Tells
  <2>4. ASSUME secret'[r] \in Key, OneSpelling(r), ~Doomed(r)'
        PROVE  /\ keys[r] = secret'[r]
               /\ \A p \in ToSet(incoming) : p.room = r => Tells(r, p.line)
               /\ \A l \in ToSet(shown[r]) : Tells(r, l)
    <3>1. key # NoKey /\ secret'[r] = key
      BY <2>4, <1>4, SessionAssumption
    <3>2. keys[name] = key
      BY <2>4, <3>1, <1>3
    <3>3. name = r
      BY <2>4, <3>1, <3>2, <1>2 DEF OneSpelling
    <3>4. CASE secret[r] = Absent
      BY <2>1, <3>1, <3>2, <3>3, <3>4
    <3>5. CASE secret[r] = key
      <4>1. ~Doomed(r) /\ Opened(r) /\ secret[r] \in Key
        BY <2>4, <3>1, <3>5, <1>3 DEF ReadInv, Readable
      <4> QED
        BY <2>4, <3>1, <3>2, <3>3, <4>1 DEF Opened
    <3> QED
      BY <2>4, <3>1, <3>4, <3>5, <1>4, SessionAssumption
  <2>5. Opened(r)'
    BY <2>4 DEF Opened, OneSpelling, Tells
  <2> QED
    BY <2>2, <2>3, <2>5 DEF Readable
<1> QED
  BY <1>3, <1>7

\* The relay's answers.
LEMMA AnswerReads ==
  ASSUME ReadInv, SessInv', Refuse \/ Relay \/ HandleJoin \/ HandleAuth
  PROVE  Kept' /\ Readable'
<1>1. up # <<>> /\ up' = Tail(up) /\ UNCHANGED keys
  BY DEF Refuse, Relay, HandleJoin, HandleAuth, Admit, Deny, Answer, client
<1>2. Kept'
  BY <1>1, KeptShorter DEF ReadInv, SessInv
<1>3. CASE upset'
  BY <1>2, <1>3 DEF Readable
<1>4. CASE ~upset' /\ Relay
  <2>1. PICK m : MayRelay(m)
    BY <1>4, RelayIs
  <2>2. /\ posts < MaxPosts
        /\ history' = [history EXCEPT ![room] = Append(@, m)]
        /\ UNCHANGED <<client, shown, incoming, room, member, secret, upset>>
    BY <2>1 DEF MayRelay
  <2>3. Head(up).key \in Key \cup {NoKey} /\ (secret[room] \in Key => Head(up).key = secret[room])
    BY <1>4, <2>2, RelayKeepsGuess DEF ReadInv, SessInv
  <2>4. posts + 1 \in 1..MaxPosts
    BY <2>2, SessionAssumption DEF ReadInv, SessInv, TypeOK
  <2>5. m \in Message /\ m.room = room /\ m.sealed = Head(up).key /\ m.id = posts + 1
    BY <2>1, <2>3, <2>4 DEF ReadInv, SessInv, TypeOK, Message, MayRelay
  <2>6. ToSet(down') = ToSet(down) \/ ToSet(down') = ToSet(down) \cup {m}
    BY <2>1, <2>5, RelayAdds DEF ReadInv, SessInv
  <2>7. \A r \in Room : Doomed(r) => Doomed(r)'
    <3>1. secret' = secret /\ Head(up).type # "join"
      BY <1>4, <2>2 DEF Relay
    <3> QED
      BY <1>1, <3>1, KeptShorter DEF ReadInv, SessInv
  <2> QED
    BY <1>2, <2>2, <2>3, <2>5, <2>6, <2>7, PostReads DEF client
<1>5. CASE ~upset' /\ HandleJoin
  <2>1. PICK r \in Room : r = Normal[Head(up).name] /\ Admit(r, Head(up).key)
    <3>1. Head(up).type = "join" /\ Normal[Head(up).name] # NoRoom
      BY <1>5 DEF HandleJoin
    <3>2. Head(up).name \in Name
      BY <1>1, <3>1, HeadTailSet, RequestIs DEF ReadInv, SessInv, TypeOK
    <3>3. Normal[Head(up).name] \in Room
      BY <3>1, <3>2, SessionAssumption
    <3> QED
      BY <1>5, <3>3 DEF HandleJoin, Deny
  <2> QED
    BY <1>1, <1>5, <2>1, AdmitReads DEF HandleJoin
<1>6. CASE ~upset' /\ HandleAuth
  <2>1. ~upset /\ Head(up).type = "auth"
    BY <1>6 DEF HandleAuth, Admit
  <2>2. Head(up) = up[1] /\ 1 \in 1..Len(up)
    BY <1>1, HeadTailProperties, LenProperties, EmptySeq DEF ReadInv, SessInv, TypeOK
  <2> QED
    BY <2>1, <2>2 DEF ReadInv, SessInv, Guess
<1> QED
  BY <1>3, <1>4, <1>5, <1>6 DEF Refuse

\* A room opened by another user has no messages yet.
LEMMA CreateReads ==
  ASSUME ReadInv, NEW r \in Room, NEW key \in Key, Create(r, key)
  PROVE  Kept' /\ Readable'
<1> USE DEF Create, client
<1>1. Kept'
  BY DEF ReadInv, Kept
<1>2. /\ secret[r] = Absent /\ \A x \in Room \ {r} : secret'[x] = secret[x]
  BY DEF ReadInv, SessInv, TypeOK
<1>3. Readable'
  <2> SUFFICES ASSUME ~upset PROVE Readable'
    BY DEF Readable
  <2>1. /\ room # r /\ \A m \in ToSet(down) : m.room # r
        /\ \A p \in ToSet(incoming) : p.room # r
        /\ ToSet(shown[r]) = {}
    BY <1>2, NothingFrom DEF ReadInv
  <2>2. ASSUME NEW m \in ToSet(down), secret'[m.room] \in Key PROVE m.sealed = secret'[m.room]
    <3>1. secret'[m.room] = secret[m.room]
      BY <2>1, <2>2, <1>2 DEF ReadInv, SessInv, TypeOK
    <3> QED
      BY <2>2, <3>1 DEF ReadInv, Readable
  <2>3. Opened(r)'
    BY <2>1 DEF Opened, Coming
  <2>4. ASSUME NEW x \in Room, x # r PROVE Opened(x)'
    <3>1. Opened(x) /\ secret'[x] = secret[x]
      BY <2>4, <1>2 DEF ReadInv, Readable
    <3>2. Doomed(x)' <=> Doomed(x)
      BY <3>1 DEF Doomed
    <3> QED
      BY <3>1, <3>2 DEF Opened, Coming, OneSpelling, Tells
  <2> QED
    BY <2>2, <2>3, <2>4 DEF Readable
<1> QED
  BY <1>1, <1>3

\* Another user's message is sealed with the room's passphrase.
LEMMA OtherReads ==
  ASSUME ReadInv, NEW r \in Room, Post(r)
  PROVE  Kept' /\ Readable'
<1>1. PICK m : MayPost(r, m)
  BY PostIs
<1>2. /\ secret[r] # Absent /\ posts < MaxPosts
      /\ history' = [history EXCEPT ![r] = Append(@, m)]
      /\ down' = IF member /\ room = r THEN Append(down, m) ELSE down
      /\ UNCHANGED <<client, shown, up, incoming, room, secret, upset>>
  BY <1>1 DEF MayPost
<1>3. posts + 1 \in 1..MaxPosts
  BY <1>2, SessionAssumption DEF ReadInv, SessInv, TypeOK
<1>4. m \in Message /\ m.room = r /\ m.sealed = secret[r] /\ m.id = posts + 1
  BY <1>1, <1>2, <1>3 DEF ReadInv, SessInv, TypeOK, Message, MayPost
<1>5. ToSet(down') = ToSet(down) \/ (room = r /\ ToSet(down') = ToSet(down) \cup {m})
  <2>1. down \in Seq(Message)
    BY DEF ReadInv, SessInv, TypeOK
  <2> QED
    BY <1>2, <1>4, <2>1, AppendSet
<1>6. Kept'
  BY <1>2 DEF ReadInv, Kept, client
<1>7. \A x \in Room : Doomed(x) => Doomed(x)'
  BY <1>2 DEF Doomed
<1> QED
  BY <1>2, <1>4, <1>5, <1>6, <1>7, PostReads DEF client

\* readPump has the passphrase for what it reads.
LEMMA DecryptReads ==
  ASSUME ReadInv, ReadPump
  PROVE  Kept' /\ Readable'
<1> USE DEF ReadPump, client, relay
<1>1. Kept'
  BY DEF ReadInv, Kept
<1>2. PICK h \in Message : h = Head(down)
  BY HeadTailSet DEF ReadInv, SessInv, TypeOK
<1>3. ToSet(down) = ToSet(down') \cup {h}
  BY <1>2, HeadTailSet DEF ReadInv, SessInv, TypeOK
<1>4. PICK p : p = [room |-> h.room, line |-> [id |-> h.id, readable |-> Decrypt(h)]]
  OBVIOUS
<1>5. /\ p.room = h.room /\ p.line.id = h.id
      /\ p.line.readable <=> h.sealed = NoKey \/ (h.sealed = keys[h.room] /\ ~h.cut)
      /\ p \in [room : Room, line : Line]
  <2>1. h.room \in Room /\ h.id \in 1..MaxPosts
    BY DEF Message
  <2>2. PICK l : l = [id |-> h.id, readable |-> Decrypt(h)]
    OBVIOUS
  <2>3. Decrypt(h) \in BOOLEAN
    BY DEF Decrypt
  <2>4. l \in Line /\ l.id = h.id /\ (l.readable <=> Decrypt(h))
    BY <2>1, <2>2, <2>3 DEF Line
  <2>5. p.room = h.room /\ p.line = l /\ p \in [room : Room, line : Line]
    BY <1>4, <2>1, <2>2, <2>4
  <2> QED
    BY <2>4, <2>5 DEF Decrypt
<1>6. ToSet(incoming') = ToSet(incoming) \cup {p}
  <2>1. PICK P : P = [room : Room, line : Line]
    OBVIOUS
  <2>2. incoming \in Seq(P) /\ p \in P /\ incoming' = Append(incoming, p)
    BY <1>2, <1>4, <1>5, <2>1 DEF ReadInv, SessInv, TypeOK
  <2> HIDE <2>1
  <2> QED
    BY <2>2, AppendSet
<1>7. Readable'
  <2> SUFFICES ASSUME ~upset PROVE Readable'
    BY DEF Readable
  <2>1. ASSUME NEW r \in Room PROVE Opened(r)'
    <3>1. Opened(r) /\ (Doomed(r)' <=> Doomed(r)) /\ Coming(r)' \subseteq Coming(r)
      BY <1>3 DEF ReadInv, Readable, Doomed, Coming
    <3>2. ASSUME secret[r] \in Key, OneSpelling(r), ~Doomed(r), h.room = r PROVE Tells(r, p.line)
      <4>1. Coming(r) # {}
        BY <3>2, <1>3 DEF Coming
      <4>2. keys[r] = secret[r] /\ h.sealed = secret[r]
        BY <3>1, <3>2, <4>1, <1>3 DEF Opened, ReadInv, Readable
      <4>3. \A m \in ToSet(history[r]) : m.id = p.line.id => m = h
        BY <3>2, <1>3, <1>5 DEF ReadInv, Numbered
      <4> QED
        BY <3>2, <4>2, <4>3, <1>5, SessionAssumption DEF Tells
    <3> QED
      BY <3>1, <3>2, <1>5, <1>6 DEF Opened, OneSpelling, Tells
  <2> QED
    BY <2>1, <1>3 DEF ReadInv, Readable
<1> QED
  BY <1>1, <1>7

\* The screen takes a line as readPump left it.
LEMMA ShowReads ==
  ASSUME ReadInv, HandleChat
  PROVE  Kept' /\ Readable'
<1> USE DEF HandleChat, client, relay
<1>1. Kept'
  BY DEF ReadInv, Kept
<1>2. PICK p \in [room : Room, line : Line] : p = Head(incoming)
  BY HeadTailSet DEF ReadInv, SessInv, TypeOK
<1>3. ToSet(incoming) = ToSet(incoming') \cup {p}
  BY <1>2, HeadTailSet DEF ReadInv, SessInv, TypeOK
<1>4. ASSUME NEW r \in Room, NEW l \in ToSet(shown'[r])
      PROVE  l \in ToSet(shown[r]) \/ (p.room = r /\ l = p.line)
  <2>1. p.room \in Name /\ p.line \in Line /\ shown[p.room] \in Seq(Line) /\ r \in Name
    BY SessionAssumption DEF ReadInv, SessInv, TypeOK
  <2>2. CASE shown' = shown
    BY <1>4, <2>2
  <2>3. CASE shown' = [shown EXCEPT ![p.room] = Append(@, p.line)]
    <3>1. shown'[r] = IF r = p.room THEN Append(shown[r], p.line) ELSE shown[r]
      BY <2>1, <2>3 DEF ReadInv, SessInv, TypeOK
    <3>2. CASE r = p.room
      <4>1. ToSet(shown'[r]) = ToSet(shown[r]) \cup {p.line}
        BY <2>1, <3>1, <3>2, AppendSet
      <4> QED
        BY <1>4, <3>2, <4>1
    <3> QED
      BY <1>4, <3>1, <3>2
  <2> QED
    BY <1>2, <2>2, <2>3
<1>5. Readable'
  <2> SUFFICES ASSUME ~upset PROVE Readable'
    BY DEF Readable
  <2>1. ASSUME NEW r \in Room PROVE Opened(r)'
    <3>1. Opened(r) /\ (Doomed(r)' <=> Doomed(r)) /\ Coming(r)' = Coming(r)
      BY DEF ReadInv, Readable, Doomed, Coming
    <3>2. \A x \in ToSet(incoming') : x \in ToSet(incoming)
      BY <1>3
    <3>3. p \in ToSet(incoming)
      BY <1>3
    <3> QED
      BY <3>1, <3>2, <3>3, <1>4 DEF Opened, OneSpelling, Tells
  <2> QED
    BY <2>1 DEF ReadInv, Readable
<1> QED
  BY <1>1, <1>5

\* /clear takes lines away.
LEMMA ClearReads ==
  ASSUME ReadInv, Clear
  PROVE  Kept' /\ Readable'
<1> USE DEF Clear, client, relay
<1>1. Kept'
  BY DEF ReadInv, Kept
<1>2. ASSUME NEW r \in Room PROVE ToSet(shown'[r]) \subseteq ToSet(shown[r])
  <2>1. shown'[r] = shown[r] \/ shown'[r] = <<>>
    BY SessionAssumption DEF ReadInv, SessInv, TypeOK
  <2> QED
    BY <2>1 DEF ToSet
<1>3. ASSUME NEW r \in Room, Opened(r) PROVE Opened(r)'
  <2>1. (Doomed(r)' <=> Doomed(r)) /\ Coming(r)' = Coming(r)
    BY DEF Doomed, Coming
  <2> QED
    BY <1>2, <1>3, <2>1 DEF Opened, OneSpelling, Tells
<1> QED
  BY <1>1, <1>3 DEF ReadInv, Readable

\* On another relay no room has a passphrase yet.
LEMMA SwitchReads ==
  ASSUME ReadInv, SwitchServer
  PROVE  Kept' /\ Readable'
<1> USE SessionAssumption DEF SwitchServer, NewFeeds, NewSecrets, NewHistories
<1>1. Len(<<>>) = 0 /\ ToSet(<<>>) = {}
  BY DEF ToSet
<1>2. Kept'
  BY <1>1 DEF Kept
<1>3. \A r \in Room : secret'[r] \notin Key
  OBVIOUS
<1>4. Readable'
  BY <1>1, <1>3 DEF Readable, Opened
<1> QED
  BY <1>2, <1>4

\* Every step keeps it.
LEMMA ReadKeeps ==
  ReadInv /\ [Next]_vars => ReadInv'
<1> SUFFICES ASSUME ReadInv, [Next]_vars PROVE Kept' /\ Readable'
  BY StepKeeps, NumbersKeep DEF ReadInv
<1>1. SessInv'
  BY StepKeeps DEF ReadInv
<1>2. ASSUME NEW n \in Name, NEW k \in Key \cup {NoKey}, Join(n, k) PROVE Kept' /\ Readable'
  BY <1>2, JoinReads DEF Join
<1>3. ASSUME NEW r \in Room, SwitchRoom(r) PROVE Kept' /\ Readable'
  BY <1>3, JoinReads, SessionAssumption DEF SwitchRoom
<1>4. CASE SendChat \/ Authenticate
  BY <1>4, AskReads
<1>5. CASE Refuse \/ Relay \/ HandleJoin \/ HandleAuth
  BY <1>1, <1>5, AnswerReads
<1>6. ASSUME NEW r \in Room, NEW k \in Key, Create(r, k) PROVE Kept' /\ Readable'
  BY <1>6, CreateReads
<1>7. ASSUME NEW r \in Room, Post(r) PROVE Kept' /\ Readable'
  BY <1>7, OtherReads
<1>8. CASE ReadPump \/ HandleChat
  BY <1>8, DecryptReads, ShowReads
<1>9. CASE SwitchServer \/ Clear
  BY <1>9, SwitchReads, ClearReads
<1>10. CASE UNCHANGED vars
  <2> USE <1>10 DEF vars, client, relay
  <2>1. Kept' /\ \A r \in Room : Doomed(r)' <=> Doomed(r)
    BY DEF ReadInv, Kept, Doomed
  <2>2. \A r \in Room : Opened(r) => Opened(r)'
    BY <2>1 DEF Opened, OneSpelling, Coming, Tells
  <2> QED
    BY <2>1, <2>2 DEF ReadInv, Readable
<1> QED
  BY <1>2, <1>3, <1>4, <1>5, <1>6, <1>7, <1>8, <1>9, <1>10 DEF Next

\* In a private room joined under one spelling what cannot be read on the screen, once nothing
\* is under way, is what SanitizeText has cut: the passphrase was with readPump before the
\* first message came.
THEOREM Readability == Spec => []RoomReadable
<1>1. Init => ReadInv
  <2> SUFFICES ASSUME Init PROVE Kept /\ Numbered /\ Readable
    BY Established DEF ReadInv
  <2>1. Len(<<>>) = 0 /\ ToSet(<<>>) = {}
    BY DEF ToSet
  <2>2. \A r \in Room : secret[r] \notin Key
    BY SessionAssumption DEF Init, NewSecrets
  <2> QED
    BY <2>1, <2>2 DEF Init, Kept, Numbered, NewHistories, Readable, Opened
<1>2. ReadInv => RoomReadable
  <2> SUFFICES ASSUME ReadInv, Settled, ~upset, secret[room] \in Key, OneSpelling(room)
               PROVE  \A l \in ToSet(shown[room]) : Tells(room, l)
    BY DEF RoomReadable, OneSpelling, Tells
  <2>1. room \in Room /\ ~Doomed(room)
    BY DEF ReadInv, SessInv, TypeOK, Settled, Doomed
  <2> QED
    BY <2>1 DEF ReadInv, Readable, Opened
<1> QED
  BY <1>1, <1>2, ReadKeeps, PTL DEF Spec

=============================================================================
