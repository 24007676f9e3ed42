---------------------------- MODULE ClientConnProofs ----------------------------
(* Proofs about ClientConn, for any number of switches and packets and any channel sizes. *)
EXTENDS ClientConn, FiniteSetTheorems, FunctionTheorems, SequenceTheorems, TLAPS

Distinct(s) == \A i, j \in DOMAIN s : s[i] = s[j] => i = j

-----------------------------------------------------------------------------
(* Sequences and events. *)

\* A channel after something is sent on it,
LEMMA Sent ==
  ASSUME NEW S, NEW s \in Seq(S), NEW e \in S
  PROVE  /\ Append(s, e) \in Seq(S)
         /\ Len(s) \in Nat /\ Len(Append(s, e)) = Len(s) + 1
         /\ ToSet(Append(s, e)) = ToSet(s) \cup {e}
         /\ \A n \in DOMAIN Append(s, e) :
              (n \in DOMAIN s /\ Append(s, e)[n] = s[n]) \/ (n = Len(s) + 1 /\ Append(s, e)[n] = e)
         /\ Distinct(s) /\ e \notin ToSet(s) => Distinct(Append(s, e))
<1>1. PICK t : t = Append(s, e)
  OBVIOUS
<1>2. /\ t \in Seq(S) /\ Len(t) = Len(s) + 1 /\ Len(s) \in Nat
      /\ \A i \in 1..Len(s) : t[i] = s[i]
      /\ t[Len(s) + 1] = e
      /\ DOMAIN s = 1..Len(s) /\ DOMAIN t = 1..(Len(s) + 1)
  BY <1>1, AppendProperties, LenProperties
<1>3. \A n \in DOMAIN t : (n \in DOMAIN s /\ t[n] = s[n]) \/ (n = Len(s) + 1 /\ t[n] = e)
  BY <1>2
<1>4. \A n \in DOMAIN s : n \in DOMAIN t /\ t[n] = s[n]
  BY <1>2
<1>5. Len(s) + 1 \in DOMAIN t /\ t[Len(s) + 1] = e
  BY <1>2
<1>6. ToSet(t) = ToSet(s) \cup {e}
  BY <1>3, <1>4, <1>5 DEF ToSet
<1>7. ASSUME Distinct(s), e \notin ToSet(s) PROVE Distinct(t)
  <2>1. \A n \in DOMAIN s : s[n] # e
    BY <1>7 DEF ToSet
  <2> QED
    BY <1>3, <1>7, <2>1 DEF Distinct
<1> QED
  BY <1>1, <1>2, <1>3, <1>6, <1>7

\* and after something is received from it.
LEMMA Received ==
  ASSUME NEW S, NEW s \in Seq(S), s # <<>>
  PROVE  /\ Head(s) \in S /\ Tail(s) \in Seq(S)
         /\ Len(s) \in Nat \ {0} /\ Len(Tail(s)) = Len(s) - 1
         /\ 1 \in DOMAIN s /\ Head(s) = s[1]
         /\ \A n \in DOMAIN Tail(s) : n \in Nat /\ n + 1 \in DOMAIN s /\ Tail(s)[n] = s[n + 1]
         /\ ToSet(s) = ToSet(Tail(s)) \cup {Head(s)}
         /\ Distinct(s) => Distinct(Tail(s)) /\ Head(s) \notin ToSet(Tail(s))
<1>1. PICK t : t = Tail(s)
  OBVIOUS
<1>2. /\ Head(s) \in S /\ t \in Seq(S) /\ Len(t) = Len(s) - 1
      /\ \A i \in 1..Len(t) : t[i] = s[i + 1]
  BY <1>1, HeadTailProperties
<1>3. Len(s) \in Nat \ {0} /\ DOMAIN s = 1..Len(s) /\ DOMAIN t = 1..(Len(s) - 1) /\ Head(s) = s[1]
  BY <1>2, EmptySeq, LenProperties
<1>4. \A n \in DOMAIN t : n \in Nat \ {0} /\ n + 1 \in DOMAIN s /\ t[n] = s[n + 1]
  BY <1>2, <1>3
<1>5. \A n \in DOMAIN s : n = 1 \/ (n - 1 \in DOMAIN t /\ t[n - 1] = s[n])
  BY <1>2, <1>3
<1>6. 1 \in DOMAIN s
  BY <1>3
<1>7. ToSet(s) = ToSet(t) \cup {Head(s)}
  <2>1. ToSet(s) \subseteq ToSet(t) \cup {Head(s)}
    BY <1>3, <1>5 DEF ToSet
  <2>2. ToSet(t) \subseteq ToSet(s) /\ Head(s) \in ToSet(s)
    BY <1>3, <1>4, <1>6 DEF ToSet
  <2> QED
    BY <2>1, <2>2
<1>8. ASSUME Distinct(s) PROVE Distinct(t) /\ Head(s) \notin ToSet(t)
  <2>1. ASSUME NEW i \in DOMAIN t, NEW j \in DOMAIN t, t[i] = t[j] PROVE i = j
    <3>1. i + 1 = j + 1 /\ i \in Nat /\ j \in Nat
      BY <1>4, <1>8, <2>1 DEF Distinct
    <3> QED
      BY <3>1
  <2>2. ASSUME NEW i \in DOMAIN t, t[i] = Head(s) PROVE FALSE
    <3>1. i + 1 = 1 /\ i \in Nat \ {0}
      BY <1>3, <1>4, <1>6, <1>8, <2>2 DEF Distinct
    <3> QED
      BY <3>1
  <2> QED
    BY <2>1, <2>2 DEF Distinct, ToSet
<1> QED
  BY <1>1, <1>2, <1>3, <1>4, <1>6, <1>7, <1>8

\* What is in a sequence without repetitions is counted by its length.
LEMMA Counted ==
  ASSUME NEW S, NEW s \in Seq(S), Distinct(s)
  PROVE  IsFiniteSet(ToSet(s)) /\ Cardinality(ToSet(s)) = Len(s)
<1>1. PICK I : I = ToSet(s)
  OBVIOUS
<1>2. Len(s) \in Nat /\ DOMAIN s = 1..Len(s) /\ s \in [1..Len(s) -> S]
  BY LenProperties
<1>3. s \in Bijection(1..Len(s), I)
  <2>1. s \in [1..Len(s) -> I]
    BY <1>1, <1>2 DEF ToSet
  <2>2. \A i, j \in 1..Len(s) : s[i] = s[j] => i = j
    BY <1>2 DEF Distinct
  <2>3. \A e \in I : \E i \in 1..Len(s) : s[i] = e
    BY <1>1, <1>2 DEF ToSet
  <2> QED
    BY <2>1, <2>2, <2>3 DEF Bijection, Injection, Surjection, IsInjective
<1>4. ExistsBijection(1..Len(s), I)
  BY <1>3, Fun_ExistsBij
<1> QED
  BY <1>1, <1>2, <1>4, FS_CountingElements, FS_NatBijection

\* Sets with nothing in common are counted one by one.
LEMMA Apart ==
  ASSUME NEW S, NEW T, IsFiniteSet(S), IsFiniteSet(T), S \cap T = {}
  PROVE  IsFiniteSet(S \cup T) /\ Cardinality(S \cup T) = Cardinality(S) + Cardinality(T)
<1>1. /\ IsFiniteSet(S \cup T)
      /\ Cardinality(S \cup T) = Cardinality(S) + Cardinality(T) - Cardinality(S \cap T)
  BY FS_Union
<1>2. Cardinality(S \cap T) = 0
  BY FS_EmptySet
<1>3. Cardinality(S) \in Nat /\ Cardinality(T) \in Nat
  BY FS_CardinalityType
<1>4. PICK m \in Nat, n \in Nat : m = Cardinality(S) /\ n = Cardinality(T)
  BY <1>3
<1>5. m + n - 0 = m + n
  OBVIOUS
<1> QED
  BY <1>1, <1>2, <1>4, <1>5

\* An event is a packet of a connection, or an error.
LEMMA EventIs ==
  /\ \A e \in Event : /\ e.from \in Link /\ e.number \in Nat
                      /\ e = [from |-> e.from, number |-> e.number]
  /\ \A k \in Link : MaxPackets[k] \in Nat
  /\ \A k \in Link : \A n \in 0..MaxPackets[k] : [from |-> k, number |-> n] \in Event
  /\ Link \subseteq Nat \ {0}
<1>1. \A k \in Link : MaxPackets[k] \in Nat
  BY ConnAssumption DEF Link
<1>2. \A e \in Event : /\ e.from \in Link /\ e.number \in Nat
                      /\ e = [from |-> e.from, number |-> e.number]
  BY <1>1 DEF Event
<1>3. \A k \in Link : \A n \in 0..MaxPackets[k] : [from |-> k, number |-> n] \in Event
  BY DEF Event
<1> QED
  BY <1>1, <1>2, <1>3, ConnAssumption DEF Link

-----------------------------------------------------------------------------
(* The invariant. *)

\* The types, and that every pump belongs to a connection, an error has no packet number,
\* and a switch is begun while there is a connection left for it.
Typed ==
  /\ TypeOK
  /\ arrived \in [Link -> Nat] /\ taken \in [Link -> Nat]
  /\ reads \in [Link -> Nat] /\ holds \in [Link -> [from : Nat, number : Nat]]
  /\ incoming \in Seq(Event) /\ errors \in Seq(Event)
  /\ IsFiniteSet(hands)
  /\ \A e \in ToSet(errors) : e.number = 0
  /\ \A k \in Link : link[k] = "none" => pump[k] = "none"
  /\ caller = "renew" => channel + 1 < MaxDials

Due == {e \in Event : e.number \in 1..taken[e.from]}
Packets == {e \in hands : e.number > 0}

\* Every packet that was read is in one place on its way, and there once.
Placed ==
  /\ Due = Holding \cup ToSet(incoming) \cup Packets \cup ToSet(handled)
  /\ Holding \cap ToSet(incoming) = {} /\ Holding \cap Packets = {}
  /\ Holding \cap ToSet(handled) = {} /\ ToSet(incoming) \cap Packets = {}
  /\ ToSet(incoming) \cap ToSet(handled) = {} /\ Packets \cap ToSet(handled) = {}
  /\ \A i, j \in Link : pump[i] = "push" /\ pump[j] = "push" /\ holds[i] = holds[j] => i = j
  /\ IsFiniteSet(Holding) /\ Distinct(incoming) /\ Distinct(handled)

\* On the first DisconnectChan there is one connection, with one pump,
OneLink ==
  /\ \A k \in Link : link[k] # "none" \/ pump[k] # "none" => k = 1
  /\ conn \in {0, 1} /\ reads[1] = 1
  /\ caller = "dial" => link[1] = "none"

\* one waiter or one event on its way to Update,
OneWaiter ==
  /\ waiters \in {0, 1}
  /\ hands # {} => waiters = 0 /\ \E e \in Event : hands = {e}
  /\ caller \in {"dial", "auth"} => waiters = 0 /\ hands = {}

\* the channel is closed only by the pump's end,
ClosedOnce == ~panicked /\ (0 \in closedChans => pump[1] = "done")

Nth(n) == [from |-> 1, number |-> n]
Carried == IF Packets = {} THEN 0 ELSE 1
Pushed == IF pump[1] = "push" THEN 1 ELSE 0

\* and the packets read are lined up: the handled, the one in hand, the queue, the pump's.
InOrder ==
  /\ \A n \in DOMAIN handled : handled[n] = Nth(n)
  /\ \A e \in Packets : e = Nth(Len(handled) + 1)
  /\ \A n \in DOMAIN incoming : incoming[n] = Nth(Len(handled) + Carried + n)
  /\ pump[1] = "push" => holds[1] = Nth(taken[1])
  /\ taken[1] = Len(handled) + Carried + Len(incoming) + Pushed

First == channel = 0 => OneLink /\ OneWaiter /\ ClosedOnce /\ InOrder

ConnInv == Typed /\ Placed /\ First

-----------------------------------------------------------------------------
(* The types. *)

\* Disconnect closes a connection that is up.
LEMMA Disconnected ==
  ASSUME Typed, Disconnect
  PROVE  /\ isConnected' \in BOOLEAN /\ UNCHANGED <<closedChans, panicked>>
         /\ link' \in [Link -> {"none", "up", "closed", "lost"}]
         /\ \A k \in Link : link'[k] = "none" <=> link[k] = "none"
BY DEF Typed, TypeOK, Disconnect

\* What waits in a channel are events.
LEMMA QueuesHold ==
  ASSUME Typed
  PROVE  \A s \in {incoming, errors} : Len(s) \in Nat /\ (s # <<>> => Head(s) \in Event /\ Head(s) \in ToSet(s))
<1>1. ASSUME NEW s \in {incoming, errors} PROVE s \in Seq(Event)
  BY <1>1 DEF Typed
<1>2. ASSUME NEW s \in Seq(Event) PROVE Len(s) \in Nat /\ (s # <<>> => Head(s) \in Event /\ Head(s) \in ToSet(s))
  BY LenProperties, Received
<1> QED
  BY <1>1, <1>2

\* A step of the caller keeps the types.
LEMMA CallerTyped ==
  ASSUME Typed, Connecting \/ SwitchServer \/ Quit
  PROVE  Typed'
<1>1. CASE DialOk
  <2> USE DEF DialOk
  <2>1. PICK k \in Link : /\ link[k] = "none"
                          /\ link' = [link EXCEPT ![k] = "up"]
                          /\ conn' = k
                          /\ pump' = [pump EXCEPT ![k] = "load"]
    BY <1>1
  <2>2. k \in 0..MaxDials
    BY EventIs DEF Link
  <2>3. /\ link' \in [Link -> {"none", "up", "closed", "lost"}]
        /\ pump' \in [Link -> {"none", "load", "read", "push", "fail", "unset", "close", "done"}]
        /\ \A i \in Link : pump'[i] = "push" => pump[i] = "push"
        /\ \A j \in Link : link'[j] = "none" => pump'[j] = "none"
    BY <2>1 DEF Typed, TypeOK
  <2>4. TypeOK'
    BY <1>1, <2>1, <2>2, <2>3 DEF Typed, TypeOK, fields, queues
  <2> QED
    BY <1>1, <2>1, <2>3, <2>4 DEF Typed, queues
<1>2. CASE DialFails \/ Authenticated
  <2>1. /\ UNCHANGED <<fields, network, pumps, incoming, errors, hands, handled>>
        /\ caller' \in {"idle", "quit"} /\ waiters' \in Nat
    BY <1>2 DEF DialFails, Authenticated, Typed, TypeOK
  <2> QED
    BY <2>1 DEF Typed, TypeOK, fields, network, pumps
<1>3. CASE SwitchServer \/ Quit
  <2>1. Disconnect /\ caller' \in {"renew", "quit"} /\ (caller' = "renew" => channel + 1 < MaxDials)
        /\ UNCHANGED <<conn, channel, arrived, pumps, queues>>
    BY <1>3 DEF SwitchServer, Quit
  <2>2. /\ isConnected' \in BOOLEAN /\ UNCHANGED <<closedChans, panicked>>
        /\ link' \in [Link -> {"none", "up", "closed", "lost"}]
        /\ \A k \in Link : link'[k] = "none" <=> link[k] = "none"
    BY <2>1, Disconnected
  <2>3. TypeOK'
    BY <2>1, <2>2 DEF Typed, TypeOK, pumps, queues
  <2> QED
    BY <2>1, <2>2, <2>3 DEF Typed, pumps, queues
<1>4. CASE RenewChan
  BY <1>4, ConnAssumption DEF Typed, TypeOK, RenewChan, network, pumps, queues
<1> QED
  BY <1>1, <1>2, <1>3, <1>4 DEF Connecting


\* A step of a pump keeps the types.
LEMMA PumpTyped ==
  ASSUME Typed, NEW i \in Link, PumpStep(i)
  PROVE  Typed'
<1>0. /\ \A j \in Link \ {i} : pump'[j] = pump[j]
      /\ pump' \in [Link -> {"none", "load", "read", "push", "fail", "unset", "close", "done"}]
      /\ pump[i] # "none" /\ link' = link
  BY DEF Typed, TypeOK, PumpStep, Load, ReadPacket, ReadFails, Push, PushError, Unset, CloseChan,
         network
<1>1. CASE Load(i)
  <2>1. PICK k \in reads[i]..conn : reads' = [reads EXCEPT ![i] = k]
    BY <1>1 DEF Load
  <2>2. k \in i..MaxDials
    BY <2>1, EventIs, ConnAssumption DEF Typed, TypeOK, Link
  <2>3. \A j \in Link : reads'[j] \in j..MaxDials
    BY <2>1, <2>2 DEF Typed, TypeOK
  <2>4. TypeOK'
    BY <1>0, <1>1, <2>3 DEF Typed, TypeOK, Load, fields, network, queues
  <2> QED
    BY <1>0, <1>1, <2>1, <2>4 DEF Typed, Load, fields, network, queues
<1>2. CASE ReadPacket(i)
  <2>1. reads[i] \in Link
    BY EventIs DEF Typed, TypeOK, Link
  <2>2. /\ taken' = [taken EXCEPT ![reads[i]] = @ + 1]
        /\ holds' = [holds EXCEPT ![i] = [from |-> reads[i], number |-> taken[reads[i]] + 1]]
        /\ taken[reads[i]] < arrived[reads[i]] /\ pump[i] = "read"
    BY <1>2 DEF ReadPacket
  <2>3. taken[reads[i]] + 1 \in 0..MaxPackets[reads[i]]
    BY <2>1, <2>2, EventIs DEF Typed, TypeOK
  <2>4. [from |-> reads[i], number |-> taken[reads[i]] + 1] \in Event
    BY <2>1, <2>3, EventIs
  <2>5. \A j \in Link : pump'[j] = "push" => holds'[j] \in Event
    BY <1>0, <2>2, <2>4 DEF Typed, TypeOK
  <2>6. \A k \in Link : taken'[k] \in 0..arrived[k]
    BY <2>1, <2>2, EventIs DEF Typed, TypeOK
  <2>7. TypeOK'
    BY <1>0, <1>2, <2>5, <2>6 DEF Typed, TypeOK, ReadPacket, fields, network, queues
  <2>8. taken' \in [Link -> Nat] /\ holds' \in [Link -> [from : Nat, number : Nat]]
    BY <2>1, <2>2, EventIs DEF Typed
  <2> QED
    BY <1>0, <1>2, <2>7, <2>8 DEF Typed, ReadPacket, fields, network, queues
<1>3. CASE Push(i)
  <2>1. holds[i] \in Event /\ incoming \in Seq(Event)
    BY <1>3 DEF Push, Typed, TypeOK
  <2>2. /\ incoming' \in Seq(Event) /\ Len(incoming') = Len(incoming) + 1 /\ Len(incoming) \in Nat
        /\ ToSet(incoming') \subseteq Event
    BY <1>3, <2>1, Sent DEF Push, Typed, TypeOK
  <2>3. Len(incoming') <= PacketQueue
    BY <1>3, <2>2, ConnAssumption DEF Push
  <2>4. \A j \in Link : pump'[j] = "push" => holds'[j] \in Event
    BY <1>0, <1>3 DEF Push, Typed, TypeOK
  <2>5. TypeOK'
    BY <1>0, <1>3, <2>2, <2>3, <2>4 DEF Typed, TypeOK, Push, fields, network
  <2> QED
    BY <1>0, <1>3, <2>2, <2>5 DEF Typed, Push, fields, network
<1>4. CASE PushError(i)
  <2>1. PICK e \in Event : e = [from |-> i, number |-> 0]
    <3>1. 0 \in 0..MaxPackets[i]
      BY EventIs
    <3> QED
      BY <3>1, EventIs
  <2>2. /\ errors' \in Seq(Event) /\ Len(errors') = Len(errors) + 1 /\ Len(errors) \in Nat
        /\ ToSet(errors') = ToSet(errors) \cup {e}
    BY <1>4, <2>1, Sent DEF PushError, Typed
  <2>3. Len(errors') <= ErrorQueue
    BY <1>4, <2>2, ConnAssumption DEF PushError
  <2>4. \A j \in Link : pump'[j] = "push" => holds'[j] \in Event
    BY <1>0, <1>4 DEF PushError, Typed, TypeOK
  <2>5. TypeOK'
    BY <1>0, <1>4, <2>2, <2>3, <2>4 DEF Typed, TypeOK, PushError, fields, network
  <2> QED
    BY <1>0, <1>4, <2>1, <2>2, <2>5 DEF Typed, PushError, fields, network
<1>5. CASE ReadFails(i) \/ Unset(i) \/ CloseChan(i)
  <2>1. \A j \in Link : pump'[j] = "push" => holds'[j] \in Event
    BY <1>0, <1>5 DEF ReadFails, Unset, CloseChan, Typed, TypeOK
  <2>2. /\ isConnected' \in BOOLEAN /\ panicked' \in BOOLEAN
        /\ closedChans' \subseteq 0..channel
    <3>1. channel \in 0..channel
      BY ConnAssumption DEF Typed, TypeOK
    <3>2. /\ isConnected' = isConnected \/ isConnected' = FALSE
          /\ panicked' = panicked \/ panicked' = (channel \in closedChans)
          /\ closedChans' = closedChans \/ closedChans' = closedChans \cup {channel}
      BY <1>5 DEF ReadFails, Unset, CloseChan, fields
    <3>3. isConnected' \in BOOLEAN
      BY <3>2 DEF Typed, TypeOK
    <3>4. panicked' \in BOOLEAN
      <4>1. panicked \in BOOLEAN /\ (channel \in closedChans) \in BOOLEAN
        BY DEF Typed, TypeOK
      <4> QED
        BY <3>2, <4>1
    <3> QED
      BY <3>1, <3>2, <3>3, <3>4 DEF Typed, TypeOK
  <2>3. UNCHANGED <<caller, conn, channel, network, taken, reads, holds, queues>>
    BY <1>5 DEF ReadFails, Unset, CloseChan, fields
  <2>4. TypeOK'
    BY <1>0, <2>1, <2>2, <2>3 DEF Typed, TypeOK, network, queues
  <2> QED
    BY <1>0, <2>3, <2>4 DEF Typed, network, queues
<1> QED
  BY <1>1, <1>2, <1>3, <1>4, <1>5 DEF PumpStep

\* A step of a waiter, of Update or of the network keeps the types.
LEMMA OtherTyped ==
  ASSUME Typed,
         TakePacket \/ TakeError \/ Update \/ \E i \in Link : RelaySends(i) \/ Lost(i)
  PROVE  Typed'
<1>1. CASE TakePacket
  <2>1. /\ Head(incoming) \in Event /\ incoming' \in Seq(Event) /\ ToSet(incoming') \subseteq Event
        /\ Len(incoming') <= PacketQueue
    BY <1>1, Received, ConnAssumption DEF TakePacket, Typed, TypeOK
  <2>2. IsFiniteSet(hands')
    BY <1>1, FS_AddElement DEF TakePacket, Typed
  <2>3. TypeOK'
    BY <1>1, <2>1 DEF TakePacket, Typed, TypeOK, fields, network, pumps
  <2> QED
    BY <1>1, <2>1, <2>2, <2>3 DEF TakePacket, Typed, fields, network, pumps
<1>2. CASE TakeError
  <2>1. /\ Head(errors) \in Event /\ errors' \in Seq(Event) /\ ToSet(errors') \subseteq ToSet(errors)
        /\ Len(errors') <= ErrorQueue
    BY <1>2, Received, ConnAssumption DEF TakeError, Typed, TypeOK
  <2>2. IsFiniteSet(hands')
    BY <1>2, FS_AddElement DEF TakeError, Typed
  <2>3. TypeOK'
    BY <1>2, <2>1 DEF TakeError, Typed, TypeOK, fields, network, pumps
  <2> QED
    BY <1>2, <2>1, <2>2, <2>3 DEF TakeError, Typed, fields, network, pumps
<1>3. CASE Update
  <2>1. PICK e \in hands : /\ hands' = hands \ {e}
                           /\ handled' = IF e.number > 0 THEN Append(handled, e) ELSE handled
    BY <1>3 DEF Update
  <2>2. IsFiniteSet(hands')
    BY <2>1, FS_RemoveElement DEF Typed
  <2>3. e \in Event /\ handled \in Seq(Event)
    BY <2>1 DEF Typed, TypeOK
  <2>4. handled' \in Seq(Event)
    BY <2>1, <2>3, Sent
  <2>5. TypeOK'
    BY <1>3, <2>1, <2>4 DEF Update, Typed, TypeOK, fields, network, pumps
  <2> QED
    BY <1>3, <2>2, <2>5 DEF Update, Typed, fields, network, pumps
<1>4. ASSUME NEW i \in Link, RelaySends(i) PROVE Typed'
  <2>1. \A k \in Link : arrived'[k] \in 0..MaxPackets[k] /\ taken[k] \in 0..arrived'[k]
    <3>1. /\ arrived' = [arrived EXCEPT ![i] = @ + 1] /\ arrived[i] < MaxPackets[i]
          /\ arrived \in [Link -> Nat] /\ taken \in [Link -> Nat]
          /\ \A k \in Link : arrived[k] <= MaxPackets[k] /\ taken[k] <= arrived[k]
      BY <1>4, EventIs DEF RelaySends, Typed, TypeOK
    <3>2. \A k \in Link : arrived'[k] = IF k = i THEN arrived[k] + 1 ELSE arrived[k]
      BY <3>1
    <3> QED
      BY <3>1, <3>2, EventIs
  <2>2. TypeOK'
    BY <1>4, <2>1 DEF RelaySends, Typed, TypeOK, fields, pumps, queues
  <2> QED
    BY <1>4, <2>2 DEF RelaySends, Typed, fields, pumps, queues
<1>5. ASSUME NEW i \in Link, Lost(i) PROVE Typed'
  <2>1. TypeOK'
    BY <1>5 DEF Lost, Typed, TypeOK, fields, pumps, queues
  <2> QED
    BY <1>5, <2>1 DEF Lost, Typed, TypeOK, fields, pumps, queues
<1> QED
  BY <1>1, <1>2, <1>3, <1>4, <1>5


-----------------------------------------------------------------------------
(* The places. *)

\* Nothing moves.
LEMMA NothingMoves ==
  ASSUME Placed, UNCHANGED <<taken, holds, incoming, hands, handled>>,
         \A i \in Link : pump'[i] = "push" <=> pump[i] = "push"
  PROVE  Placed'
<1>1. Due' = Due /\ Holding' = Holding /\ Packets' = Packets
  BY DEF Due, Holding, Packets
<1> QED
  BY <1>1 DEF Placed

\* A packet is read: it was nowhere and is the pump's.
LEMMA ReadMoves ==
  ASSUME Typed, Placed, NEW i \in Link, ReadPacket(i)
  PROVE  Placed'
<1>1. PICK k \in Link : k = reads[i]
  BY EventIs DEF Typed, TypeOK, Link
<1>2. PICK e \in Event : e = [from |-> k, number |-> taken[k] + 1]
  <2>1. taken[k] + 1 \in 0..MaxPackets[k]
    BY <1>1, EventIs DEF Typed, TypeOK, ReadPacket
  <2> QED
    BY <2>1, EventIs
<1>3. /\ taken' = [taken EXCEPT ![k] = @ + 1] /\ holds' = [holds EXCEPT ![i] = e]
      /\ pump[i] = "read" /\ pump' = [pump EXCEPT ![i] = "push"]
      /\ UNCHANGED <<incoming, hands, handled>>
  BY <1>1, <1>2 DEF ReadPacket, queues
<1>4. /\ \A j \in Link : taken[j] \in Nat /\ taken'[j] = IF j = k THEN taken[k] + 1 ELSE taken[j]
      /\ holds'[i] = e /\ pump'[i] = "push"
      /\ \A j \in Link \ {i} : holds'[j] = holds[j] /\ pump'[j] = pump[j]
  BY <1>3 DEF Typed, TypeOK
<1>5. e \notin Due /\ Due' = Due \cup {e}
  <2>1. e.from = k /\ e.number = taken[k] + 1
    BY <1>2
  <2>2. ASSUME NEW x \in Event
        PROVE  x.number \in 1..taken'[x.from] <=> x.number \in 1..taken[x.from] \/ x = e
    <3>1. x.from \in Link /\ x.number \in Nat /\ x = [from |-> x.from, number |-> x.number]
      BY EventIs
    <3>2. x = e <=> x.from = k /\ x.number = taken[k] + 1
      BY <1>2, <2>1, <3>1
    <3> QED
      BY <1>4, <3>1, <3>2
  <2>3. ~(e.number \in 1..taken[e.from])
    BY <1>4, <2>1
  <2> QED
    BY <2>2, <2>3 DEF Due
<1>6. Holding' = Holding \cup {e}
  BY <1>3, <1>4 DEF Holding
<1>7. Packets' = Packets
  BY <1>3 DEF Packets
<1>8. \A j, l \in Link : pump'[j] = "push" /\ pump'[l] = "push" /\ holds'[j] = holds'[l] => j = l
  <2>1. \A j \in Link \ {i} : pump'[j] = "push" => holds'[j] \in Due /\ holds'[j] = holds[j] /\ pump[j] = "push"
    BY <1>4 DEF Placed, Holding
  <2> QED
    BY <1>4, <1>5, <2>1 DEF Placed
<1>9. IsFiniteSet(Holding')
  BY <1>6, FS_AddElement DEF Placed
<1> QED
  BY <1>3, <1>5, <1>6, <1>7, <1>8, <1>9 DEF Placed

\* The pump's packet goes to the queue.
LEMMA PushMoves ==
  ASSUME Typed, Placed, NEW i \in Link, Push(i)
  PROVE  Placed'
<1>1. PICK e \in Event : e = holds[i]
  BY DEF Typed, TypeOK, Push
<1>2. /\ pump[i] = "push" /\ pump' = [pump EXCEPT ![i] = "load"]
      /\ incoming' = Append(incoming, e) /\ incoming \in Seq(Event)
      /\ UNCHANGED <<taken, holds, hands, handled>>
  BY <1>1 DEF Push, Typed
<1>3. e \in Holding
  BY <1>1, <1>2 DEF Holding
<1>4. pump'[i] # "push" /\ \A j \in Link \ {i} : pump'[j] = pump[j]
  BY <1>2 DEF Typed, TypeOK
<1>5. Holding' = Holding \ {e}
  BY <1>1, <1>2, <1>4 DEF Holding, Placed
<1>6. e \notin ToSet(incoming)
  BY <1>3 DEF Placed
<1>7. ToSet(incoming') = ToSet(incoming) \cup {e} /\ Distinct(incoming')
  BY <1>2, <1>6, Sent DEF Placed
<1>8. Packets' = Packets /\ Due' = Due
  BY <1>2 DEF Packets, Due
<1>9. IsFiniteSet(Holding')
  BY <1>5, FS_RemoveElement DEF Placed
<1>10. \A j, l \in Link : pump'[j] = "push" /\ pump'[l] = "push" /\ holds'[j] = holds'[l] => j = l
  BY <1>2, <1>4 DEF Placed
<1> QED
  BY <1>2, <1>3, <1>5, <1>7, <1>8, <1>9, <1>10 DEF Placed

\* A waiter takes the first packet of the queue.
LEMMA TakeMoves ==
  ASSUME Typed, Placed, TakePacket
  PROVE  Placed'
<1>1. /\ incoming \in Seq(Event) /\ incoming # <<>> /\ incoming' = Tail(incoming)
      /\ hands' = hands \cup {Head(incoming)}
      /\ UNCHANGED <<taken, pump, holds, handled>>
  BY DEF Typed, TakePacket, pumps
<1>2. PICK e \in Event : e = Head(incoming)
  BY <1>1, Received
<1>3. /\ ToSet(incoming) = ToSet(incoming') \cup {e}
      /\ Distinct(incoming') /\ e \notin ToSet(incoming')
  BY <1>1, <1>2, Received DEF Placed
<1>4. e.number > 0
  <2>1. e \in Due
    BY <1>3 DEF Placed
  <2>2. e.number \in 1..taken[e.from] /\ e.number \in Nat /\ taken[e.from] \in Nat
    BY <2>1, EventIs DEF Due, Typed
  <2> QED
    BY <2>2
<1>5. Packets' = Packets \cup {e}
  BY <1>1, <1>2, <1>4 DEF Packets
<1>6. Holding' = Holding /\ Due' = Due
  BY <1>1 DEF Holding, Due
<1> QED
  BY <1>1, <1>3, <1>5, <1>6 DEF Placed

\* Update handles a packet, or an error.
LEMMA UpdateMoves ==
  ASSUME Typed, Placed, Update
  PROVE  Placed'
<1>1. PICK e \in hands : /\ hands' = hands \ {e}
                         /\ handled' = IF e.number > 0 THEN Append(handled, e) ELSE handled
  BY DEF Update
<1>2. e \in Event /\ handled \in Seq(Event) /\ UNCHANGED <<taken, pump, holds, incoming>>
  BY <1>1 DEF Update, Typed, TypeOK, pumps
<1>3. Holding' = Holding /\ Due' = Due
  BY <1>2 DEF Holding, Due
<1>4. CASE e.number > 0
  <2>1. e \in Packets /\ Packets' = Packets \ {e}
    BY <1>1, <1>4 DEF Packets
  <2>2. e \notin ToSet(handled)
    BY <2>1 DEF Placed
  <2>3. ToSet(handled') = ToSet(handled) \cup {e} /\ Distinct(handled')
    BY <1>1, <1>2, <1>4, <2>2, Sent DEF Placed
  <2> QED
    BY <1>2, <1>3, <2>1, <2>3 DEF Placed
<1>5. CASE ~(e.number > 0)
  <2>1. handled' = handled /\ Packets' = Packets
    BY <1>1, <1>5 DEF Packets
  <2> QED
    BY <1>2, <1>3, <2>1 DEF Placed
<1> QED
  BY <1>4, <1>5

\* No step loses or repeats a packet.
LEMMA PlacedKeeps ==
  ASSUME Typed, Placed, Next
  PROVE  Placed'
<1> USE DEF Next
<1>1. CASE DialOk
  <2>1. PICK k \in Link : link[k] = "none" /\ pump' = [pump EXCEPT ![k] = "load"]
    BY <1>1 DEF DialOk
  <2>2. pump[k] = "none"
    BY <2>1 DEF Typed
  <2>3. \A i \in Link : pump'[i] = "push" <=> pump[i] = "push"
    BY <2>1, <2>2 DEF Typed, TypeOK
  <2>4. UNCHANGED <<taken, holds, incoming, hands, handled>>
    BY <1>1 DEF DialOk, queues
  <2> QED
    BY <2>3, <2>4, NothingMoves
<1>2. CASE DialFails \/ Authenticated \/ SwitchServer \/ RenewChan \/ Quit
  <2>1. UNCHANGED <<pump, taken, holds, incoming, hands, handled>>
    BY <1>2 DEF DialFails, Authenticated, SwitchServer, RenewChan, Quit, pumps, queues
  <2> QED
    BY <2>1, NothingMoves
<1>3. CASE TakeError
  <2>1. PICK e \in Event : e = Head(errors) /\ e.number = 0
    <3>1. errors \in Seq(Event) /\ errors # <<>>
      BY <1>3 DEF TakeError, Typed
    <3>2. Head(errors) \in Event /\ Head(errors) \in ToSet(errors)
      BY <3>1, Received
    <3> QED
      BY <3>2 DEF Typed
  <2>2. Packets' = Packets /\ UNCHANGED <<pump, taken, holds, incoming, handled>>
    BY <1>3, <2>1 DEF Packets, TakeError, pumps
  <2>3. Holding' = Holding /\ Due' = Due
    BY <2>2 DEF Holding, Due
  <2> QED
    BY <2>2, <2>3 DEF Placed
<1>4. ASSUME NEW i \in Link,
             \/ Load(i) \/ ReadFails(i) \/ PushError(i) \/ Unset(i) \/ CloseChan(i)
      PROVE  Placed'
  <2>1. /\ \A j \in Link : pump'[j] = "push" <=> pump[j] = "push"
        /\ UNCHANGED <<taken, holds, incoming, hands, handled>>
    BY <1>4 DEF Typed, TypeOK, Load, ReadFails, PushError, Unset, CloseChan, queues
  <2> QED
    BY <2>1, NothingMoves
<1>5. ASSUME NEW i \in Link, RelaySends(i) \/ Lost(i) PROVE Placed'
  <2>1. UNCHANGED <<pump, taken, holds, incoming, hands, handled>>
    BY <1>5 DEF RelaySends, Lost, pumps, queues
  <2> QED
    BY <2>1, NothingMoves
<1> QED
  BY <1>1, <1>2, <1>3, <1>4, <1>5, ReadMoves, PushMoves, TakeMoves, UpdateMoves DEF Connecting, PumpStep


-----------------------------------------------------------------------------
(* The first DisconnectChan. *)

\* Only a switch makes another channel.
LEMMA StillFirst == ASSUME Typed, Next, channel' = 0 PROVE channel = 0 /\ ~RenewChan
<1>1. channel \in Nat
  BY DEF Typed, TypeOK
<1>2. ASSUME RenewChan PROVE FALSE
  BY <1>1, <1>2 DEF RenewChan
<1>3. ASSUME DialOk PROVE channel = 0
  BY <1>3 DEF DialOk
<1>4. ASSUME DialFails \/ Authenticated PROVE channel = 0
  BY <1>4 DEF DialFails, Authenticated, fields
<1>5. ASSUME SwitchServer \/ Quit \/ TakePacket \/ TakeError \/ Update PROVE channel = 0
  BY <1>5 DEF SwitchServer, Quit, TakePacket, TakeError, Update, fields
<1>6. ASSUME NEW i \in Link, PumpStep(i) \/ RelaySends(i) \/ Lost(i) PROVE channel = 0
  BY <1>6 DEF PumpStep, Load, ReadPacket, ReadFails, Push, PushError, Unset, CloseChan, RelaySends,
              Lost, fields
<1> QED
  BY <1>2, <1>3, <1>4, <1>5, <1>6 DEF Next, Connecting

\* The first dial takes connection 1.
LEMMA DialsFirst ==
  ASSUME Typed, OneLink, DialOk
  PROVE  /\ link' = [link EXCEPT ![1] = "up"] /\ pump' = [pump EXCEPT ![1] = "load"]
         /\ conn' = 1 /\ pump[1] = "none" /\ 1 \in Link
<1>1. PICK k \in Link : /\ link[k] = "none"
                        /\ \A j \in 1..(k - 1) : link[j] # "none"
                        /\ link' = [link EXCEPT ![k] = "up"]
                        /\ conn' = k
                        /\ pump' = [pump EXCEPT ![k] = "load"]
  BY DEF DialOk
<1>2. 1 \in Link /\ link[1] = "none"
  BY ConnAssumption DEF Link, OneLink, DialOk
<1>3. k = 1
  <2>1. k \in Nat \ {0}
    BY EventIs
  <2> QED
    BY <1>1, <1>2, <2>1
<1> QED
  BY <1>1, <1>2, <1>3 DEF Typed

\* There is one connection with one pump.
LEMMA OneLinkKeeps == ASSUME Typed, OneLink, Next, ~RenewChan PROVE OneLink'
<1>0. 1 \in Link
  BY ConnAssumption DEF Link
<1>1. CASE DialOk
  <2>1. /\ link' = [link EXCEPT ![1] = "up"] /\ pump' = [pump EXCEPT ![1] = "load"]
        /\ conn' = 1 /\ caller' = "auth" /\ reads' = reads
    BY <1>1, DialsFirst DEF DialOk
  <2> QED
    BY <1>0, <2>1 DEF OneLink, Typed, TypeOK
<1>2. CASE DialFails \/ Authenticated
  BY <1>2 DEF OneLink, DialFails, Authenticated, fields, network, pumps
<1>3. CASE SwitchServer \/ Quit
  <2>1. Disconnect /\ caller' \in {"renew", "quit"} /\ UNCHANGED <<conn, pump, reads>>
    BY <1>3 DEF SwitchServer, Quit, pumps
  <2>2. \A k \in Link : link'[k] = "none" <=> link[k] = "none"
    BY <2>1, Disconnected
  <2> QED
    BY <2>1, <2>2 DEF OneLink
<1>4. CASE TakePacket \/ TakeError \/ Update
  BY <1>4 DEF OneLink, TakePacket, TakeError, Update, fields, network, pumps
<1>5. ASSUME NEW i \in Link, PumpStep(i) PROVE OneLink'
  <2>1. /\ UNCHANGED <<link, conn, caller>>
        /\ \A j \in Link \ {i} : pump'[j] = pump[j]
        /\ pump[i] # "none"
    BY <1>5 DEF Typed, TypeOK, PumpStep, Load, ReadPacket, ReadFails, Push, PushError, Unset,
                CloseChan, fields, network
  <2>2. i = 1
    BY <2>1 DEF OneLink
  <2>3. reads'[1] = 1
    <3>1. CASE Load(1)
      <4>1. PICK k \in reads[1]..conn : reads' = [reads EXCEPT ![1] = k]
        BY <3>1 DEF Load
      <4>2. k = 1 /\ reads'[1] = k
        BY <1>0, <4>1 DEF OneLink, Typed
      <4> QED
        BY <4>2
    <3>2. CASE ~Load(1)
      BY <1>5, <2>2, <3>2 DEF OneLink, PumpStep, ReadPacket, ReadFails, Push, PushError, Unset, CloseChan
    <3> QED
      BY <3>1, <3>2
  <2> QED
    BY <2>1, <2>2, <2>3 DEF OneLink
<1>6. ASSUME NEW i \in Link, RelaySends(i) \/ Lost(i) PROVE OneLink'
  <2>1. /\ UNCHANGED <<pump, conn, caller, reads>>
        /\ \A j \in Link : link'[j] = "none" <=> link[j] = "none"
    BY <1>6 DEF Typed, TypeOK, RelaySends, Lost, fields, pumps
  <2> QED
    BY <1>0, <2>1 DEF OneLink
<1> QED
  BY <1>1, <1>2, <1>3, <1>4, <1>5, <1>6 DEF Next, Connecting

\* There is one waiter, or one event in hand.
LEMMA OneWaiterKeeps == ASSUME Typed, OneWaiter, Next, ~RenewChan, channel = 0 PROVE OneWaiter'
<1>1. CASE DialOk
  BY <1>1 DEF OneWaiter, DialOk, queues
<1>2. CASE DialFails \/ Authenticated
  BY <1>2 DEF OneWaiter, DialFails, Authenticated
<1>3. CASE SwitchServer \/ Quit
  BY <1>3 DEF OneWaiter, SwitchServer, Quit, queues
<1>4. CASE TakePacket \/ TakeError
  <2>1. PICK s \in {incoming, errors} : s # <<>> /\ hands' = hands \cup {Head(s)}
    BY <1>4 DEF TakePacket, TakeError
  <2>2. Head(s) \in Event /\ hands = {} /\ waiters = 1
    BY <1>4, <2>1, QueuesHold DEF OneWaiter, TakePacket, TakeError
  <2>3. hands' = {Head(s)} /\ waiters' = 0 /\ caller' = caller /\ caller \notin {"dial", "auth"}
    BY <1>4, <2>1, <2>2 DEF OneWaiter, TakePacket, TakeError
  <2> QED
    BY <2>2, <2>3 DEF OneWaiter
<1>5. CASE Update
  BY <1>5 DEF OneWaiter, Update
<1>6. ASSUME NEW i \in Link, PumpStep(i) \/ RelaySends(i) \/ Lost(i) PROVE OneWaiter'
  BY <1>6 DEF OneWaiter, PumpStep, Load, ReadPacket, ReadFails, Push, PushError, Unset, CloseChan,
              RelaySends, Lost, fields, queues
<1> QED
  BY <1>1, <1>2, <1>3, <1>4, <1>5, <1>6 DEF Next, Connecting

\* The channel is closed once.
LEMMA ClosedOnceKeeps ==
  ASSUME Typed, OneLink, ClosedOnce, Next, ~RenewChan, channel = 0
  PROVE  ClosedOnce'
<1>1. CASE DialOk
  <2>1. pump[1] = "none" /\ UNCHANGED <<closedChans, panicked>>
    BY <1>1, DialsFirst DEF DialOk
  <2> QED
    BY <2>1 DEF ClosedOnce
<1>2. CASE DialFails \/ Authenticated \/ SwitchServer \/ Quit \/ TakePacket \/ TakeError \/ Update
  BY <1>2 DEF ClosedOnce, DialFails, Authenticated, SwitchServer, Quit, Disconnect, TakePacket,
              TakeError, Update, fields, pumps
<1>3. ASSUME NEW i \in Link, PumpStep(i) PROVE ClosedOnce'
  <2>1. i = 1 /\ pump[1] \notin {"none", "done"}
    BY <1>3 DEF OneLink, PumpStep, Load, ReadPacket, ReadFails, Push, PushError, Unset, CloseChan
  <2>2. CASE CloseChan(1)
    BY <2>1, <2>2 DEF ClosedOnce, CloseChan, Typed, TypeOK
  <2>3. CASE ~CloseChan(1)
    BY <1>3, <2>1, <2>3 DEF ClosedOnce, PumpStep, Load, ReadPacket, ReadFails, Push, PushError,
                            Unset, fields
  <2> QED
    BY <2>2, <2>3
<1>4. ASSUME NEW i \in Link, RelaySends(i) \/ Lost(i) PROVE ClosedOnce'
  BY <1>4 DEF ClosedOnce, RelaySends, Lost, fields, pumps
<1> QED
  BY <1>1, <1>2, <1>3, <1>4 DEF Next, Connecting


\* Nothing is moved: the line stands.
LEMMA LineStands ==
  ASSUME InOrder, UNCHANGED <<taken, holds, incoming, hands, handled>>,
         pump'[1] = "push" <=> pump[1] = "push"
  PROVE  InOrder'
<1>1. Packets' = Packets /\ Carried' = Carried /\ Pushed' = Pushed
  BY DEF Packets, Carried, Pushed
<1> QED
  BY <1>1 DEF InOrder

\* The pump reads the next packet and puts it at the end of the queue.
LEMMA PumpInOrder ==
  ASSUME Typed, OneLink, InOrder, ReadPacket(1) \/ Push(1), 1 \in Link
  PROVE  InOrder'
<1>1. /\ Packets' = Packets /\ Carried' = Carried /\ UNCHANGED <<hands, handled>>
  BY DEF ReadPacket, Push, queues, Packets, Carried
<1>2. /\ Len(handled) \in Nat /\ Len(incoming) \in Nat /\ Carried \in {0, 1} /\ taken[1] \in Nat
      /\ incoming \in Seq(Event)
  BY LenProperties DEF Typed, TypeOK, Carried
<1>3. CASE ReadPacket(1)
  <2>1. /\ taken'[1] = taken[1] + 1 /\ holds'[1] = Nth(taken[1] + 1)
        /\ pump[1] = "read" /\ pump'[1] = "push" /\ incoming' = incoming
    BY <1>3 DEF ReadPacket, OneLink, Typed, TypeOK, Nth, queues
  <2>2. Pushed = 0 /\ Pushed' = 1
    BY <2>1 DEF Pushed
  <2> QED
    BY <1>1, <1>2, <2>1, <2>2 DEF InOrder
<1>4. CASE Push(1)
  <2>1. PICK e \in Event : e = holds[1]
    BY <1>4 DEF Push, Typed, TypeOK
  <2>2. /\ pump[1] = "push" /\ pump'[1] = "load" /\ taken' = taken
        /\ incoming' = Append(incoming, e)
    BY <1>4, <2>1 DEF Push, Typed, TypeOK
  <2>3. /\ Pushed = 1 /\ Pushed' = 0 /\ e = Nth(taken[1])
        /\ taken[1] = Len(handled) + Carried + (Len(incoming) + 1)
    BY <1>2, <2>1, <2>2 DEF Pushed, InOrder
  <2>4. /\ Len(incoming') = Len(incoming) + 1
        /\ \A n \in DOMAIN incoming' :
             (n \in DOMAIN incoming /\ incoming'[n] = incoming[n]) \/ (n = Len(incoming) + 1 /\ incoming'[n] = e)
    BY <1>2, <2>2, Sent
  <2> QED
    BY <1>1, <1>2, <2>2, <2>3, <2>4 DEF InOrder
<1> QED
  BY <1>3, <1>4

\* The waiter takes the first of the queue in hand, or an error.
LEMMA TakeInOrder ==
  ASSUME Typed, Placed, OneWaiter, InOrder, TakePacket \/ TakeError
  PROVE  InOrder'
<1>1. /\ hands = {} /\ UNCHANGED <<pump, taken, holds, handled>>
  BY DEF TakePacket, TakeError, OneWaiter, pumps
<1>2. Packets = {} /\ Carried = 0 /\ Pushed' = Pushed /\ Pushed \in {0, 1}
  BY <1>1 DEF Packets, Carried, Pushed
<1>3. CASE TakePacket
  <2>1. incoming \in Seq(Event) /\ incoming # <<>> /\ incoming' = Tail(incoming)
    BY <1>3 DEF TakePacket, Typed
  <2>2. PICK e \in Event : e = Head(incoming)
    BY <2>1, Received
  <2>3. /\ Len(incoming) \in Nat \ {0} /\ Len(incoming') = Len(incoming) - 1
        /\ 1 \in DOMAIN incoming /\ e = incoming[1]
        /\ \A n \in DOMAIN incoming' : n \in Nat /\ n + 1 \in DOMAIN incoming /\ incoming'[n] = incoming[n + 1]
    BY <2>1, <2>2, Received
  <2>4. e = Nth(Len(handled) + 1) /\ Len(handled) \in Nat
    BY <1>2, <2>3, LenProperties DEF InOrder, Typed, TypeOK
  <2>5. e.number > 0
    BY <2>4 DEF Nth
  <2>6. Packets' = {e} /\ Carried' = 1
    BY <1>1, <1>3, <2>2, <2>5 DEF TakePacket, Packets, Carried
  <2>7. \A n \in DOMAIN incoming' : incoming'[n] = Nth(Len(handled) + 1 + n)
    BY <1>2, <2>3, <2>4 DEF InOrder
  <2>8. taken[1] = Len(handled) + 1 + Len(incoming') + Pushed
    BY <1>2, <2>3, <2>4 DEF InOrder
  <2> QED
    BY <1>1, <1>2, <2>4, <2>6, <2>7, <2>8 DEF InOrder
<1>4. CASE TakeError
  <2>1. Head(errors).number = 0
    BY <1>4, QueuesHold DEF TakeError, Typed
  <2>2. Packets' = {} /\ Carried' = 0 /\ incoming' = incoming
    BY <1>1, <1>4, <2>1 DEF TakeError, Packets, Carried
  <2> QED
    BY <1>1, <1>2, <2>2 DEF InOrder
<1> QED
  BY <1>3, <1>4

\* Update handles what is in hand.
LEMMA UpdateInOrder == ASSUME Typed, OneWaiter, InOrder, Update PROVE InOrder'
<1>1. PICK e \in hands : /\ hands' = hands \ {e}
                         /\ handled' = IF e.number > 0 THEN Append(handled, e) ELSE handled
  BY DEF Update
<1>2. hands = {e} /\ hands' = {} /\ e \in Event
  BY <1>1 DEF OneWaiter
<1>3. Packets' = {} /\ Carried' = 0 /\ Pushed' = Pushed /\ UNCHANGED <<pump, taken, holds, incoming>>
  BY <1>2 DEF Packets, Carried, Pushed, Update, pumps
<1>4. handled \in Seq(Event) /\ Len(handled) \in Nat /\ Len(incoming) \in Nat /\ Pushed \in {0, 1}
  BY LenProperties DEF Typed, TypeOK, Pushed
<1>5. CASE e.number > 0
  <2>1. Packets = {e} /\ Carried = 1 /\ handled' = Append(handled, e)
    BY <1>1, <1>2, <1>5 DEF Packets, Carried
  <2>2. e = Nth(Len(handled) + 1)
    BY <2>1 DEF InOrder
  <2>3. /\ Len(handled') = Len(handled) + 1
        /\ \A n \in DOMAIN handled' :
             (n \in DOMAIN handled /\ handled'[n] = handled[n]) \/ (n = Len(handled) + 1 /\ handled'[n] = e)
    BY <1>2, <1>4, <2>1, Sent
  <2>4. /\ \A n \in DOMAIN handled' : handled'[n] = Nth(n)
        /\ \A n \in DOMAIN incoming : incoming[n] = Nth(Len(handled') + 0 + n)
        /\ taken[1] = Len(handled') + 0 + Len(incoming) + Pushed
    BY <1>4, <2>1, <2>2, <2>3 DEF InOrder
  <2> QED
    BY <1>3, <2>4 DEF InOrder
<1>6. CASE ~(e.number > 0)
  <2>1. Packets = {} /\ Carried = 0 /\ handled' = handled
    BY <1>1, <1>2, <1>6 DEF Packets, Carried
  <2> QED
    BY <1>3, <2>1 DEF InOrder
<1> QED
  BY <1>5, <1>6

\* The line stays in order.
LEMMA InOrderKeeps ==
  ASSUME Typed, Placed, OneLink, OneWaiter, InOrder, Next, ~RenewChan
  PROVE  InOrder'
<1>0. 1 \in Link
  BY ConnAssumption DEF Link
<1>1. CASE DialOk
  <2>1. pump[1] # "push" /\ pump'[1] # "push"
    BY <1>1, DialsFirst DEF Typed, TypeOK
  <2> QED
    BY <1>1, <2>1, LineStands DEF DialOk, queues
<1>2. CASE DialFails \/ Authenticated \/ SwitchServer \/ Quit
  BY <1>2, LineStands DEF DialFails, Authenticated, SwitchServer, Quit, pumps, queues
<1>3. ASSUME NEW i \in Link, PumpStep(i) PROVE InOrder'
  <2>1. i = 1
    BY <1>3 DEF OneLink, PumpStep, Load, ReadPacket, ReadFails, Push, PushError, Unset, CloseChan
  <2>2. CASE ReadPacket(1) \/ Push(1)
    BY <1>0, <2>2, PumpInOrder
  <2>3. CASE Load(1) \/ ReadFails(1) \/ PushError(1) \/ Unset(1) \/ CloseChan(1)
    <3>1. /\ pump'[1] = "push" <=> pump[1] = "push"
          /\ UNCHANGED <<taken, holds, incoming, hands, handled>>
      BY <1>0, <2>3 DEF Typed, TypeOK, Load, ReadFails, PushError, Unset, CloseChan, queues
    <3> QED
      BY <3>1, LineStands
  <2> QED
    BY <1>3, <2>1, <2>2, <2>3 DEF PumpStep
<1>4. ASSUME NEW i \in Link, RelaySends(i) \/ Lost(i) PROVE InOrder'
  BY <1>4, LineStands DEF RelaySends, Lost, pumps, queues
<1> QED
  BY <1>1, <1>2, <1>3, <1>4, TakeInOrder, UpdateInOrder DEF Next, Connecting

-----------------------------------------------------------------------------
(* Every step, and the theorems. *)

LEMMA Established == Init => ConnInv
<1> SUFFICES ASSUME Init PROVE ConnInv
  OBVIOUS
<1>1. 1 \in Link /\ 0 \in 0..MaxDials /\ \A i \in Link : i \in i..MaxDials /\ i \in Nat
  BY ConnAssumption DEF Link
<1>2. /\ ToSet(<<>>) = {} /\ Distinct(<<>>) /\ <<>> \in Seq(Event) /\ Len(<<>>) = 0
      /\ IsFiniteSet({}) /\ DOMAIN <<>> = {}
  BY EmptySeq, FS_EmptySet DEF ToSet, Distinct
<1>3. /\ Holding = {} /\ Packets = {}
  BY DEF Init, Holding, Packets
<1>4. Due = {}
  <2>1. ASSUME NEW e \in Event, e.number \in 1..taken[e.from] PROVE FALSE
    BY <2>1, EventIs DEF Init
  <2> QED
    BY <2>1 DEF Due
<1>5. TypeOK
  <2>1. \A k \in Link : 0 \in 0..MaxPackets[k] /\ 0 \in 0..0
    BY EventIs
  <2>2. 0 <= PacketQueue /\ 0 <= ErrorQueue
    BY ConnAssumption
  <2>3. /\ \A k \in Link : arrived[k] = 0 /\ taken[k] = 0 /\ reads[k] = k /\ pump[k] = "none"
        /\ link \in [Link -> {"none", "up", "closed", "lost"}]
        /\ pump \in [Link -> {"none", "load", "read", "push", "fail", "unset", "close", "done"}]
    BY DEF Init
  <2> QED
    BY <1>1, <1>2, <2>1, <2>2, <2>3 DEF Init, TypeOK
<1>6. Typed
  BY <1>1, <1>2, <1>5 DEF Init, Typed
<1>7. Placed
  BY <1>2, <1>3, <1>4 DEF Init, Placed
<1>8. First
  BY <1>1, <1>2, <1>3 DEF Init, First, OneLink, OneWaiter, ClosedOnce, InOrder, Carried, Pushed
<1> QED
  BY <1>6, <1>7, <1>8 DEF ConnInv

LEMMA StepKeeps == ConnInv /\ [Next]_vars => ConnInv'
<1>1. ASSUME ConnInv, UNCHANGED vars PROVE ConnInv'
  <2>1. Typed'
    BY <1>1 DEF ConnInv, Typed, TypeOK, vars, fields, network, pumps, queues
  <2>2. Placed'
    BY <1>1, NothingMoves DEF ConnInv, vars, pumps, queues
  <2>3. InOrder => InOrder'
    BY <1>1, LineStands DEF vars, pumps, queues
  <2>4. First'
    BY <1>1, <2>3 DEF ConnInv, First, OneLink, OneWaiter, ClosedOnce, vars, fields, network, pumps, queues
  <2> QED
    BY <2>1, <2>2, <2>4 DEF ConnInv
<1>2. ASSUME ConnInv, Next PROVE ConnInv'
  <2> USE <1>2 DEF ConnInv
  <2>1. Typed'
    BY CallerTyped, PumpTyped, OtherTyped DEF Next
  <2>2. Placed'
    BY PlacedKeeps
  <2>3. ASSUME channel' = 0 PROVE (OneLink /\ OneWaiter /\ ClosedOnce /\ InOrder)'
    <3>1. channel = 0 /\ ~RenewChan
      BY <2>3, StillFirst
    <3>2. OneLink /\ OneWaiter /\ ClosedOnce /\ InOrder
      BY <3>1 DEF First
    <3> QED
      BY <3>1, <3>2, OneLinkKeeps, OneWaiterKeeps, ClosedOnceKeeps, InOrderKeeps
  <2> QED
    BY <2>1, <2>2, <2>3 DEF First
<1> QED
  BY <1>1, <1>2

\* The connection, its pumps and the channels, and where every packet read is.
THEOREM Invariance == Spec => []ConnInv
BY Established, StepKeeps, PTL DEF Spec

\* The fields, channels and goroutines keep their shapes.
THEOREM TypeCorrect == Spec => []TypeOK
<1>1. ConnInv => TypeOK
  BY DEF ConnInv, Typed
<1> QED
  BY <1>1, Invariance, PTL

\* Until the first switch the user sees what the relay sent, in order, and readPump closes
\* DisconnectChan once.
THEOREM InOrderUntilSwitch == Spec => []FineUntilSwitch
<1>1. ConnInv => FineUntilSwitch
  BY DEF ConnInv, First, ClosedOnce, InOrder, Nth, FineUntilSwitch
<1> QED
  BY <1>1, Invariance, PTL

\* A packet that was read is in one place until it is handled, whatever the switches, the
\* failures and the full channels.
THEOREM OnePlace == Spec => []NothingLost
<1>1. ConnInv => NothingLost
  <2> SUFFICES ASSUME ConnInv PROVE NothingLost
    OBVIOUS
  <2>1. PICK H, I, P, U, A, B : /\ H = Holding /\ I = ToSet(incoming)
                                /\ P = Packets /\ U = ToSet(handled)
                                /\ A = H \cup I /\ B = A \cup P
    OBVIOUS
  <2>2. /\ IsFiniteSet(H) /\ IsFiniteSet(P)
        /\ IsFiniteSet(I) /\ Cardinality(I) = Len(incoming)
        /\ IsFiniteSet(U) /\ Cardinality(U) = Len(handled)
    <3>1. IsFiniteSet(P)
      <4>1. P \in SUBSET hands /\ IsFiniteSet(hands)
        BY <2>1 DEF Packets, ConnInv, Typed
      <4> QED
        BY <4>1, FS_Subset
    <3>2. /\ incoming \in Seq(Event) /\ Distinct(incoming) /\ handled \in Seq(Event) /\ Distinct(handled)
          /\ IsFiniteSet(H)
      BY <2>1 DEF ConnInv, Typed, TypeOK, Placed
    <3> QED
      BY <2>1, <3>1, <3>2, Counted
  <2>3. H \cap I = {} /\ A \cap P = {} /\ B \cap U = {} /\ Due = B \cup U
    BY <2>1 DEF ConnInv, Placed
  <2>4. IsFiniteSet(A) /\ Cardinality(A) = Cardinality(H) + Cardinality(I)
    BY <2>1, <2>2, <2>3, Apart
  <2>5. IsFiniteSet(B) /\ Cardinality(B) = Cardinality(A) + Cardinality(P)
    BY <2>1, <2>2, <2>3, <2>4, Apart
  <2>6. Cardinality(Due) = Cardinality(B) + Cardinality(U)
    BY <2>2, <2>3, <2>5, Apart
  <2>7. Due = Holding \cup ToSet(incoming) \cup Packets \cup ToSet(handled)
    BY DEF ConnInv, Placed
  <2>8. Cardinality(Due) = Cardinality(Holding) + Len(incoming) + Cardinality(Packets) + Len(handled)
    BY <2>1, <2>2, <2>4, <2>5, <2>6
  <2> QED
    BY <2>7, <2>8 DEF NothingLost, Due, Packets
<1> QED
  BY <1>1, Invariance, PTL
-----------------------------------------------------------------------------
(* The waiters. *)

\* A pump reports its end once: its error is in the channel or in one hand.
ReportedOnce ==
  /\ Distinct(errors)
  /\ ToSet(errors) \cap hands = {}
  /\ \A e \in ToSet(errors) \cup hands :
       e.number = 0 => pump[e.from] \in {"unset", "close", "done"}

WaitInv == WaitersCounted /\ ReportedOnce

\* The numbers in it.
LEMMA WaitCounts ==
  ASSUME Typed
  PROVE  waiters \in Nat /\ channel \in Nat /\ Cardinality(hands) \in Nat
BY FS_CardinalityType DEF Typed, TypeOK

\* The caller starts a waiter at the end of each connection's making, failed or not.
LEMMA CallerWaits ==
  ASSUME Typed, WaitInv, Connecting \/ SwitchServer \/ Quit
  PROVE  WaitInv'
<1>1. UNCHANGED <<errors, hands>>
  BY DEF Connecting, DialOk, DialFails, Authenticated, RenewChan, SwitchServer, Quit, queues
<1>2. WaitersCounted'
  <2>1. PICK n \in Nat : n = Cardinality(hands) /\ Cardinality(hands') = n
    BY <1>1, WaitCounts
  <2>2. CASE DialOk
    BY <2>1, <2>2, WaitCounts DEF DialOk, queues, WaitInv, WaitersCounted
  <2>3. CASE DialFails
    BY <2>1, <2>3, WaitCounts DEF DialFails, fields, WaitInv, WaitersCounted
  <2>4. CASE Authenticated
    BY <2>1, <2>4, WaitCounts DEF Authenticated, fields, WaitInv, WaitersCounted
  <2>5. CASE RenewChan
    BY <2>1, <2>5, WaitCounts DEF RenewChan, queues, WaitInv, WaitersCounted
  <2>6. CASE SwitchServer
    BY <2>1, <2>6, WaitCounts DEF SwitchServer, queues, WaitInv, WaitersCounted
  <2>7. CASE Quit
    BY <2>7 DEF Quit, WaitersCounted
  <2> QED
    BY <2>2, <2>3, <2>4, <2>5, <2>6, <2>7 DEF Connecting
<1>3. \A k \in Link : pump[k] # "none" => pump'[k] = pump[k]
  BY DEF Connecting, DialOk, DialFails, Authenticated, RenewChan, SwitchServer, Quit, pumps, Typed, TypeOK
<1>4. \A e \in ToSet(errors) \cup hands : e.from \in Link
  BY EventIs DEF Typed, TypeOK
<1>5. ReportedOnce'
  BY <1>1, <1>3, <1>4 DEF WaitInv, ReportedOnce
<1> QED
  BY <1>2, <1>5 DEF WaitInv

\* A pump's error is new.
LEMMA PumpWaits ==
  ASSUME Typed, WaitInv, NEW i \in Link, PumpStep(i)
  PROVE  WaitInv'
<1>1. UNCHANGED <<caller, channel, waiters, hands>>
  BY DEF PumpStep, Load, ReadPacket, ReadFails, Push, PushError, Unset, CloseChan, fields, queues
<1>2. WaitersCounted'
  BY <1>1 DEF WaitInv, WaitersCounted
<1>3. /\ \A k \in Link \ {i} : pump'[k] = pump[k]
      /\ pump[i] \in {"unset", "close", "done"} => pump'[i] \in {"close", "done"}
  BY DEF PumpStep, Load, ReadPacket, ReadFails, Push, PushError, Unset, CloseChan, Typed, TypeOK
<1>4. \A e \in ToSet(errors) \cup hands : e.from \in Link
  BY EventIs DEF Typed, TypeOK
<1>5. \A e \in ToSet(errors) \cup hands :
        e.number = 0 => pump'[e.from] \in {"unset", "close", "done"}
  BY <1>3, <1>4 DEF WaitInv, ReportedOnce
<1>6. CASE PushError(i)
  <2>1. PICK e \in Event : e = [from |-> i, number |-> 0] /\ errors' = Append(errors, e)
                           /\ e.from = i /\ e.number = 0
    <3>1. [from |-> i, number |-> 0] \in Event
      BY EventIs
    <3> QED
      BY <1>6, <3>1 DEF PushError
  <2>2. pump[i] = "fail" /\ pump'[i] = "unset"
    BY <1>6 DEF PushError, Typed, TypeOK
  <2>3. e \notin ToSet(errors) /\ e \notin hands
    BY <2>1, <2>2 DEF WaitInv, ReportedOnce
  <2>4. ToSet(errors') = ToSet(errors) \cup {e} /\ Distinct(errors')
    BY <2>1, <2>3, Sent DEF Typed, WaitInv, ReportedOnce
  <2>5. ReportedOnce'
    BY <1>1, <1>5, <2>1, <2>2, <2>3, <2>4 DEF WaitInv, ReportedOnce
  <2> QED
    BY <1>2, <2>5 DEF WaitInv
<1>7. CASE ~PushError(i)
  <2>1. UNCHANGED errors
    BY <1>7 DEF PumpStep, Load, ReadPacket, ReadFails, Push, Unset, CloseChan, queues
  <2> QED
    BY <1>1, <1>2, <1>5, <2>1 DEF WaitInv, ReportedOnce
<1> QED
  BY <1>6, <1>7

\* A waiter that takes an event is gone, and the event is on its way instead.
LEMMA TakeWaits ==
  ASSUME Typed, WaitInv, NEW e \in Event, e \notin hands, waiters > 0, hands' = hands \cup {e},
         waiters' = waiters - 1, UNCHANGED <<caller, channel>>
  PROVE  WaitersCounted'
<1>1. Cardinality(hands') = Cardinality(hands) + 1
  BY FS_AddElement DEF Typed
<1> QED
  BY <1>1, WaitCounts DEF WaitInv, WaitersCounted

\* What is taken from a channel was in no hand.
LEMMA TakenWaits ==
  ASSUME Typed, Placed, WaitInv, TakePacket \/ TakeError
  PROVE  WaitInv'
<1>1. CASE TakePacket
  <2>1. PICK e \in Event : e = Head(incoming) /\ e \in ToSet(incoming)
    BY <1>1, Received DEF TakePacket, Typed
  <2>2. e \in Due /\ e \notin Packets
    BY <2>1 DEF Placed
  <2>3. e.number > 0
    <3>1. e.number \in 1..taken[e.from] /\ taken[e.from] \in Nat
      BY <2>2, EventIs DEF Due, Typed
    <3> QED
      BY <3>1
  <2>4. e \notin hands /\ e \notin ToSet(errors)
    BY <2>2, <2>3 DEF Packets, Typed
  <2>5. hands' = hands \cup {e} /\ UNCHANGED <<errors, pump>>
    BY <1>1, <2>1 DEF TakePacket, pumps
  <2>6. WaitersCounted'
    BY <1>1, <2>4, <2>5, TakeWaits DEF TakePacket, fields
  <2>7. ReportedOnce'
    BY <2>3, <2>4, <2>5 DEF WaitInv, ReportedOnce
  <2> QED
    BY <2>6, <2>7 DEF WaitInv
<1>2. CASE TakeError
  <2>1. PICK e \in Event : /\ e = Head(errors) /\ ToSet(errors) = ToSet(errors') \cup {e}
                           /\ Distinct(errors') /\ e \notin ToSet(errors')
    BY <1>2, Received DEF TakeError, Typed, WaitInv, ReportedOnce
  <2>2. hands' = hands \cup {e} /\ UNCHANGED pump
    BY <1>2, <2>1 DEF TakeError, pumps
  <2>3. e \notin hands
    BY <2>1 DEF WaitInv, ReportedOnce
  <2>4. WaitersCounted'
    BY <1>2, <2>2, <2>3, TakeWaits DEF TakeError, fields
  <2>5. ReportedOnce'
    BY <2>1, <2>2 DEF WaitInv, ReportedOnce
  <2> QED
    BY <2>4, <2>5 DEF WaitInv
<1> QED
  BY <1>1, <1>2

\* Update waits again for each event it takes.
LEMMA UpdateWaits == ASSUME Typed, WaitInv, Update PROVE WaitInv'
<1>1. PICK e \in hands : hands' = hands \ {e}
  BY DEF Update
<1>2. Cardinality(hands') = Cardinality(hands) - 1
  BY <1>1, FS_RemoveElement DEF Typed
<1>3. WaitersCounted'
  BY <1>2, WaitCounts DEF Update, fields, WaitInv, WaitersCounted
<1>4. ReportedOnce'
  BY <1>1 DEF Update, pumps, WaitInv, ReportedOnce
<1> QED
  BY <1>3, <1>4 DEF WaitInv

LEMMA StepWaits == ConnInv /\ WaitInv /\ [Next]_vars => WaitInv'
<1> SUFFICES ASSUME ConnInv, WaitInv, [Next]_vars PROVE WaitInv'
  OBVIOUS
<1>1. CASE UNCHANGED vars
  BY <1>1 DEF vars, fields, pumps, queues, WaitInv, WaitersCounted, ReportedOnce
<1>2. ASSUME NEW i \in Link, RelaySends(i) \/ Lost(i) PROVE WaitInv'
  BY <1>2 DEF RelaySends, Lost, fields, pumps, queues, WaitInv, WaitersCounted, ReportedOnce
<1> QED
  BY <1>1, <1>2, CallerWaits, PumpWaits, TakenWaits, UpdateWaits DEF ConnInv, Next

\* Every switch of servers leaves one goroutine more waiting for packets, for good; no
\* error, failed dial or full channel adds or ends one.
THEOREM OneWaiterPerSwitch == Spec => []WaitersCounted
<1>1. Init => WaitInv
  <2> SUFFICES ASSUME Init PROVE WaitInv
    OBVIOUS
  <2>1. Cardinality({}) = 0 /\ ToSet(<<>>) = {} /\ Distinct(<<>>)
    BY FS_EmptySet DEF ToSet, Distinct
  <2> QED
    BY <2>1 DEF Init, WaitInv, WaitersCounted, ReportedOnce
<1>2. WaitInv => WaitersCounted
  BY DEF WaitInv
<1> QED
  BY <1>1, <1>2, StepWaits, Invariance, PTL DEF Spec

-----------------------------------------------------------------------------
(* ClientConn implements Delivery. *)

\* A packet that Update shows was read and is shown for the first time, and before the
\* first switch it is the next one of the first connection.
LEMMA UpdateShows ==
  ASSUME ConnInv, Update, ~panicked
  PROVE  D!Next \/ UNCHANGED D!pvars
<1>1. PICK e \in hands : handled' = IF e.number > 0 THEN Append(handled, e) ELSE handled
  BY DEF Update
<1>2. e \in Event /\ e.from \in Link /\ e.number \in Nat /\ e = [from |-> e.from, number |-> e.number]
  BY <1>1, EventIs DEF ConnInv, Typed, TypeOK
<1>3. UNCHANGED <<taken, channel, panicked>>
  BY DEF Update, fields, pumps
<1>4. CASE e.number > 0
  <2>1. e \in Packets /\ e \in Due /\ e \notin ToSet(handled)
    BY <1>1, <1>4 DEF Packets, ConnInv, Placed
  <2>2. e.number \in 1..taken[e.from] /\ \A m \in DOMAIN handled : handled[m] # e
    BY <2>1 DEF Due, ToSet
  <2>3. ~(channel > 0) => e.from = 1 /\ e.number = Len(handled) + 1
    <3>1. channel \in Nat
      BY DEF ConnInv, Typed, TypeOK
    <3>2. ASSUME channel = 0 PROVE e = [from |-> 1, number |-> Len(handled) + 1]
      BY <2>1, <3>2 DEF ConnInv, First, InOrder, Nth
    <3> QED
      BY <3>1, <3>2
  <2>4. D!Show(e.from, e.number)
    BY <1>1, <1>2, <1>3, <1>4, <2>2, <2>3 DEF D!Show
  <2> QED
    BY <1>2, <2>2, <2>4 DEF D!Next
<1>5. CASE ~(e.number > 0)
  BY <1>1, <1>3, <1>5 DEF D!pvars
<1> QED
  BY <1>4, <1>5

\* A step of a pump reads a packet, ends the program after a switch, or is not seen.
LEMMA PumpMaps ==
  ASSUME ConnInv, ~panicked, NEW i \in Link, PumpStep(i)
  PROVE  D!Next \/ UNCHANGED D!pvars
<1>1. CASE ReadPacket(i)
  <2>1. reads[i] \in Link
    BY EventIs DEF ConnInv, Typed, TypeOK, Link
  <2>2. D!Read(reads[i])
    BY <1>1 DEF ReadPacket, D!Read, fields, queues
  <2> QED
    BY <2>1, <2>2 DEF D!Next
<1>2. CASE CloseChan(i)
  <2>1. UNCHANGED <<taken, handled, channel>> /\ panicked' \in BOOLEAN
    BY <1>2 DEF CloseChan, queues
  <2>2. CASE panicked'
    <3>1. channel \in closedChans /\ channel \in Nat
      BY <1>2, <2>2 DEF CloseChan, ConnInv, Typed, TypeOK
    <3>2. ASSUME channel = 0 PROVE FALSE
      <4>1. 0 \in closedChans /\ pump[i] = "close"
        BY <1>2, <3>1, <3>2 DEF CloseChan
      <4>2. pump[1] = "done" /\ i = 1
        BY <3>2, <4>1 DEF ConnInv, First, OneLink, ClosedOnce
      <4> QED
        BY <4>1, <4>2
    <3>3. D!Break
      BY <2>1, <2>2, <3>1, <3>2 DEF D!Break
    <3> QED
      BY <3>3 DEF D!Next
  <2>3. CASE ~panicked'
    <3>1. panicked' = panicked
      BY <2>1, <2>3 DEF ConnInv, Typed, TypeOK
    <3> QED
      BY <2>1, <3>1 DEF D!pvars
  <2> QED
    BY <2>2, <2>3
<1>3. CASE Load(i) \/ ReadFails(i) \/ Push(i) \/ PushError(i) \/ Unset(i)
  BY <1>3 DEF Load, ReadFails, Push, PushError, Unset, fields, queues, D!pvars
<1> QED
  BY <1>1, <1>2, <1>3 DEF PumpStep

\* A new DisconnectChan is a switch, the first time.
LEMMA RenewMaps ==
  ASSUME ConnInv, ~panicked, RenewChan
  PROVE  D!Next
<1>1. channel \in Nat /\ channel' = channel + 1
  BY DEF ConnInv, Typed, TypeOK, RenewChan
<1>2. (channel > 0)' = TRUE
  BY <1>1
<1>3. D!Switch
  BY <1>2 DEF D!Switch, RenewChan, pumps, queues
<1> QED
  BY <1>3 DEF D!Next

\* Every step of the client is one of Delivery or changes nothing it speaks of.
LEMMA StepDelivers == ConnInv /\ [Next]_vars => [D!Next]_(D!pvars)
<1> SUFFICES ASSUME ConnInv, [Next]_vars PROVE D!Next \/ UNCHANGED D!pvars
  OBVIOUS
<1>1. CASE UNCHANGED vars
  BY <1>1 DEF vars, fields, pumps, queues, D!pvars
<1>2. CASE Next
  <2>1. ~panicked
    BY <1>2 DEF Next, Running
  <2>2. CASE DialOk \/ DialFails \/ Authenticated \/ SwitchServer \/ Quit \/ TakePacket \/ TakeError
    BY <2>2 DEF DialOk, DialFails, Authenticated, SwitchServer, Quit, Disconnect, TakePacket, TakeError,
                fields, pumps, queues, D!pvars
  <2>3. CASE \E i \in Link : RelaySends(i) \/ Lost(i)
    BY <2>3 DEF RelaySends, Lost, fields, pumps, queues, D!pvars
  <2> QED
    BY <1>2, <2>1, <2>2, <2>3, RenewMaps, UpdateShows, PumpMaps DEF Next, Connecting
<1> QED
  BY <1>1, <1>2

\* The client delivers: what its pump reads is shown once, and until the first switch of
\* servers in order and without breaking down.
THEOREM Refinement == Spec => ImplementsDelivery
<1>1. Init => D!Init
  BY DEF Init, D!Init
<1> QED
  BY <1>1, StepDelivers, Invariance, PTL DEF Spec, ImplementsDelivery, D!Spec
=============================================================================
