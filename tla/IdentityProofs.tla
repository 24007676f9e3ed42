----------------------------- MODULE IdentityProofs ----------------------------
(* Proofs about Identity: any callsigns, and any number of launches and requests. *)
EXTENDS Identity, TLAPS

Account == [account : 1..born, nick : Nick]

-----------------------------------------------------------------------------
(* The invariant. *)

\* What is known where: what the ui will save has a callsign, and main holds an account
\* from the first load on.
Held ==
  /\ ui \in {"off", "connect"} => pump = "off"
  /\ ui = "load" => saves = 0 \/ (saves = 1 /\ wanted \in Nick)
  /\ pump # "off" \/ ui \in {"open", "write", "connect"} =>
       mainId \in [account : 1..born, nick : Nick \cup {NoNick}]
  /\ file \in {Absent} \cup Unreadable \cup Account

\* Only a reset removes the file, and only its next load makes an account.
Counted ==
  /\ starts \in 0..MaxStarts /\ resets \in Nat
  /\ born <= starts /\ born <= 1 + resets
  /\ file = Absent =>
       /\ born <= resets
       /\ pump = "off"
       /\ ui = "off" \/ (ui = "load" /\ born < starts)

\* While no process has ended within a save and no two saves of different callsigns have
\* overlapped: a file being written is empty or holds the same callsign already, and
\* nobody else finds it empty.
Sound ==
  ~torn /\ ~clash =>
    /\ ui = "write" /\ pump = "write" => uiId.nick = mainId.nick
    /\ ui = "write" => file = Empty \/ (file \in Account /\ file.nick = uiId.nick)
    /\ pump = "write" => file = Empty \/ (file \in Account /\ file.nick = mainId.nick)
    /\ file \in Unreadable => file = Empty /\ "write" \in {ui, pump}

IdInv ==
  /\ TypeOK /\ Held /\ Counted /\ Sound
  /\ {torn, clash, lockedOut} \subseteq BOOLEAN
  /\ lockedOut => torn \/ clash

\* What a queue gives and takes.
LEMMA Queues ==
  /\ \A q \in Seq(Packet) : q # <<>> =>
       Head(q) \in Packet /\ Head(q).nick \in Nick /\ Tail(q) \in Seq(Packet)
  /\ \A q \in Seq(Packet) : \A p \in Packet : Append(q, p) \in Seq(Packet)
  /\ \A p \in Packet : <<p>> \in Seq(Packet)
  /\ <<>> \in Seq(Packet)
<1>1. \A p \in Packet : p.nick \in Nick
  BY DEF Packet
<1> QED
  BY <1>1

\* Every request is a packet.
LEMMA Requests ==
  \A n \in Nick : /\ [type |-> "auth", nick |-> n] \in Packet
                  /\ [type |-> "nick", nick |-> n] \in Packet
BY DEF Packet

\* A client that has never run has no account.
LEMMA Established == Init => IdInv
<1> SUFFICES ASSUME Init PROVE IdInv
  OBVIOUS
<1>1. TypeOK /\ Held /\ Counted
  BY IdentityAssumption DEF Init, TypeOK, Held, Counted
<1>2. Sound
  BY IdentityAssumption DEF Init, Sound, Unreadable
<1> QED
  BY <1>1, <1>2 DEF Init, IdInv

-----------------------------------------------------------------------------
(* Steps. *)

\* A launch finds a sound file, or a reason that it is not.
LEMMA StartKeeps ==
  ASSUME IdInv, NEW flag \in Nick \cup {NoNick}, NEW reset \in BOOLEAN, Start(flag, reset)
  PROVE  IdInv'
<1> USE DEF IdInv, Start, fileVars, pumpVars, netVars, bounds, history
<1>1. TypeOK'
  BY IdentityAssumption DEF TypeOK, Held, Counted, Account, Unreadable
<1>2. Held'
  BY IdentityAssumption DEF TypeOK, Held, Counted, Account, Unreadable
<1>3. Counted'
  BY IdentityAssumption DEF TypeOK, Held, Counted, Unreadable
<1>4. Sound'
  BY IdentityAssumption DEF TypeOK, Held, Counted, Sound, Unreadable, Account
<1>5. {torn', clash', lockedOut'} \subseteq BOOLEAN /\ (lockedOut' => torn' \/ clash')
  BY DEF Sound, Held
<1> QED
  BY <1>1, <1>2, <1>3, <1>4, <1>5

\* What is loaded is what is saved: SetNickname's save has a callsign.
LEMMA LoadKeeps ==
  ASSUME IdInv, Load
  PROVE  IdInv'
<1> USE DEF IdInv, Load, Own, fileVars, pumpVars, netVars, bounds, history
<1>0. file \in Account /\ Own(file.nick) \in Nick \cup {NoNick}
  BY DEF Held, Account
<1>1. TypeOK'
  <2>1. /\ uiId' \in [account : 1..born, nick : Nick \cup {NoNick}]
        /\ saves' \in 0..2
        /\ ui' \in {"open", "connect", "idle"}
        /\ ui' = "open" => uiId'.nick \in Nick /\ saves' \in 1..2
    <3>1. PICK own \in Nick \cup {NoNick} : own = Own(file.nick)
      BY <1>0
    <3>2. uiId' = [file EXCEPT !.nick = IF wanted \notin {NoNick, own} THEN wanted ELSE own]
      BY <3>1
    <3>3. uiId' \in [account : 1..born, nick : Nick \cup {NoNick}]
      BY <1>0, <3>2 DEF TypeOK, Account
    <3>4. uiId'.nick = IF wanted \notin {NoNick, own} THEN wanted ELSE own
      BY <1>0, <3>2 DEF Account
    <3>5. saves' = saves + (IF wanted \notin {NoNick, own} THEN 1 ELSE 0)
      BY <3>1
    <3> QED
      BY <3>3, <3>4, <3>5 DEF Held, TypeOK
  <2>2. nick' \in Nick \cup {NoNick}
    BY <2>1 DEF TypeOK
  <2>3. pump' = pump /\ (pump' \in {"open", "write"} => mainId' = mainId)
    OBVIOUS
  <2> QED
    BY <2>1, <2>2, <2>3 DEF TypeOK
<1>2. Held'
  BY IdentityAssumption DEF TypeOK, Held, Counted, Account, Unreadable
<1>3. Counted'
  BY IdentityAssumption DEF TypeOK, Held, Counted, Unreadable
<1>4. Sound'
  BY IdentityAssumption DEF TypeOK, Held, Counted, Sound, Unreadable, Account
<1>5. {torn', clash', lockedOut'} \subseteq BOOLEAN /\ (lockedOut' => torn' \/ clash')
  BY DEF Sound, Held
<1> QED
  BY <1>1, <1>2, <1>3, <1>4, <1>5

\* Create follows a reset or the first launch.
LEMMA CreateKeeps ==
  ASSUME IdInv, Create
  PROVE  IdInv'
<1> USE DEF IdInv, Create, fileVars, pumpVars, netVars, bounds, history
<1>1. TypeOK'
  BY IdentityAssumption DEF TypeOK, Held, Counted, Account, Unreadable
<1>2. Held'
  BY IdentityAssumption DEF TypeOK, Held, Counted, Account, Unreadable
<1>3. Counted'
  BY IdentityAssumption DEF TypeOK, Held, Counted, Unreadable
<1>4. Sound'
  BY IdentityAssumption DEF TypeOK, Held, Counted, Sound, Unreadable, Account
<1>5. {torn', clash', lockedOut'} \subseteq BOOLEAN /\ (lockedOut' => torn' \/ clash')
  BY DEF Sound, Held
<1> QED
  BY <1>1, <1>2, <1>3, <1>4, <1>5

\* A launch fails only at a file that a torn or a mixed write left.
LEMMA LoadFailsKeeps ==
  ASSUME IdInv, LoadFails
  PROVE  IdInv'
<1> USE DEF IdInv, LoadFails, fileVars, pumpVars, netVars, bounds, history
<1>1. TypeOK'
  BY IdentityAssumption DEF TypeOK, Held, Counted, Account, Unreadable
<1>2. Held'
  BY IdentityAssumption DEF TypeOK, Held, Counted, Account, Unreadable
<1>3. Counted'
  BY IdentityAssumption DEF TypeOK, Held, Counted, Unreadable
<1>4. Sound'
  BY IdentityAssumption DEF TypeOK, Held, Counted, Sound, Unreadable, Account
<1>5. {torn', clash', lockedOut'} \subseteq BOOLEAN /\ (lockedOut' => torn' \/ clash')
  BY DEF Sound, Held
<1> QED
  BY <1>1, <1>2, <1>3, <1>4, <1>5

\* The ui empties the file.
LEMMA UiOpensKeeps ==
  ASSUME IdInv, UiOpens
  PROVE  IdInv'
<1> USE DEF IdInv, UiOpens, Overlaps, fileVars, pumpVars, netVars, bounds, history
<1>1. TypeOK'
  BY IdentityAssumption DEF TypeOK, Held, Counted, Account, Unreadable
<1>2. Held'
  BY IdentityAssumption DEF TypeOK, Held, Counted, Account, Unreadable
<1>3. Counted'
  BY IdentityAssumption DEF TypeOK, Held, Counted, Unreadable
<1>4. Sound'
  BY IdentityAssumption DEF TypeOK, Held, Counted, Sound, Unreadable, Account
<1>5. {torn', clash', lockedOut'} \subseteq BOOLEAN /\ (lockedOut' => torn' \/ clash')
  BY DEF Sound, Held
<1> QED
  BY <1>1, <1>2, <1>3, <1>4, <1>5

\* and writes it.
LEMMA UiWritesKeeps ==
  ASSUME IdInv, UiWrites
  PROVE  IdInv'
<1> USE DEF IdInv, UiWrites, Written, fileVars, pumpVars, netVars, bounds, history
<1>1. TypeOK'
  BY IdentityAssumption DEF TypeOK, Held, Counted, Account, Unreadable
<1>2. Held'
  BY IdentityAssumption DEF TypeOK, Held, Counted, Account, Unreadable
<1>3. Counted'
  BY IdentityAssumption DEF TypeOK, Held, Counted, Unreadable
<1>4. Sound'
  BY IdentityAssumption DEF TypeOK, Held, Counted, Sound, Unreadable, Account
<1>5. {torn', clash', lockedOut'} \subseteq BOOLEAN /\ (lockedOut' => torn' \/ clash')
  BY DEF Sound, Held
<1> QED
  BY <1>1, <1>2, <1>3, <1>4, <1>5

\* The read pump empties the file.
LEMMA PumpOpensKeeps ==
  ASSUME IdInv, PumpOpens
  PROVE  IdInv'
<1> USE DEF IdInv, PumpOpens, Overlaps, fileVars, pumpVars, netVars, bounds, history
<1>1. TypeOK'
  BY IdentityAssumption DEF TypeOK, Held, Counted, Account, Unreadable
<1>2. Held'
  BY IdentityAssumption DEF TypeOK, Held, Counted, Account, Unreadable
<1>3. Counted'
  BY IdentityAssumption DEF TypeOK, Held, Counted, Unreadable
<1>4. Sound'
  BY IdentityAssumption DEF TypeOK, Held, Counted, Sound, Unreadable, Account
<1>5. {torn', clash', lockedOut'} \subseteq BOOLEAN /\ (lockedOut' => torn' \/ clash')
  BY DEF Sound, Held
<1> QED
  BY <1>1, <1>2, <1>3, <1>4, <1>5

\* and writes it.
LEMMA PumpWritesKeeps ==
  ASSUME IdInv, PumpWrites
  PROVE  IdInv'
<1> USE DEF IdInv, PumpWrites, Written, fileVars, pumpVars, netVars, bounds, history
<1>1. TypeOK'
  BY IdentityAssumption DEF TypeOK, Held, Counted, Account, Unreadable
<1>2. Held'
  BY IdentityAssumption DEF TypeOK, Held, Counted, Account, Unreadable
<1>3. Counted'
  BY IdentityAssumption DEF TypeOK, Held, Counted, Unreadable
<1>4. Sound'
  BY IdentityAssumption DEF TypeOK, Held, Counted, Sound, Unreadable, Account
<1>5. {torn', clash', lockedOut'} \subseteq BOOLEAN /\ (lockedOut' => torn' \/ clash')
  BY DEF Sound, Held
<1> QED
  BY <1>1, <1>2, <1>3, <1>4, <1>5

\* A process that ends within a save tears it.
LEMMA EndKeeps ==
  ASSUME IdInv, End
  PROVE  IdInv'
<1> USE DEF IdInv, End, fileVars, pumpVars, netVars, bounds, history
<1>1. TypeOK'
  BY IdentityAssumption DEF TypeOK, Held, Counted, Account, Unreadable
<1>2. Held'
  BY IdentityAssumption DEF TypeOK, Held, Counted, Account, Unreadable
<1>3. Counted'
  BY IdentityAssumption DEF TypeOK, Held, Counted, Unreadable
<1>4. Sound'
  BY IdentityAssumption DEF TypeOK, Held, Counted, Sound, Unreadable, Account
<1>5. {torn', clash', lockedOut'} \subseteq BOOLEAN /\ (lockedOut' => torn' \/ clash')
  BY DEF Sound, Held
<1> QED
  BY <1>1, <1>2, <1>3, <1>4, <1>5

\* A connection starts the read pump.
LEMMA ConnectKeeps ==
  ASSUME IdInv, Connect
  PROVE  IdInv'
<1> USE DEF IdInv, Connect, fileVars, pumpVars, netVars, bounds, history
<1>0. sent' \in Seq(Packet) /\ answers' \in Seq(Packet) /\ incoming' \in Seq(Packet)
  <2>1. /\ sent \in Seq(Packet) /\ answers \in Seq(Packet) /\ incoming \in Seq(Packet)
        /\ nick \in Nick \cup {NoNick}
    BY DEF TypeOK
  <2>2. sent' \in Seq(Packet)
    BY <2>1, Queues, Requests
  <2>3. answers' \in Seq(Packet)
    BY <2>1, Queues
  <2>4. incoming' \in Seq(Packet)
    BY <2>1, Queues
  <2> QED
    BY <2>2, <2>3, <2>4
<1>1. TypeOK'
  BY <1>0, Queues DEF TypeOK, Held
<1>2. Held'
  BY Queues, Requests DEF TypeOK, Held, Account, Unreadable
<1>3. Counted'
  BY DEF TypeOK, Held, Counted
<1>4. Sound'
  BY DEF TypeOK, Held, Sound, Unreadable, Account
<1>5. {torn', clash', lockedOut'} \subseteq BOOLEAN /\ (lockedOut' => torn' \/ clash')
  OBVIOUS
<1> QED
  BY <1>1, <1>2, <1>3, <1>4, <1>5

\* A request saves nothing yet.
LEMMA AskKeeps ==
  ASSUME IdInv, NEW n \in Nick, Prompt(n) \/ Rename(n) \/ Whoami
  PROVE  IdInv'
<1> USE DEF IdInv, Prompt, Rename, Whoami, Asking, Authenticate, ChangeNick, fileVars,
            pumpVars, netVars, bounds, history
<1>0. sent' \in Seq(Packet) /\ answers' \in Seq(Packet) /\ incoming' \in Seq(Packet)
  <2>1. /\ sent \in Seq(Packet) /\ answers \in Seq(Packet) /\ incoming \in Seq(Packet)
        /\ nick \in Nick \cup {NoNick}
    BY DEF TypeOK
  <2>2. sent' \in Seq(Packet)
    BY <2>1, Queues, Requests
  <2>3. answers' \in Seq(Packet)
    BY <2>1, Queues
  <2>4. incoming' \in Seq(Packet)
    BY <2>1, Queues
  <2> QED
    BY <2>2, <2>3, <2>4
<1>1. TypeOK'
  BY <1>0, Queues DEF TypeOK, Held
<1>2. Held'
  BY Queues, Requests DEF TypeOK, Held, Account, Unreadable
<1>3. Counted'
  BY DEF TypeOK, Held, Counted
<1>4. Sound'
  BY DEF TypeOK, Held, Sound, Unreadable, Account
<1>5. {torn', clash', lockedOut'} \subseteq BOOLEAN /\ (lockedOut' => torn' \/ clash')
  OBVIOUS
<1> QED
  BY <1>1, <1>2, <1>3, <1>4, <1>5

\* A new connection, the same identity.
LEMMA SwitchKeeps ==
  ASSUME IdInv, Switch
  PROVE  IdInv'
<1> USE DEF IdInv, Switch, fileVars, pumpVars, netVars, bounds, history
<1>0. sent' \in Seq(Packet) /\ answers' \in Seq(Packet) /\ incoming' \in Seq(Packet)
  <2>1. /\ sent \in Seq(Packet) /\ answers \in Seq(Packet) /\ incoming \in Seq(Packet)
        /\ nick \in Nick \cup {NoNick}
    BY DEF TypeOK
  <2>2. sent' \in Seq(Packet)
    BY <2>1, Queues, Requests
  <2>3. answers' \in Seq(Packet)
    BY <2>1, Queues
  <2>4. incoming' \in Seq(Packet)
    BY <2>1, Queues
  <2> QED
    BY <2>2, <2>3, <2>4
<1>1. TypeOK'
  BY <1>0, Queues DEF TypeOK, Held
<1>2. Held'
  BY Queues, Requests DEF TypeOK, Held, Account, Unreadable
<1>3. Counted'
  BY DEF TypeOK, Held, Counted
<1>4. Sound'
  BY DEF TypeOK, Held, Sound, Unreadable, Account
<1>5. {torn', clash', lockedOut'} \subseteq BOOLEAN /\ (lockedOut' => torn' \/ clash')
  OBVIOUS
<1> QED
  BY <1>1, <1>2, <1>3, <1>4, <1>5

\* The relay does not touch the file.
LEMMA RelayKeeps ==
  ASSUME IdInv, Accepts \/ Refuses
  PROVE  IdInv'
<1> USE DEF IdInv, Accepts, Refuses, fileVars, pumpVars, netVars, bounds, history
<1>0. sent' \in Seq(Packet) /\ answers' \in Seq(Packet) /\ incoming' \in Seq(Packet)
  <2>1. /\ sent \in Seq(Packet) /\ answers \in Seq(Packet) /\ incoming \in Seq(Packet)
        /\ nick \in Nick \cup {NoNick}
    BY DEF TypeOK
  <2>2. sent' \in Seq(Packet)
    BY <2>1, Queues, Requests
  <2>3. answers' \in Seq(Packet)
    BY <2>1, Queues
  <2>4. incoming' \in Seq(Packet)
    BY <2>1, Queues
  <2> QED
    BY <2>2, <2>3, <2>4
<1>1. TypeOK'
  BY <1>0, Queues DEF TypeOK, Held
<1>2. Held'
  BY Queues, Requests DEF TypeOK, Held, Account, Unreadable
<1>3. Counted'
  BY DEF TypeOK, Held, Counted
<1>4. Sound'
  BY DEF TypeOK, Held, Sound, Unreadable, Account
<1>5. {torn', clash', lockedOut'} \subseteq BOOLEAN /\ (lockedOut' => torn' \/ clash')
  OBVIOUS
<1> QED
  BY <1>1, <1>2, <1>3, <1>4, <1>5

\* An AuthAck changes the callsign in memory.
LEMMA AuthAckKeeps ==
  ASSUME IdInv, PumpAuthAck \/ UpdateAuthAck
  PROVE  IdInv'
<1> USE DEF IdInv, PumpAuthAck, UpdateAuthAck, fileVars, pumpVars, netVars, bounds, history
<1>0. sent' \in Seq(Packet) /\ answers' \in Seq(Packet) /\ incoming' \in Seq(Packet)
  <2>1. /\ sent \in Seq(Packet) /\ answers \in Seq(Packet) /\ incoming \in Seq(Packet)
        /\ nick \in Nick \cup {NoNick}
    BY DEF TypeOK
  <2>2. sent' \in Seq(Packet)
    BY <2>1, Queues, Requests
  <2>3. answers' \in Seq(Packet)
    BY <2>1, Queues
  <2>4. incoming' \in Seq(Packet)
    BY <2>1, Queues
  <2> QED
    BY <2>2, <2>3, <2>4
<1>1. TypeOK'
  BY <1>0, Queues DEF TypeOK, Held
<1>2. Held'
  BY Queues, Requests DEF TypeOK, Held, Account, Unreadable
<1>3. Counted'
  BY DEF TypeOK, Held, Counted
<1>4. Sound'
  BY DEF TypeOK, Held, Sound, Unreadable, Account
<1>5. {torn', clash', lockedOut'} \subseteq BOOLEAN /\ (lockedOut' => torn' \/ clash')
  OBVIOUS
<1> QED
  BY <1>1, <1>2, <1>3, <1>4, <1>5

\* A NickAck gives the read pump something to save.
LEMMA NickAckKeeps ==
  ASSUME IdInv, PumpNickAck
  PROVE  IdInv'
<1> USE DEF IdInv, PumpNickAck, fileVars, pumpVars, netVars, bounds, history
<1>0. sent' \in Seq(Packet) /\ answers' \in Seq(Packet) /\ incoming' \in Seq(Packet)
  <2>1. /\ sent \in Seq(Packet) /\ answers \in Seq(Packet) /\ incoming \in Seq(Packet)
        /\ nick \in Nick \cup {NoNick}
    BY DEF TypeOK
  <2>2. sent' \in Seq(Packet)
    BY <2>1, Queues, Requests
  <2>3. answers' \in Seq(Packet)
    BY <2>1, Queues
  <2>4. incoming' \in Seq(Packet)
    BY <2>1, Queues
  <2> QED
    BY <2>2, <2>3, <2>4
<1>1. TypeOK'
  BY <1>0, Queues DEF TypeOK, Held
<1>2. Held'
  BY Queues, Requests DEF TypeOK, Held, Account, Unreadable
<1>3. Counted'
  BY DEF TypeOK, Held, Counted
<1>4. Sound'
  BY DEF TypeOK, Held, Sound, Unreadable, Account
<1>5. {torn', clash', lockedOut'} \subseteq BOOLEAN /\ (lockedOut' => torn' \/ clash')
  OBVIOUS
<1> QED
  BY <1>1, <1>2, <1>3, <1>4, <1>5

-----------------------------------------------------------------------------
(* Theorems. *)

\* No step of the ui, the read pump or the relay breaks the invariant.
LEMMA StepKeeps == IdInv /\ [Next]_vars => IdInv'
<1> SUFFICES ASSUME IdInv, [Next]_vars PROVE IdInv'
  OBVIOUS
<1>1. CASE UNCHANGED vars
  BY <1>1 DEF vars, fileVars, pumpVars, netVars, bounds, history, IdInv, TypeOK, Held,
              Counted, Sound, Account
<1>2. ASSUME NEW flag \in Nick \cup {NoNick}, NEW reset \in BOOLEAN, Start(flag, reset)
      PROVE  IdInv'
  BY <1>2, StartKeeps
<1>3. CASE Load \/ Create \/ LoadFails \/ UiOpens \/ UiWrites \/ Connect \/ End
  BY <1>3, LoadKeeps, CreateKeeps, LoadFailsKeeps, UiOpensKeeps, UiWritesKeeps,
     ConnectKeeps, EndKeeps
<1>4. ASSUME NEW n \in Nick, Prompt(n) \/ Rename(n) \/ Whoami
      PROVE  IdInv'
  BY <1>4, AskKeeps
<1>5. CASE Switch \/ Accepts \/ Refuses
  BY <1>5, SwitchKeeps, RelayKeeps
<1>6. CASE PumpAuthAck \/ PumpNickAck \/ PumpOpens \/ PumpWrites \/ UpdateAuthAck
  BY <1>6, AuthAckKeeps, NickAckKeeps, PumpOpensKeeps, PumpWritesKeeps
<1>7. Nick # {}
  BY IdentityAssumption
<1> QED
  BY <1>1, <1>2, <1>3, <1>4, <1>5, <1>6, <1>7 DEF Next

\* The invariant holds throughout.
THEOREM Invariance == Spec => []IdInv
<1> QED
  BY Established, StepKeeps, PTL DEF Spec

\* The file, the identities and the queues keep their types.
THEOREM TypeCorrect == Spec => []TypeOK
<1>1. IdInv => TypeOK
  BY DEF IdInv
<1> QED
  BY <1>1, Invariance, PTL

\* No account is replaced without a reset, and the client is locked out only by a save
\* that was torn or mixed with another.
THEOREM AccountForEver == Spec => []IdentitySurvives
<1>1. IdInv => IdentitySurvives
  BY DEF IdInv, Counted, IdentitySurvives
<1> QED
  BY <1>1, Invariance, PTL

-----------------------------------------------------------------------------
(* The callsign everyone agrees on. *)

\* The callsign asked for last, which the relay will have granted once it has answered.
Goal == IF sent = <<>> THEN relayNick ELSE Last(sent).nick

\* A rename, or a login, that the client has not finished with.
RenameAhead == \E p \in ToSet(sent) \cup ToSet(answers) : p.type = "nick"
LoginAhead == (\E p \in ToSet(sent) \cup ToSet(answers) : p.type = "auth") \/ incoming # <<>>

\* The file holds the callsign asked for, under the account that main holds.
Good == file \in Account /\ file.account = mainId.account /\ file.nick = Goal

\* One account, whoever holds it, and nothing on the wire before the connection.
OneAccount ==
  /\ \A p \in ToSet(incoming) : p.type = "auth"
  /\ pump # "off" /\ file \in Account => file.account = mainId.account
  /\ ui \in {"open", "write"} => uiId.account = mainId.account
  /\ stage = "chat" => nick # NoNick
  /\ pump = "off" =>
       /\ sent = <<>> /\ answers = <<>> /\ incoming = <<>>
       /\ relayNick = NoNick /\ stage = "name" /\ ui # "idle"

\* The launch: what is saved is what the login will use.
Launched ==
  pump = "off" =>
    /\ ui \in {"open", "write"} /\ nick # NoNick => nick = uiId.nick
    /\ ui = "write" => file = Empty
    /\ ui = "connect" =>
         /\ file \in Account /\ file.account = mainId.account
         /\ nick # NoNick => file.nick = nick

\* The last answer under way is the relay's word.
Answered ==
  /\ answers # <<>> => Last(answers).nick = relayNick
  /\ answers = <<>> /\ incoming # <<>> => Last(incoming).nick = relayNick
  /\ sent = <<>> /\ answers = <<>> /\ incoming = <<>> /\ relayNick # NoNick => nick = relayNick

\* Whoever saves last, saves the callsign asked for last.
Saving ==
  /\ ui = "load" => wanted = Goal
  /\ ui \in {"open", "write"} => uiId.nick = Goal
  /\ ~RenameAhead /\ pump \in {"open", "write"} => mainId.nick = Goal
  /\ ~RenameAhead /\ pump = "write" => file = Empty \/ Good
  /\ ~RenameAhead /\ pump = "idle" =>
       \/ Good
       \/ ui = "load" /\ saves = 1 /\ file \in Account
       \/ ui = "open"
       \/ ui = "write" /\ file = Empty

\* A client that has no callsign of its own waits for the prompt.
Nameless ==
  /\ ui = "idle" /\ pump = "idle" /\ stage = "name"
  /\ answers = <<>> /\ incoming = <<>>
  /\ file \in Account /\ file.account = mainId.account

Agreed ==
  pump # "off" /\ ~refused /\ ~hasty =>
    /\ ~(RenameAhead \/ pump \in {"open", "write"}) \/ ~LoginAhead
    /\ Answered
    /\ IF Goal = NoNick THEN Nameless ELSE Saving

AgreeInv == IdInv /\ OneAccount /\ Launched /\ Agreed

\* A queue after one more packet, and without its first.
LEMMA Ends ==
  /\ ToSet(<<>>) = {}
  /\ \A p \in Packet : ToSet(<<p>>) = {p} /\ Last(<<p>>) = p /\ <<p>> # <<>>
  /\ \A q \in Seq(Packet) : \A p \in Packet :
       ToSet(Append(q, p)) = ToSet(q) \cup {p} /\ Last(Append(q, p)) = p /\ Append(q, p) # <<>>
  /\ \A q \in Seq(Packet) : q # <<>> =>
       /\ ToSet(q) = ToSet(Tail(q)) \cup {Head(q)}
       /\ Last(q) = IF Tail(q) = <<>> THEN Head(q) ELSE Last(Tail(q))
<1>1. ToSet(<<>>) = {}
  BY DEF ToSet
<1>2. ASSUME NEW p \in Packet
      PROVE  ToSet(<<p>>) = {p} /\ Last(<<p>>) = p /\ <<p>> # <<>>
  BY DEF ToSet, Last
<1>3. ASSUME NEW q \in Seq(Packet), NEW p \in Packet
      PROVE  ToSet(Append(q, p)) = ToSet(q) \cup {p} /\ Last(Append(q, p)) = p
             /\ Append(q, p) # <<>>
  <2>1. /\ Len(q) \in Nat /\ Len(Append(q, p)) = Len(q) + 1 /\ DOMAIN q = 1..Len(q)
        /\ DOMAIN Append(q, p) = 1..(Len(q) + 1)
        /\ \A i \in 1..Len(q) : Append(q, p)[i] = q[i]
        /\ Append(q, p)[Len(q) + 1] = p
    OBVIOUS
  <2>2. Last(Append(q, p)) = p /\ Append(q, p) # <<>>
    BY <2>1 DEF Last
  <2>3. ToSet(Append(q, p)) \subseteq ToSet(q) \cup {p}
    BY <2>1 DEF ToSet
  <2>4. p \in ToSet(Append(q, p))
    <3>1. Len(q) + 1 \in DOMAIN Append(q, p)
      BY <2>1
    <3> QED
      BY <2>1, <3>1 DEF ToSet
  <2>5. ASSUME NEW i \in DOMAIN q PROVE q[i] \in ToSet(Append(q, p))
    <3>1. i \in DOMAIN Append(q, p)
      BY <2>1
    <3> QED
      BY <2>1, <3>1 DEF ToSet
  <2>6. ToSet(q) \subseteq ToSet(Append(q, p))
    BY <2>5 DEF ToSet
  <2> QED
    BY <2>2, <2>3, <2>4, <2>6
<1>4. ASSUME NEW q \in Seq(Packet), q # <<>>
      PROVE  /\ ToSet(q) = ToSet(Tail(q)) \cup {Head(q)}
             /\ Last(q) = IF Tail(q) = <<>> THEN Head(q) ELSE Last(Tail(q))
  <2>1. PICK t \in Seq(Packet) : t = Tail(q)
    <3>1. Tail(q) \in Seq(Packet)
      BY <1>4
    <3> QED
      BY <3>1
  <2>2. /\ Len(q) \in Nat \ {0} /\ Len(t) = Len(q) - 1 /\ Head(q) = q[1]
        /\ \A i \in 1..Len(t) : t[i] = q[i + 1]
        /\ DOMAIN q = 1..Len(q) /\ DOMAIN t = 1..Len(t)
    BY <1>4, <2>1
  <2>3. Last(q) = IF t = <<>> THEN Head(q) ELSE Last(t)
    <3>1. CASE t = <<>>
      BY <2>2, <3>1 DEF Last
    <3>2. CASE t # <<>>
      <4>1. Len(t) \in 1..Len(t) /\ Len(t) + 1 = Len(q)
        BY <2>1, <2>2, <3>2
      <4> QED
        BY <2>2, <3>2, <4>1 DEF Last
    <3> QED
      BY <3>1, <3>2
  <2>4. ASSUME NEW i \in DOMAIN t PROVE t[i] \in ToSet(q)
    <3>1. i + 1 \in DOMAIN q /\ t[i] = q[i + 1]
      BY <2>2
    <3> QED
      BY <3>1 DEF ToSet
  <2>5. ASSUME NEW i \in DOMAIN q PROVE q[i] \in ToSet(t) \cup {Head(q)}
    <3>1. CASE i = 1
      BY <2>2, <3>1
    <3>2. CASE i # 1
      <4>1. i - 1 \in DOMAIN t /\ t[i - 1] = q[i]
        BY <2>2, <3>2
      <4> QED
        BY <4>1 DEF ToSet
    <3> QED
      BY <3>1, <3>2
  <2>6. Head(q) \in ToSet(q)
    BY <2>2 DEF ToSet
  <2> QED
    BY <2>1, <2>3, <2>4, <2>5, <2>6 DEF ToSet
<1> QED
  BY <1>1, <1>2, <1>3, <1>4

\* What is on the wire.
LEMMA Wire ==
  ASSUME IdInv
  PROVE  /\ sent \in Seq(Packet) /\ answers \in Seq(Packet) /\ incoming \in Seq(Packet)
         /\ relayNick \in Nick \cup {NoNick} /\ nick \in Nick \cup {NoNick}
         /\ sent # <<>> => Last(sent) \in Packet /\ Goal \in Nick
         /\ Goal \in Nick \cup {NoNick}
         /\ \A p \in Packet : p.nick \in Nick /\ p.type \in {"auth", "nick"}
<1>1. sent \in Seq(Packet) /\ answers \in Seq(Packet) /\ incoming \in Seq(Packet)
  BY DEF IdInv, TypeOK
<1>2. relayNick \in Nick \cup {NoNick} /\ nick \in Nick \cup {NoNick}
  BY DEF IdInv, TypeOK
<1>3. \A p \in Packet : p.nick \in Nick /\ p.type \in {"auth", "nick"}
  BY DEF Packet
<1>4. sent # <<>> => Last(sent) \in Packet
  BY <1>1 DEF Last
<1> QED
  BY <1>1, <1>2, <1>3, <1>4 DEF Goal

-----------------------------------------------------------------------------
(* The file. *)

\* A step that leaves the wire alone.
LEMMA Unheard ==
  ASSUME UNCHANGED <<sent, answers, incoming, relayNick>>
  PROVE  /\ Goal' = Goal
         /\ RenameAhead' = RenameAhead /\ LoginAhead' = LoginAhead
         /\ nick' = nick => (Answered' <=> Answered)
BY DEF Goal, RenameAhead, LoginAhead, Answered

\* A launch.
LEMMA StartAgrees ==
  ASSUME AgreeInv, IdInv', NEW flag \in Nick \cup {NoNick}, NEW reset \in BOOLEAN, Start(flag, reset)
  PROVE  OneAccount' /\ Launched' /\ Agreed'
<1> USE DEF AgreeInv, Start, fileVars, pumpVars, netVars
<1>1. pump' = "off"
  BY DEF IdInv, Held
<1>2. OneAccount'
  BY <1>1 DEF OneAccount
<1> QED
  BY <1>1, <1>2 DEF Launched, Agreed

\* LoadOrCreate and SetNickname: the callsign wanted is the one asked for.
LEMMA LoadAgrees ==
  ASSUME AgreeInv, IdInv', Load
  PROVE  OneAccount' /\ Launched' /\ Agreed'
<1> USE DEF AgreeInv
<1>1. PICK own \in Nick \cup {NoNick} :
        /\ own \in {file.nick, NoNick}
        /\ ui = "load" /\ file \in Account
        /\ uiId' = [file EXCEPT !.nick = IF wanted \notin {NoNick, own} THEN wanted ELSE own]
        /\ saves' = saves + (IF wanted \notin {NoNick, own} THEN 1 ELSE 0)
        /\ ui' = IF saves' > 0 THEN "open" ELSE IF pump = "off" THEN "connect" ELSE "idle"
        /\ mainId' = IF pump = "off" THEN uiId' ELSE mainId
        /\ nick' = IF pump = "off" THEN uiId'.nick ELSE nick
        /\ UNCHANGED <<file, wanted, pump, stage, relayNick, sent, answers, incoming,
                       bounds, history>>
  <2>1. file \in Account
    BY DEF IdInv, Held, Load
  <2>2. PICK own : own = Own(file.nick)
    OBVIOUS
  <2>3. own \in Nick \cup {NoNick} /\ own \in {file.nick, NoNick}
    BY <2>1, <2>2 DEF Own, Account
  <2> QED
    BY <2>1, <2>2, <2>3 DEF Load
<1>2. /\ uiId'.account = file.account
      /\ uiId'.nick = IF wanted \notin {NoNick, own} THEN wanted ELSE own
      /\ file.nick \in Nick /\ file.nick # NoNick
  BY <1>1, IdentityAssumption DEF Account
<1>3. Goal' = Goal /\ RenameAhead' = RenameAhead /\ LoginAhead' = LoginAhead
      /\ (nick' = nick => (Answered' <=> Answered))
  BY <1>1, Unheard
<1>4. born' = born /\ saves \in {0, 1} /\ (saves = 1 => wanted \in Nick) /\ wanted \in Nick \cup {NoNick}
  BY <1>1 DEF IdInv, Held, TypeOK, bounds
<1>5. OneAccount'
  BY <1>1, <1>2, <1>4 DEF OneAccount, Account
<1>6. Launched'
  <2> SUFFICES ASSUME pump = "off" PROVE Launched'
    BY <1>1 DEF Launched
  <2>1. ui' = "connect" => wanted \in {NoNick, own} /\ uiId'.nick = own
    BY <1>1, <1>2, <1>4
  <2> QED
    BY <1>1, <1>2, <1>4, <2>1 DEF Launched, Account
<1>7. Agreed'
  <2> SUFFICES ASSUME pump # "off", ~refused, ~hasty PROVE Agreed'
    BY <1>1 DEF Agreed, history
  <2>1. Agreed /\ Goal # NoNick
    BY <1>1 DEF Agreed, Nameless
  <2>2. Saving /\ wanted = Goal
    BY <1>1, <2>1 DEF Agreed, Saving
  <2>3. uiId'.nick = Goal
    BY <1>2, <2>1, <2>2
  <2>4. Good' <=> Good
    BY <1>1, <1>3, <1>4 DEF Good, Account
  <2>5. ui' = "open" \/ (ui' = "idle" /\ saves = 0)
    BY <1>1, <1>4
  <2>6. Saving'
    BY <1>1, <1>3, <2>2, <2>3, <2>4, <2>5 DEF Saving
  <2> QED
    BY <1>1, <1>3, <2>1, <2>6 DEF Agreed
<1> QED
  BY <1>5, <1>6, <1>7

\* The first launch, or the one after a reset.
LEMMA CreateAgrees ==
  ASSUME AgreeInv, IdInv', Create
  PROVE  OneAccount' /\ Launched' /\ Agreed'
<1> USE DEF AgreeInv, Create
<1>1. pump = "off" /\ pump' = "off"
  BY DEF IdInv, Counted
<1>2. uiId'.account = mainId'.account /\ (nick' # NoNick => nick' = uiId'.nick)
  OBVIOUS
<1>3. OneAccount'
  BY <1>1, <1>2 DEF OneAccount
<1> QED
  BY <1>1, <1>2, <1>3 DEF Launched, Agreed

\* A file that is not read is about to be written by the read pump.
LEMMA LoadFailsAgrees ==
  ASSUME AgreeInv, IdInv', LoadFails
  PROVE  OneAccount' /\ Launched' /\ Agreed'
<1> USE DEF AgreeInv, LoadFails, pumpVars, netVars, bounds
<1>1. /\ Goal' = Goal /\ RenameAhead' = RenameAhead /\ LoginAhead' = LoginAhead
      /\ (Answered' <=> Answered)
  BY Unheard
<1>2. file \notin Account /\ (Good' <=> Good)
  BY <1>1, IdentityAssumption DEF IdInv, Held, Unreadable, Account, Good
<1>3. OneAccount' /\ Launched'
  BY <1>2 DEF OneAccount, Launched, Account
<1>4. Agreed'
  BY <1>1, <1>2 DEF Agreed, Saving, Good, Nameless
<1> QED
  BY <1>3, <1>4

\* The ui empties the file,
LEMMA UiOpensAgrees ==
  ASSUME AgreeInv, IdInv', UiOpens
  PROVE  OneAccount' /\ Launched' /\ Agreed'
<1> USE DEF AgreeInv, UiOpens, pumpVars, netVars, bounds
<1>1. /\ Goal' = Goal /\ RenameAhead' = RenameAhead /\ LoginAhead' = LoginAhead
      /\ (Answered' <=> Answered)
  BY Unheard
<1>2. Empty \notin Account'
  BY IdentityAssumption DEF Account, IdInv, TypeOK
<1>3. OneAccount' /\ Launched'
  BY <1>2 DEF OneAccount, Launched
<1>4. Agreed'
  BY <1>1, <1>2 DEF Agreed, Saving, Nameless
<1> QED
  BY <1>3, <1>4

\* and so does the read pump.
LEMMA PumpOpensAgrees ==
  ASSUME AgreeInv, IdInv', PumpOpens
  PROVE  OneAccount' /\ Launched' /\ Agreed'
<1> USE DEF AgreeInv, PumpOpens, netVars, bounds
<1>1. /\ Goal' = Goal /\ RenameAhead' = RenameAhead /\ LoginAhead' = LoginAhead
      /\ (Answered' <=> Answered)
  BY Unheard
<1>2. Empty \notin Account'
  BY IdentityAssumption DEF Account, IdInv, TypeOK
<1>3. OneAccount' /\ Launched'
  BY <1>2 DEF OneAccount, Launched
<1>4. Agreed'
  BY <1>1, <1>2 DEF Agreed, Saving, Nameless
<1> QED
  BY <1>3, <1>4

\* What is written over an empty file, or over the same callsign.
LEMMA Overwritten ==
  ASSUME IdInv, NEW id \in Account
  PROVE  /\ Written(id) \in {id, Corrupt} /\ Corrupt \notin Account
         /\ file = Empty \/ (file \in Account /\ file.nick = id.nick) => Written(id) = id
BY IdentityAssumption DEF Written, Account, Unreadable, IdInv, TypeOK

\* The ui writes the callsign asked for.
LEMMA UiWritesAgrees ==
  ASSUME AgreeInv, IdInv', UiWrites
  PROVE  OneAccount' /\ Launched' /\ Agreed'
<1> USE DEF AgreeInv, UiWrites, pumpVars, netVars, bounds, history
<1>1. /\ Goal' = Goal /\ RenameAhead' = RenameAhead /\ LoginAhead' = LoginAhead
      /\ (Answered' <=> Answered)
  BY Unheard
<1>2. /\ uiId \in Account /\ Account' = Account /\ saves \in 1..2
      /\ ui' \in {"open", "connect", "idle"} /\ (ui' = "connect" => pump = "off")
      /\ (ui' = "idle" => pump # "off")
  BY DEF IdInv, TypeOK, Account
<1>3. /\ file' \in {uiId, Corrupt} /\ Corrupt \notin Account
      /\ file = Empty \/ (file \in Account /\ file.nick = uiId.nick) => file' = uiId
  BY <1>2, Overwritten
<1>4. uiId.account = mainId.account
  BY DEF OneAccount
<1>5. OneAccount'
  BY <1>2, <1>3, <1>4 DEF OneAccount
<1>6. Launched'
  BY <1>2, <1>3, <1>4 DEF Launched
<1>7. Agreed'
  <2> SUFFICES ASSUME pump # "off", ~refused, ~hasty PROVE Agreed'
    BY DEF Agreed
  <2>1. Agreed /\ Goal # NoNick /\ Saving /\ uiId.nick = Goal
    BY DEF Agreed, Nameless, Saving
  <2>2. file = Empty \/ Good => Good'
    BY <1>1, <1>2, <1>3, <1>4, <2>1 DEF Good
  <2>3. Saving'
    BY <1>1, <1>2, <2>1, <2>2 DEF Saving
  <2> QED
    BY <1>1, <2>1, <2>3 DEF Agreed
<1> QED
  BY <1>5, <1>6, <1>7

\* The read pump writes main's callsign, the one asked for if no other rename is ahead.
LEMMA PumpWritesAgrees ==
  ASSUME AgreeInv, IdInv', PumpWrites
  PROVE  OneAccount' /\ Launched' /\ Agreed'
<1> USE DEF AgreeInv, PumpWrites, netVars, bounds, history
<1>1. /\ Goal' = Goal /\ RenameAhead' = RenameAhead /\ LoginAhead' = LoginAhead
      /\ (Answered' <=> Answered)
  BY Unheard
<1>2. mainId \in Account /\ Account' = Account
  BY DEF IdInv, TypeOK, Account
<1>3. /\ file' \in {mainId, Corrupt} /\ Corrupt \notin Account
      /\ file = Empty \/ (file \in Account /\ file.nick = mainId.nick) => file' = mainId
  BY <1>2, Overwritten
<1>4. OneAccount' /\ Launched'
  BY <1>2, <1>3 DEF OneAccount, Launched
<1>5. Agreed'
  <2> SUFFICES ASSUME ~refused, ~hasty PROVE Agreed'
    BY DEF Agreed
  <2>1. Agreed /\ Goal # NoNick /\ Saving
    BY DEF Agreed, Nameless
  <2>2. ~RenameAhead => Good'
    BY <1>1, <1>2, <1>3, <2>1 DEF Good, Saving
  <2>3. Saving'
    BY <1>1, <2>1, <2>2 DEF Saving
  <2> QED
    BY <1>1, <2>1, <2>3 DEF Agreed
<1> QED
  BY <1>4, <1>5

-----------------------------------------------------------------------------
(* The wire. *)

\* The first login.
LEMMA ConnectAgrees ==
  ASSUME AgreeInv, IdInv', Connect
  PROVE  OneAccount' /\ Launched' /\ Agreed'
<1> USE DEF AgreeInv, Connect, bounds, history
<1>1. /\ pump = "off" /\ answers' = <<>> /\ incoming' = <<>> /\ relayNick' = NoNick
      /\ stage' = "name" /\ file \in Account /\ file.account = mainId.account
      /\ (nick # NoNick => file.nick = nick) /\ nick' = nick /\ Account' = Account
      /\ mainId' = mainId /\ file' = file
  BY DEF IdInv, Held, OneAccount, Launched, Account
<1>2. OneAccount'
  BY <1>1, Ends DEF OneAccount
<1>3. Launched'
  BY DEF Launched
<1>4. Agreed'
  <2>1. CASE nick = NoNick
    <3>1. sent' = <<>> /\ Goal' = NoNick /\ ~RenameAhead' /\ ~LoginAhead'
      BY <1>1, <2>1, Ends DEF Goal, RenameAhead, LoginAhead
    <3> QED
      BY <1>1, <2>1, <3>1 DEF Agreed, Answered, Nameless
  <2>2. CASE nick # NoNick
    <3>1. PICK p \in Packet : p = [type |-> "auth", nick |-> nick]
      BY <2>2, Wire DEF Packet
    <3>2. sent' = <<p>> /\ p.type = "auth" /\ p.nick = nick
      BY <2>2, <3>1
    <3>3. sent' # <<>> /\ Goal' = nick /\ ~RenameAhead'
      BY <1>1, <3>2, Ends DEF Goal, RenameAhead
    <3>4. Good'
      BY <1>1, <2>2, <3>3 DEF Good
    <3> QED
      BY <1>1, <2>2, <3>3, <3>4 DEF Agreed, Answered, Saving
  <2> QED
    BY <2>1, <2>2
<1> QED
  BY <1>2, <1>3, <1>4

\* What an idle ui has asked for is what the file holds, unless a rename is ahead.
LEMMA IdleIsGood ==
  ASSUME AgreeInv, ui = "idle", pump = "idle", ~refused, ~hasty, ~RenameAhead
  PROVE  file \in Account /\ file.account = mainId.account /\ (Goal # NoNick => file.nick = Goal)
BY DEF AgreeInv, Agreed, Saving, Good, Nameless

\* The callsign prompt.
LEMMA PromptAgrees ==
  ASSUME AgreeInv, IdInv', NEW n \in Nick, Prompt(n)
  PROVE  OneAccount' /\ Launched' /\ Agreed'
<1> USE DEF AgreeInv, Prompt, Asking, Authenticate, pumpVars
<1>1. PICK p \in Packet : p = [type |-> "auth", nick |-> n]
  BY Requests
<1>2. sent' = Append(sent, p) /\ p.type = "auth" /\ p.nick = n
  BY <1>1
<1>3. /\ Goal' = n /\ sent' # <<>> /\ ToSet(sent') = ToSet(sent) \cup {p}
      /\ RenameAhead' = RenameAhead
  BY <1>2, Ends, Wire DEF Goal, RenameAhead
<1>4. n # NoNick /\ pump # "off"
  BY IdentityAssumption DEF OneAccount
<1>5. OneAccount' /\ Launched'
  BY <1>4 DEF OneAccount, Launched, Account
<1>6. Agreed'
  <2> SUFFICES ASSUME ~refused, ~hasty' PROVE Agreed'
    BY DEF Agreed
  <2>1. ~hasty /\ ~RenameAhead /\ pump = "idle"
    BY <1>4 DEF Unanswered, RenameAhead, IdInv, TypeOK
  <2>2. file \in Account
    BY <2>1, IdleIsGood
  <2>3. Agreed
    BY DEF AgreeInv
  <2>4. Answered'
    BY <1>3, <1>4, <2>1, <2>3 DEF Agreed, Answered
  <2>5. Saving'
    BY <1>3, <1>4, <2>1, <2>2 DEF Saving, Account
  <2> QED
    BY <1>3, <1>4, <2>1, <2>4, <2>5 DEF Agreed
<1> QED
  BY <1>5, <1>6

\* /nick.
LEMMA RenameAgrees ==
  ASSUME AgreeInv, IdInv', NEW n \in Nick, Rename(n)
  PROVE  OneAccount' /\ Launched' /\ Agreed'
<1> USE DEF AgreeInv, Rename, Asking, ChangeNick, pumpVars
<1>1. PICK p \in Packet : p = [type |-> "nick", nick |-> n]
  BY Requests
<1>2. sent' = Append(sent, p) /\ p.type = "nick" /\ p.nick = n
  BY <1>1
<1>3. /\ Goal' = n /\ sent' # <<>> /\ ToSet(sent') = ToSet(sent) \cup {p}
      /\ RenameAhead'
      /\ LoginAhead' = LoginAhead
  BY <1>2, Ends, Wire DEF Goal, RenameAhead, LoginAhead
<1>4. n # NoNick /\ pump # "off"
  BY IdentityAssumption DEF OneAccount
<1>5. OneAccount' /\ Launched'
  BY <1>4 DEF OneAccount, Launched, Account
<1>6. Agreed'
  <2> SUFFICES ASSUME ~refused, ~hasty' PROVE Agreed'
    BY DEF Agreed
  <2>1. ~hasty /\ ~LoginAhead
    <3>1. \A q \in ToSet(incoming) : q.type = "auth"
      BY DEF OneAccount
    <3>2. incoming # <<>> => Head(incoming) \in ToSet(incoming)
      BY Ends, Wire
    <3> QED
      BY <3>1, <3>2 DEF Unanswered, LoginAhead
  <2>2. Agreed
    BY DEF AgreeInv
  <2>3. Answered'
    BY <1>3, <1>4, <2>1, <2>2 DEF Agreed, Answered
  <2>4. Saving'
    BY <1>3 DEF Saving
  <2> QED
    BY <1>3, <1>4, <2>1, <2>3, <2>4 DEF Agreed
<1> QED
  BY <1>5, <1>6

\* Nothing unanswered: the client is idle and knows the callsign the relay granted.
LEMMA NothingAhead ==
  ASSUME AgreeInv, ui = "idle", ~refused, ~hasty, ~Unanswered("auth"), ~Unanswered("nick"),
         stage = "chat"
  PROVE  /\ sent = <<>> /\ answers = <<>> /\ incoming = <<>> /\ ~RenameAhead /\ ~LoginAhead
         /\ pump = "idle" /\ nick = relayNick /\ Goal = nick /\ nick \in Nick
         /\ Good
<1> USE DEF AgreeInv
<1>1. ASSUME NEW q \in Seq(Packet), q # <<>> PROVE Head(q) \in ToSet(q) /\ Head(q) \in Packet
  BY <1>1, Ends, Queues
<1>2. sent = <<>> /\ answers = <<>> /\ incoming = <<>>
  BY <1>1, Wire DEF Unanswered
<1>3. ~RenameAhead /\ ~LoginAhead
  BY <1>2, Ends DEF RenameAhead, LoginAhead
<1>4. pump = "idle"
  <2>1. pump # "off"
    BY DEF OneAccount
  <2> QED
    BY <2>1 DEF IdInv, TypeOK, Unanswered
<1>5. Goal # NoNick /\ Answered
  BY <1>4 DEF Agreed, Nameless
<1>6. Goal = nick /\ nick = relayNick
  BY <1>2, <1>5 DEF Goal, Answered
<1>7. Good
  BY <1>3, <1>4, <1>5, IdleIsGood DEF Good
<1> QED
  BY <1>2, <1>3, <1>4, <1>5, <1>6, <1>7, Wire

\* /whoami asks for what it has.
LEMMA WhoamiAgrees ==
  ASSUME AgreeInv, IdInv', Whoami
  PROVE  OneAccount' /\ Launched' /\ Agreed'
<1> USE DEF AgreeInv, Whoami, Asking, pumpVars
<1>1. /\ Goal' = Goal /\ RenameAhead' = RenameAhead /\ LoginAhead' = LoginAhead
      /\ (Answered' <=> Answered)
  BY Unheard
<1>2. pump # "off"
  BY DEF OneAccount
<1>3. OneAccount' /\ Launched'
  BY <1>2 DEF OneAccount, Launched, Account
<1>4. Agreed'
  <2> SUFFICES ASSUME ~refused, ~hasty' PROVE Agreed'
    BY DEF Agreed
  <2>1. ~hasty /\ pump = "idle" /\ Goal = nick /\ nick # NoNick /\ Good
    BY NothingAhead, IdentityAssumption
  <2>2. Good' /\ Agreed
    BY <1>1, <2>1 DEF Good, Account
  <2>3. Saving'
    BY <1>1, <2>1, <2>2 DEF Saving
  <2> QED
    BY <1>1, <2>1, <2>2, <2>3 DEF Agreed
<1> QED
  BY <1>3, <1>4

\* The login at another relay, under the same callsign.
LEMMA SwitchAgrees ==
  ASSUME AgreeInv, IdInv', Switch
  PROVE  OneAccount' /\ Launched' /\ Agreed'
<1> USE DEF AgreeInv, Switch, pumpVars, fileVars
<1>1. Account' = Account
  BY DEF Account
<1>2. OneAccount' /\ Launched'
  BY <1>1 DEF OneAccount, Launched
<1>3. Agreed'
  <2> SUFFICES ASSUME ~refused, ~hasty' PROVE Agreed'
    BY DEF Agreed
  <2>1. ~hasty /\ incoming = <<>> /\ Goal = nick /\ nick \in Nick /\ nick # NoNick /\ Good
    BY NothingAhead, IdentityAssumption
  <2>2. PICK p \in Packet : p = [type |-> "auth", nick |-> nick]
    BY <2>1, Requests
  <2>3. sent' = <<p>> /\ p.type = "auth" /\ p.nick = nick /\ answers' = <<>> /\ incoming' = <<>>
    BY <2>1, <2>2
  <2>4. sent' # <<>> /\ Goal' = nick /\ ~RenameAhead'
    BY <2>3, Ends DEF Goal, RenameAhead
  <2>5. Good'
    BY <1>1, <2>1, <2>4 DEF Good
  <2> QED
    BY <2>1, <2>3, <2>4, <2>5 DEF Agreed, Answered, Saving
<1> QED
  BY <1>2, <1>3

\* The relay grants the first request of the queue.
LEMMA AcceptsAgrees ==
  ASSUME AgreeInv, IdInv', Accepts
  PROVE  OneAccount' /\ Launched' /\ Agreed'
<1> USE DEF AgreeInv, Accepts, fileVars, pumpVars, bounds, history
<1>1. PICK h \in Packet : h = Head(sent)
  BY Wire, Queues
<1>2. /\ relayNick' = h.nick /\ sent' = Tail(sent) /\ sent # <<>>
      /\ answers' = Append(answers, h)
  BY <1>1
<1>3. /\ ToSet(sent) = ToSet(sent') \cup {h} /\ ToSet(answers') = ToSet(answers) \cup {h}
      /\ Last(answers') = h /\ answers' # <<>>
      /\ Last(sent) = IF sent' = <<>> THEN h ELSE Last(sent')
  BY <1>1, <1>2, Wire, Ends
<1>4. Goal' = Goal /\ RenameAhead' = RenameAhead /\ LoginAhead' = LoginAhead
  BY <1>2, <1>3 DEF Goal, RenameAhead, LoginAhead
<1>5. Goal # NoNick
  BY <1>2, Wire, IdentityAssumption
<1>6. pump # "off"
  BY <1>2 DEF OneAccount
<1>7. Good' <=> Good
  BY <1>4 DEF Good, Account
<1>8. OneAccount' /\ Launched'
  BY <1>6 DEF OneAccount, Launched, Account
<1>9. Answered'
  BY <1>2, <1>3 DEF Answered
<1>10. ~refused /\ ~hasty => Saving'
  BY <1>4, <1>5, <1>6, <1>7 DEF Agreed, Saving, Account
<1>11. Agreed'
  BY <1>4, <1>5, <1>6, <1>9, <1>10 DEF Agreed
<1> QED
  BY <1>8, <1>11

\* A refusal is reported.
LEMMA RefusesAgrees ==
  ASSUME AgreeInv, IdInv', Refuses
  PROVE  OneAccount' /\ Launched' /\ Agreed'
<1> USE DEF AgreeInv, Refuses, fileVars, pumpVars, bounds
<1>1. pump # "off"
  BY DEF OneAccount
<1> QED
  BY <1>1 DEF OneAccount, Launched, Account, Agreed

\* readPump passes an AuthAck on.
LEMMA PumpAuthAckAgrees ==
  ASSUME AgreeInv, IdInv', PumpAuthAck
  PROVE  OneAccount' /\ Launched' /\ Agreed'
<1> USE DEF AgreeInv, PumpAuthAck, fileVars, pumpVars, bounds, history
<1>1. PICK h \in Packet : h = Head(answers)
  BY Wire, Queues
<1>2. /\ nick' = h.nick /\ answers' = Tail(answers) /\ answers # <<>> /\ h.type = "auth"
      /\ incoming' = Append(incoming, h) /\ h.nick # NoNick
  BY <1>1, Wire, IdentityAssumption
<1>3. /\ ToSet(answers) = ToSet(answers') \cup {h} /\ ToSet(incoming') = ToSet(incoming) \cup {h}
      /\ Last(incoming') = h /\ incoming' # <<>>
      /\ Last(answers) = IF answers' = <<>> THEN h ELSE Last(answers')
  BY <1>1, <1>2, Wire, Ends
<1>4. Goal' = Goal /\ RenameAhead' = RenameAhead /\ LoginAhead
  BY <1>2, <1>3 DEF Goal, RenameAhead, LoginAhead
<1>5. Good' <=> Good
  BY <1>4 DEF Good, Account
<1>6. OneAccount' /\ Launched'
  BY <1>2, <1>3 DEF OneAccount, Launched, Account
<1>7. Agreed'
  <2> SUFFICES ASSUME ~refused, ~hasty PROVE Agreed'
    BY DEF Agreed
  <2>1. Agreed /\ Goal # NoNick
    BY <1>2 DEF Agreed, Nameless
  <2>2. Answered'
    BY <1>2, <1>3, <2>1 DEF Agreed, Answered
  <2>3. Saving'
    BY <1>4, <1>5, <2>1 DEF Agreed, Saving, Account
  <2> QED
    BY <1>4, <2>1, <2>2, <2>3 DEF Agreed
<1> QED
  BY <1>6, <1>7

\* A NickAck gives main the callsign that was granted, the last asked for if no other
\* rename is ahead.
LEMMA PumpNickAckAgrees ==
  ASSUME AgreeInv, IdInv', PumpNickAck
  PROVE  OneAccount' /\ Launched' /\ Agreed'
<1> USE DEF AgreeInv, PumpNickAck, fileVars, bounds, history
<1>1. PICK h \in Packet : h = Head(answers)
  BY Wire, Queues
<1>2. /\ nick' = h.nick /\ answers' = Tail(answers) /\ answers # <<>> /\ h.type = "nick"
      /\ h.nick # NoNick /\ mainId' = [mainId EXCEPT !.nick = h.nick]
  BY <1>1, Wire, IdentityAssumption
<1>3. mainId'.account = mainId.account /\ mainId'.nick = h.nick
  BY <1>2 DEF IdInv, Held
<1>4. /\ ToSet(answers) = ToSet(answers') \cup {h}
      /\ Last(answers) = IF answers' = <<>> THEN h ELSE Last(answers')
  BY <1>1, <1>2, Wire, Ends
<1>5. Goal' = Goal /\ RenameAhead /\ (LoginAhead' => LoginAhead)
  BY <1>2, <1>4 DEF Goal, RenameAhead, LoginAhead
<1>6. OneAccount' /\ Launched'
  BY <1>2, <1>3 DEF OneAccount, Launched, Account
<1>7. Agreed'
  <2> SUFFICES ASSUME ~refused, ~hasty PROVE Agreed'
    BY DEF Agreed
  <2>1. Agreed /\ Goal # NoNick /\ ~LoginAhead
    BY <1>2, <1>5 DEF Agreed, Nameless
  <2>2. incoming = <<>>
    BY <2>1 DEF LoginAhead
  <2>3. Answered'
    BY <1>2, <1>4, <2>1, <2>2 DEF Agreed, Answered
  <2>4. ASSUME ~RenameAhead' PROVE mainId'.nick = Goal
    <3>1. ASSUME NEW q \in Seq(Packet), q # <<>>
          PROVE  Head(q) \in ToSet(q) /\ Head(q).type \in {"auth", "nick"}
      BY <3>1, Ends, Queues, Wire
    <3>2. sent' = <<>> /\ answers' = <<>>
      <4>1. sent' \in Seq(Packet) /\ answers' \in Seq(Packet)
        BY Wire, Queues
      <4>2. ~LoginAhead'
        BY <1>5, <2>1
      <4> QED
        BY <3>1, <4>1, <4>2, <2>4 DEF RenameAhead, LoginAhead
    <3> QED
      BY <1>2, <1>3, <1>4, <2>1, <3>2 DEF Agreed, Answered, Goal
  <2>5. Saving'
    BY <1>5, <2>1, <2>4 DEF Agreed, Saving
  <2> QED
    BY <1>5, <2>1, <2>3, <2>5 DEF Agreed
<1> QED
  BY <1>6, <1>7

\* Update gets to an AuthAck.
LEMMA UpdateAuthAckAgrees ==
  ASSUME AgreeInv, IdInv', UpdateAuthAck
  PROVE  OneAccount' /\ Launched' /\ Agreed'
<1> USE DEF AgreeInv, UpdateAuthAck, fileVars, pumpVars, bounds, history
<1>1. PICK h \in Packet : h = Head(incoming)
  BY Wire, Queues
<1>2. nick' = h.nick /\ incoming' = Tail(incoming) /\ incoming # <<>> /\ h.nick # NoNick
  BY <1>1, Wire, IdentityAssumption
<1>3. /\ ToSet(incoming) = ToSet(incoming') \cup {h}
      /\ Last(incoming) = IF incoming' = <<>> THEN h ELSE Last(incoming')
  BY <1>1, <1>2, Wire, Ends
<1>4. Goal' = Goal /\ RenameAhead' = RenameAhead /\ LoginAhead
  BY <1>2 DEF Goal, RenameAhead, LoginAhead
<1>5. Good' <=> Good
  BY <1>4 DEF Good, Account
<1>6. pump # "off"
  BY <1>2 DEF OneAccount
<1>7. OneAccount' /\ Launched'
  BY <1>2, <1>3, <1>6 DEF OneAccount, Launched, Account
<1>8. Agreed'
  <2> SUFFICES ASSUME ~refused, ~hasty PROVE Agreed'
    BY DEF Agreed
  <2>1. Agreed /\ Goal # NoNick
    BY <1>2, <1>6 DEF Agreed, Nameless
  <2>2. Answered'
    BY <1>2, <1>3, <1>6, <2>1 DEF Agreed, Answered
  <2>3. Saving'
    BY <1>4, <1>5, <1>6, <2>1 DEF Agreed, Saving, Account
  <2> QED
    BY <1>4, <1>6, <2>1, <2>2, <2>3 DEF Agreed
<1> QED
  BY <1>7, <1>8

\* The end.
LEMMA EndAgrees ==
  ASSUME AgreeInv, IdInv', End
  PROVE  OneAccount' /\ Launched' /\ Agreed'
BY Ends DEF End, OneAccount, Launched, Agreed

\* Every step keeps the invariant.
LEMMA AgreeKeeps == AgreeInv /\ [Next]_vars => AgreeInv'
<1> SUFFICES ASSUME AgreeInv, [Next]_vars PROVE OneAccount' /\ Launched' /\ Agreed'
  BY StepKeeps DEF AgreeInv
<1>1. IdInv'
  BY StepKeeps DEF AgreeInv
<1>2. ASSUME NEW flag \in Nick \cup {NoNick}, NEW reset \in BOOLEAN, Start(flag, reset)
      PROVE  OneAccount' /\ Launched' /\ Agreed'
  BY <1>1, <1>2, StartAgrees
<1>3. CASE Load \/ Create \/ LoadFails \/ UiOpens \/ UiWrites
  BY <1>1, <1>3, LoadAgrees, CreateAgrees, LoadFailsAgrees, UiOpensAgrees, UiWritesAgrees
<1>4. CASE PumpOpens \/ PumpWrites \/ Connect \/ End
  BY <1>1, <1>4, PumpOpensAgrees, PumpWritesAgrees, ConnectAgrees, EndAgrees
<1>5. ASSUME NEW n \in Nick, Prompt(n) \/ Rename(n) PROVE OneAccount' /\ Launched' /\ Agreed'
  BY <1>1, <1>5, PromptAgrees, RenameAgrees
<1>6. CASE Whoami \/ Switch \/ Accepts \/ Refuses
  BY <1>1, <1>6, WhoamiAgrees, SwitchAgrees, AcceptsAgrees, RefusesAgrees
<1>7. CASE PumpAuthAck \/ PumpNickAck \/ UpdateAuthAck
  BY <1>1, <1>7, PumpAuthAckAgrees, PumpNickAckAgrees, UpdateAuthAckAgrees
<1>8. CASE UNCHANGED vars
  <2> USE <1>8 DEF vars, fileVars, pumpVars, netVars, bounds, history
  <2>1. /\ Goal' = Goal /\ RenameAhead' = RenameAhead /\ LoginAhead' = LoginAhead
        /\ (Answered' <=> Answered)
    BY Unheard
  <2>2. OneAccount' /\ Launched'
    BY DEF AgreeInv, OneAccount, Launched, Account
  <2>3. Agreed'
    BY <2>1 DEF AgreeInv, Agreed, Saving, Nameless, Good, Account
  <2> QED
    BY <2>2, <2>3
<1> QED
  BY <1>2, <1>3, <1>4, <1>5, <1>6, <1>7, <1>8 DEF Next

\* However the saves and the answers interleave, the relay, the client and the file end with
\* the same callsign under the same account.
THEOREM Agreement == Spec => []CallsignAgrees
<1>1. Init => AgreeInv
  BY Established, Ends, IdentityAssumption DEF Init, AgreeInv, OneAccount, Launched, Agreed
<1>2. AgreeInv => CallsignAgrees
  <2> SUFFICES ASSUME AgreeInv, Settled, ~refused, ~hasty, relayNick # NoNick
               PROVE  nick = relayNick /\ file = [account |-> mainId.account, nick |-> relayNick]
    BY DEF CallsignAgrees
  <2>1. Goal = relayNick /\ ~RenameAhead
    BY Ends DEF Settled, Goal, RenameAhead
  <2>2. file \in Account /\ file.account = mainId.account /\ file.nick = relayNick
    BY <2>1, IdleIsGood DEF Settled
  <2>3. nick = relayNick
    BY DEF AgreeInv, Agreed, Answered, Settled
  <2> QED
    BY <2>2, <2>3 DEF Account
<1> QED
  BY <1>1, <1>2, AgreeKeeps, PTL DEF Spec
=============================================================================
