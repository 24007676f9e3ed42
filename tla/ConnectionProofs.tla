-------------------------- MODULE ConnectionProofs ---------------------------
(* Proofs about one client's connection: Connection, for every queue size and number of
   frames in flight, and its RateLimiter, for every token cost and bucket capacity. *)
EXTENDS Connection, RateLimiter, TLAPS

-----------------------------------------------------------------------------
(* The pumps, the queue and Close. *)

\* Between the two halves of Close the client is marked already: with ClosedAsOne, and
\* with the mark and the channel never apart, this is inductive.
ConnInv ==
  /\ TypeOK
  /\ NeverPanics
  /\ isClosed = chanClosed
  /\ mu # "free" => isClosed = TRUE
  /\ ClosedAsOne

-----------------------------------------------------------------------------
\* The state in which the /ws handler starts the pumps satisfies the invariant.
LEMMA Established == Init => ConnInv
<1> SUFFICES ASSUME Init PROVE ConnInv
  OBVIOUS
<1>1. queued \in 0..QueueSize /\ arrived \in 0..InFlight
  BY ConnectionAssumption DEF Init
<1>2. TypeOK
  BY <1>1, Zenon DEF Init, TypeOK
<1>3. ~panicked
  BY Zenon DEF Init
<1>4. isClosed = FALSE /\ chanClosed = FALSE /\ mu = "free" /\ socket = "open"
  BY Zenon DEF Init
<1>5. ~(socket = "closed")
  BY <1>4
<1>6. ClosedAsOne
  BY <1>4, <1>5, Zenon DEF ClosedAsOne
<1> QED
  BY <1>2, <1>3, <1>4, <1>6, Zenon DEF ConnInv, NeverPanics

\* Marking the client closes the channel exactly once.
LEMMA FirstHalf ==
  ASSUME ConnInv, NEW p \in {"reader", "writer"}, CloseChan(p), UNCHANGED socket
  PROVE  /\ mu' \in {"free", "reader", "writer"}
         /\ isClosed' = TRUE /\ chanClosed' = TRUE /\ panicked' = FALSE
         /\ ClosedAsOne'
<1>1. isClosed' = TRUE /\ chanClosed' = TRUE
  BY DEF CloseChan
<1>2. panicked' = FALSE
  BY DEF CloseChan, ConnInv, TypeOK, NeverPanics
<1>3. CASE isClosed
  <2>1. mu' = "free" /\ socket = "closed"
    BY <1>3 DEF CloseChan, ConnInv, ClosedAsOne
  <2> QED
    BY <1>1, <1>2, <2>1, Zenon DEF ClosedAsOne
<1>4. CASE ~isClosed
  <2>1. mu' = p /\ p # "free"
    BY <1>4 DEF CloseChan
  <2> QED
    BY <1>1, <1>2, <2>1, Zenon DEF ClosedAsOne
<1> QED
  BY <1>3, <1>4

\* Closing the socket makes the close complete.
LEMMA SecondHalf ==
  ASSUME ConnInv, NEW p \in {"reader", "writer"}, CloseSocket(p),
         UNCHANGED <<isClosed, chanClosed>>
  PROVE  /\ mu' = "free" /\ socket' = "closed"
         /\ isClosed' = TRUE /\ chanClosed' = TRUE
         /\ ClosedAsOne'
<1>1. mu' = "free" /\ socket' = "closed" /\ mu = p /\ p # "free"
  BY DEF CloseSocket
<1>2. isClosed = TRUE /\ chanClosed = TRUE
  BY <1>1, Zenon DEF ConnInv
<1> QED
  BY <1>1, <1>2, Zenon DEF ClosedAsOne

\* A step that leaves the lock, the marks and the socket alone preserves what is said of them.
LEMMA Untouched ==
  ASSUME ConnInv, UNCHANGED <<mu, isClosed, chanClosed, panicked, socket>>, TypeOK'
  PROVE  ConnInv'
BY Zenon DEF ConnInv, NeverPanics, ClosedAsOne

\* The steps of the pumps and the peer between two uses of the client's mark.
Quiet ==
  \/ ReadFrame \/ ReadFails \/ Handled \/ Deny \/ Unregistered
  \/ Take \/ PingDue \/ SeeChanClosed \/ WriteOk \/ WriteFails \/ Goodbye
  \/ PeerSends \/ PeerLost

\* They keep the queue and the frames in flight within their bounds.
LEMMA QuietStep ==
  ASSUME ConnInv, Quiet
  PROVE  ConnInv'
<1>1. UNCHANGED <<mu, isClosed, chanClosed, panicked, socket>>
  BY DEF Quiet, ReadFrame, ReadFails, Handled, Deny, Unregistered, Take, PingDue,
         SeeChanClosed, WriteOk, WriteFails, Goodbye, PeerSends, PeerLost
<1>2. TypeOK
  BY DEF ConnInv
<1>3. queued' \in 0..QueueSize /\ arrived' \in 0..InFlight
  BY <1>2, ConnectionAssumption
     DEF TypeOK, Quiet, ReadFrame, ReadFails, Handled, Deny, Unregistered, Take,
         PingDue, SeeChanClosed, WriteOk, WriteFails, Goodbye, PeerSends, PeerLost
<1>4. /\ reader' \in {"read", "handle", "denied", "unregister", "close", "done"}
      /\ writer' \in {"select", "write", "ping", "goodbye", "close", "done"}
      /\ peer' \in {"up", "gone", "silent"}
      /\ known' \in BOOLEAN
  BY <1>2
     DEF TypeOK, Quiet, ReadFrame, ReadFails, Handled, Deny, Unregistered, Take,
         PingDue, SeeChanClosed, WriteOk, WriteFails, Goodbye, PeerSends, PeerLost
<1>5. TypeOK'
  BY <1>1, <1>2, <1>3, <1>4, Zenon DEF TypeOK
<1> QED
  BY <1>1, <1>5, Untouched

\* A Send finds the channel open whenever it does not find the client closed.
LEMMA SendStep ==
  ASSUME ConnInv, Send
  PROVE  ConnInv'
<1>1. isClosed = FALSE /\ chanClosed = FALSE /\ panicked = FALSE
  BY DEF Send, ConnInv, TypeOK, NeverPanics
<1>2. panicked' = FALSE
  BY <1>1, Zenon DEF Send
<1>3. UNCHANGED <<mu, isClosed, chanClosed, panicked, socket>>
  BY <1>1, <1>2 DEF Send
<1>4. queued' \in 0..QueueSize
  BY <1>1, ConnectionAssumption DEF Send, ConnInv, TypeOK
<1>5. UNCHANGED <<reader, writer, arrived, peer, known>>
  BY Zenon DEF Send
<1>6. TypeOK'
  BY <1>3, <1>4, <1>5, Zenon DEF ConnInv, TypeOK
<1> QED
  BY <1>3, <1>6, Untouched

\* A closing step of either half, whoever takes it, preserves the invariant.
LEMMA ClosingStep ==
  ASSUME ConnInv, NEW p \in {"reader", "writer"},
         \/ CloseChan(p) /\ UNCHANGED socket
         \/ CloseSocket(p) /\ UNCHANGED <<isClosed, chanClosed, panicked>>,
         UNCHANGED <<queued, arrived, peer, known>>,
         reader' \in {"read", "denied", "close", "done"} \/ UNCHANGED reader,
         writer' \in {"close", "done"} \/ UNCHANGED writer
  PROVE  ConnInv'
<1>1. /\ mu' \in {"free", "reader", "writer"}
      /\ isClosed' = TRUE /\ chanClosed' = TRUE /\ panicked' = FALSE
      /\ ClosedAsOne'
      /\ socket' \in {"open", "closed"}
  <2>1. CASE CloseChan(p) /\ UNCHANGED socket
    BY <2>1, FirstHalf, Zenon DEF ConnInv, TypeOK
  <2>2. CASE CloseSocket(p) /\ UNCHANGED <<isClosed, chanClosed, panicked>>
    <3>1. panicked' = FALSE
      BY <2>2 DEF ConnInv, NeverPanics, TypeOK
    <3>2. UNCHANGED <<isClosed, chanClosed>>
      BY <2>2
    <3> QED
      BY <2>2, <3>1, <3>2, SecondHalf
  <2> QED
    BY <2>1, <2>2
<1>2. /\ reader' \in {"read", "handle", "denied", "unregister", "close", "done"}
      /\ writer' \in {"select", "write", "ping", "goodbye", "close", "done"}
  BY DEF ConnInv, TypeOK
<1>3. TypeOK'
  BY <1>1, <1>2, Zenon DEF ConnInv, TypeOK
<1> QED
  BY <1>1, <1>3, Zenon DEF ConnInv, NeverPanics

-----------------------------------------------------------------------------
\* One step of any pump, sender, closer or of the peer preserves the invariant.
LEMMA Step == ConnInv /\ [Next]_vars => ConnInv'
<1> SUFFICES ASSUME ConnInv, [Next]_vars PROVE ConnInv'
  OBVIOUS
<1>1. CASE Quiet
  BY <1>1, QuietStep
<1>2. CASE Send
  BY <1>2, SendStep
<1>3. CASE DenyCloses
  <2>1. reader' \in {"read", "denied", "close", "done"} /\ UNCHANGED <<writer, queued, arrived, peer, known>>
    BY <1>3 DEF DenyCloses
  <2>2. \/ CloseChan("reader") /\ UNCHANGED socket
        \/ CloseSocket("reader") /\ UNCHANGED <<isClosed, chanClosed, panicked>>
    BY <1>3, Zenon DEF DenyCloses
  <2> QED
    BY <2>1, <2>2, ClosingStep
<1>4. CASE ReaderCloses
  <2>1. reader' \in {"read", "denied", "close", "done"} /\ UNCHANGED <<writer, queued, arrived, peer, known>>
    BY <1>4 DEF ReaderCloses
  <2>2. \/ CloseChan("reader") /\ UNCHANGED socket
        \/ CloseSocket("reader") /\ UNCHANGED <<isClosed, chanClosed, panicked>>
    BY <1>4, Zenon DEF ReaderCloses
  <2> QED
    BY <2>1, <2>2, ClosingStep
<1>5. CASE WriterCloses
  <2>1. writer' \in {"close", "done"} /\ UNCHANGED <<reader, queued, arrived, peer, known>>
    BY <1>5 DEF WriterCloses
  <2>2. \/ CloseChan("writer") /\ UNCHANGED socket
        \/ CloseSocket("writer") /\ UNCHANGED <<isClosed, chanClosed, panicked>>
    BY <1>5, Zenon DEF WriterCloses
  <2> QED
    BY <2>1, <2>2, ClosingStep
<1>6. CASE UNCHANGED vars
  <2>1. UNCHANGED <<mu, isClosed, chanClosed, panicked, socket>> /\ UNCHANGED <<reader, writer, queued, arrived, peer, known>>
    BY <1>6 DEF vars
  <2>2. TypeOK'
    BY <2>1, Zenon DEF ConnInv, TypeOK
  <2> QED
    BY <2>1, <2>2, Untouched
<1> QED
  BY <1>1, <1>2, <1>3, <1>4, <1>5, <1>6 DEF Next, Quiet

\* The invariant holds in every reachable state.
THEOREM Invariance == Spec => []ConnInv
BY Established, Step, PTL DEF Spec

\* The pumps stay at lines they have and the queue within its capacity.
THEOREM TypeCorrect == Spec => []TypeOK
<1>1. ConnInv => TypeOK
  BY DEF ConnInv
<1> QED
  BY <1>1, Invariance, PTL

\* Nobody sends on the closed SendChan and nobody closes it twice, however senders and
\* the three closers interleave.
THEOREM NoPanic == Spec => []NeverPanics
<1>1. ConnInv => NeverPanics
  BY DEF ConnInv
<1> QED
  BY <1>1, Invariance, PTL

\* Whoever takes c.mu finds the client open or closed as a whole.
THEOREM Whole == Spec => []ClosedAsOne
<1>1. ConnInv => ClosedAsOne
  BY DEF ConnInv
<1> QED
  BY <1>1, Invariance, PTL

-----------------------------------------------------------------------------
(* The token bucket. *)

\* What a call finds in the bucket is never negative nor above the capacity: the cap
\* of Allow's refill.
LEMMA RefilledRange ==
  ASSUME LimiterTypeOK
  PROVE  Refilled \in 0..Capacity
BY LimiterAssumption DEF LimiterTypeOK, Refilled

\* The count times the cost, after one more allowed call.
LEMMA OneMore ==
  ASSUME NEW n \in Nat
  PROVE  /\ n * Cost \in Nat
         /\ (n + 1) * Cost = n * Cost + Cost
         /\ 0 * Cost = 0
BY LimiterAssumption

\* A bucket below the cost of a token: what was spent covers all but that token.
LEMMA LessThanCost ==
  ASSUME NEW t \in Int, NEW c \in Int, NEW u \in Int, NEW f \in Int, NEW s \in Nat,
         NEW k \in Int, t = c + (u - f) - s, t < k
  PROVE  s + k > c + (u - f)
OBVIOUS

\* The bucket NewRateLimiter returns satisfies the invariant.
LEMMA LimiterEstablished == NewRateLimiter => LimiterInv
<1> SUFFICES ASSUME NewRateLimiter PROVE LimiterInv
  OBVIOUS
<1>1. LimiterTypeOK
  BY LimiterAssumption DEF NewRateLimiter, LimiterTypeOK
<1>2. Refilled = Capacity
  BY LimiterAssumption DEF NewRateLimiter, Refilled
<1>3. fullAt <= lastUpdate /\ Budget /\ Ledger
  BY <1>2, LimiterAssumption DEF NewRateLimiter, Budget, Ledger
<1> QED
  BY <1>1, <1>3 DEF LimiterInv

\* Time passing and every call keep the invariant.
LEMMA LimiterPreserved == LimiterInv /\ [LimiterNext]_limiterVars => LimiterInv'
<1> SUFFICES ASSUME LimiterInv, [LimiterNext]_limiterVars PROVE LimiterInv'
  OBVIOUS
<1> USE LimiterAssumption
<1>0. LimiterTypeOK /\ fullAt <= lastUpdate /\ Budget /\ Ledger
  BY DEF LimiterInv
<1>r. Refilled \in 0..Capacity
  BY <1>0, RefilledRange
<1>c. /\ counted * Cost \in Nat
      /\ (counted + 1) * Cost = counted * Cost + Cost
      /\ sinceFull * Cost \in Nat
      /\ (sinceFull + 1) * Cost = sinceFull * Cost + Cost
      /\ (0 + 1) * Cost = Cost
      /\ 0 * Cost = 0
  BY <1>0, OneMore DEF LimiterTypeOK
<1>1. CASE Tick
  <2>1. LimiterTypeOK' /\ (fullAt <= lastUpdate)' /\ Ledger'
    BY <1>0, <1>1 DEF LimiterTypeOK, Tick, Ledger
  <2>2. Refilled' <= Refilled + 1
    BY <1>0, <1>1 DEF LimiterTypeOK, Tick, Refilled
  <2>3. Refilled' \in Int
    BY <2>1, <1>1, <1>0 DEF LimiterTypeOK, Tick, Refilled
  <2>4. Budget'
    <3>1. counted' * Cost = counted * Cost /\ now' = now + 1 /\ mark' = mark
      BY <1>1 DEF Tick
    <3> QED
      BY <1>0, <1>c, <1>r, <2>2, <2>3, <3>1 DEF Budget, LimiterTypeOK
  <2> QED
    BY <2>1, <2>4 DEF LimiterInv
<1>2. CASE Allow
  <2>1. LimiterTypeOK'
    BY <1>0, <1>2, <1>r DEF LimiterTypeOK, Allow, SeeFull
  <2>2. Refilled' = Refilled - Cost
    <3>1. tokens' = Refilled - Cost /\ now' = lastUpdate'
      BY <1>2 DEF Allow
    <3>2. Refilled' = tokens'
      BY <2>1, <3>1 DEF Refilled, LimiterTypeOK
    <3> QED
      BY <3>1, <3>2
  <2>3. Budget'
    <3>1. counted' * Cost = counted * Cost + Cost /\ now' = now /\ mark' = mark
      BY <1>2, <1>c DEF Allow
    <3> QED
      BY <1>0, <1>c, <1>r, <2>2, <3>1 DEF Budget, LimiterTypeOK
  <2>4. (fullAt <= lastUpdate)' /\ Ledger'
    <3>1. CASE Refilled = Capacity
      BY <1>0, <1>2, <1>c, <3>1 DEF Allow, SeeFull, Ledger, LimiterTypeOK
    <3>2. CASE Refilled # Capacity
      <4>1. Refilled = tokens + (now - lastUpdate)
        BY <3>2, <1>0 DEF Refilled, LimiterTypeOK
      <4>2. sinceFull' * Cost = sinceFull * Cost + Cost
        BY <1>2, <1>c, <3>2 DEF Allow, SeeFull
      <4>3. fullAt' = fullAt /\ lastUpdate' = now /\ tokens' = Refilled - Cost
        BY <1>2, <3>2 DEF Allow, SeeFull
      <4> QED
        BY <1>0, <1>c, <4>1, <4>2, <4>3 DEF Ledger, LimiterTypeOK
    <3> QED
      BY <3>1, <3>2
  <2> QED
    BY <2>1, <2>3, <2>4 DEF LimiterInv
<1>3. CASE Refuse
  <2>1. LimiterTypeOK'
    BY <1>0, <1>3, <1>r DEF LimiterTypeOK, Refuse, SeeFull
  <2>2. Refilled' = Refilled
    <3>1. tokens' = Refilled /\ now' = lastUpdate'
      BY <1>3 DEF Refuse
    <3>2. Refilled' = tokens'
      BY <2>1, <3>1 DEF Refilled, LimiterTypeOK
    <3> QED
      BY <3>1, <3>2
  <2>3. Budget'
    BY <1>0, <1>3, <2>2 DEF Budget, Refuse
  <2>4. (fullAt <= lastUpdate)' /\ Ledger'
    <3>1. CASE Refilled = Capacity
      BY <1>0, <1>3, <1>c, <3>1 DEF Refuse, SeeFull, Ledger, LimiterTypeOK
    <3>2. CASE Refilled # Capacity
      <4>1. Refilled = tokens + (now - lastUpdate)
        BY <3>2, <1>0 DEF Refilled, LimiterTypeOK
      <4>2. sinceFull' = sinceFull
        BY <1>0, <1>3, <3>2 DEF Refuse, SeeFull, LimiterTypeOK
      <4>3. fullAt' = fullAt /\ lastUpdate' = now /\ tokens' = Refilled
        BY <1>3, <3>2 DEF Refuse, SeeFull
      <4> QED
        BY <1>0, <1>c, <4>1, <4>2, <4>3 DEF Ledger, LimiterTypeOK
    <3> QED
      BY <3>1, <3>2
  <2> QED
    BY <2>1, <2>3, <2>4 DEF LimiterInv
<1>4. CASE Mark
  <2>1. LimiterTypeOK' /\ (fullAt <= lastUpdate)' /\ Ledger'
    BY <1>0, <1>4 DEF LimiterTypeOK, Mark, Ledger
  <2>2. Refilled' = Refilled
    BY <1>4 DEF Mark, Refilled
  <2>3. Budget'
    BY <1>0, <1>4, <1>c, <1>r, <2>2 DEF Budget, Mark, LimiterTypeOK
  <2> QED
    BY <2>1, <2>3 DEF LimiterInv
<1>5. CASE UNCHANGED limiterVars
  BY <1>0, <1>5 DEF limiterVars, LimiterInv, LimiterTypeOK, Budget, Ledger, Refilled
<1> QED
  BY <1>1, <1>2, <1>3, <1>4, <1>5 DEF LimiterNext

\* The ledger of the bucket holds in every state.
THEOREM LimiterInvariance == LimiterSpec => []LimiterInv
BY LimiterEstablished, LimiterPreserved, PTL DEF LimiterSpec

\* The bucket is never in debt nor over its capacity.
THEOREM LimiterTypes == LimiterSpec => []LimiterTypeOK
<1>1. LimiterInv => LimiterTypeOK
  BY DEF LimiterInv
<1> QED
  BY LimiterInvariance, <1>1, PTL

\* The calls allowed since any moment fit in one burst and the refill since then.
THEOREM Burst == LimiterSpec => []BurstBound
<1>1. LimiterInv => BurstBound
  <2> SUFFICES ASSUME LimiterInv PROVE BurstBound
    OBVIOUS
  <2>1. Refilled \in 0..Capacity /\ counted * Cost \in Nat
    BY RefilledRange, OneMore DEF LimiterInv, LimiterTypeOK
  <2> QED
    BY <2>1, LimiterAssumption DEF LimiterInv, LimiterTypeOK, Budget, BurstBound
<1> QED
  BY LimiterInvariance, <1>1, PTL

\* Every refusal is accounted for by the calls allowed since the bucket was full.
THEOREM Justified == LimiterSpec => RefusalJustified
<1>1. LimiterInv /\ LimiterInv' /\ [LimiterNext]_limiterVars
        => [Refuse => (sinceFull' + 1) * Cost > Capacity + (now - fullAt')]_limiterVars
  <2> SUFFICES ASSUME LimiterInv, LimiterInv', Refuse
               PROVE  (sinceFull' + 1) * Cost > Capacity + (now - fullAt')
    OBVIOUS
  <2>1. Refilled < Cost /\ lastUpdate' = now /\ tokens' = Refilled
    BY DEF Refuse
  <2>2. tokens' = Capacity + (lastUpdate' - fullAt') - sinceFull' * Cost
    BY DEF LimiterInv, Ledger
  <2>3. sinceFull' \in Nat /\ fullAt' \in Int /\ lastUpdate' \in Int /\ tokens' \in Int
    BY DEF LimiterInv, LimiterTypeOK
  <2>4. sinceFull' * Cost \in Nat /\ (sinceFull' + 1) * Cost = sinceFull' * Cost + Cost
    BY <2>3, OneMore
  <2>5. Cost \in Int /\ Capacity \in Int
    BY LimiterAssumption
  <2>6. sinceFull' * Cost + Cost > Capacity + (lastUpdate' - fullAt')
    BY <2>1, <2>2, <2>3, <2>4, <2>5, LessThanCost
  <2> QED
    BY <2>1, <2>4, <2>6
<1> QED
  BY LimiterInvariance, <1>1, PTL DEF LimiterSpec, RefusalJustified
=============================================================================
