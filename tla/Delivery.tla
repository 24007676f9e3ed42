------------------------------- MODULE Delivery -------------------------------
(***************************************************************************)
(* What the client's connection promises the user, without saying how: a   *)
(* packet is shown after it was read and once; until the first switch of   *)
(* servers the packets are shown in the order they were read, and nothing  *)
(* can bring the program down.  ClientConn implements it                   *)
(* (ImplementsDelivery), with pumps, channels and waiters between reading  *)
(* and showing.                                                            *)
(***************************************************************************)
EXTENDS Naturals, Sequences

CONSTANTS
  Source,   \* the connections
  Original  \* the one there is before the first switch

VARIABLES
  read,      \* how many packets of each connection have been read
  shown,     \* the packets shown, in order
  switched,  \* the user has switched servers
  broken     \* the program has broken down

pvars == <<read, shown, switched, broken>>

Init ==
  /\ read = [k \in Source |-> 0]
  /\ shown = <<>>
  /\ switched = FALSE
  /\ broken = FALSE

Read(k) ==
  /\ read' = [read EXCEPT ![k] = @ + 1]
  /\ UNCHANGED <<shown, switched, broken>>

\* Packet n of connection k: read, not shown, and the next one if nothing was switched.
Show(k, n) ==
  LET e == [from |-> k, number |-> n]
  IN  /\ n \in 1..read[k]
      /\ \A m \in DOMAIN shown : shown[m] # e
      /\ ~switched => k = Original /\ n = Len(shown) + 1
      /\ shown' = Append(shown, e)
      /\ UNCHANGED <<read, switched, broken>>

Switch ==
  /\ switched' = TRUE
  /\ UNCHANGED <<read, shown, broken>>

\* After a switch, DisconnectChan may be closed twice.
Break ==
  /\ switched
  /\ broken' = TRUE
  /\ UNCHANGED <<read, shown, switched>>

Next ==
  /\ ~broken
  /\ \/ \E k \in Source : Read(k) \/ \E n \in 1..read[k] : Show(k, n)
     \/ Switch
     \/ Break

Spec == Init /\ [][Next]_pvars
=============================================================================
