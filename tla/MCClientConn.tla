---------------------------- MODULE MCClientConn -----------------------------
(* A client that may switch servers.  The channels are one long, so that a burst of two packets blocks a
   pump while the user switches. *)
EXTENDS ClientConn

TwoThenOne == <<2, 1>>
Silent == [k \in 1..MaxDials |-> 0]
=============================================================================
