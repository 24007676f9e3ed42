---------------------------- MODULE MCConnection -----------------------------
(* One connection with a queue of two packets and one frame under way: the senders can fill it and the
   write pump can empty it while anybody closes. *)
EXTENDS Connection
=============================================================================
