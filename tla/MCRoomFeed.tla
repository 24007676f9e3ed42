----------------------------- MODULE MCRoomFeed ------------------------------
(* Small instance of RoomFeed: three clients move between #general and a room that may
   turn them away; two of them send a message each, more than the history holds, so
   that two broadcasts overlap with each other and with the third client's moves. *)
EXTENDS RoomFeed

CONSTANTS c1, c2, c3

Senders == [c \in {c1, c2, c3} |-> IF c = c3 THEN 0 ELSE 1]
=============================================================================
