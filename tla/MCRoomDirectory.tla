--------------------------- MODULE MCRoomDirectory ---------------------------
(* Small instance of RoomDirectory: a starter room and a private one that a user creates. *)
EXTENDS RoomDirectory
=============================================================================
