----------------------------- MODULE MCSession -------------------------------
(* #general and one room, which can also be typed in another spelling and which others
   may create first, with either of two passphrases. *)
EXTENDS Session

CONSTANTS general, lair, Lair, k1, k2

AnyName == {general, lair, Lair}
RelayName == {general, lair}
LowerCase == [n \in AnyName |-> IF n = Lair THEN lair ELSE n]
=============================================================================
