-------------------------------- MODULE MCHub --------------------------------
(* Small instance of Hub: two connections, two callsigns one of which has two
   spellings, #general and two rooms that can be created with or without a password. *)
EXTENDS Hub, TLC

CONSTANTS c1, c2, general, lair, den

MCClient == {c1, c2}
MCNick == {"neo", "Neo", "trinity"}
MCLower == [n \in MCNick |-> IF n = "Neo" THEN "neo" ELSE n]
MCRoom == {general, lair, den}

Interchangeable == Permutations(MCClient) \cup Permutations({lair, den})
=============================================================================
