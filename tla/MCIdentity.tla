----------------------------- MODULE MCIdentity ------------------------------
(* Small instance of Identity: a short and a long callsign, and one that looks generated. *)
EXTENDS Identity

CONSTANTS neo, trinity, generated

Length == [n \in {neo, trinity, generated} |-> IF n = neo THEN 3 ELSE IF n = trinity THEN 7 ELSE 18]
=============================================================================
