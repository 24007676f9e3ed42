----------------------------- MODULE MCScreens --------------------------------
(* A short boot animation and lists of up to three entries, long enough to be filtered or read again
   shorter than the cursor. *)
EXTENDS Screens
=============================================================================
