---------------------------- MODULE MCRateLimiter ----------------------------
(* A bucket of three tokens and a third, each refilled in three ticks, watched for
   MaxTime ticks.  Between two ticks there may be any number of calls, of which at
   most the tokens in the bucket are allowed. *)
EXTENDS RateLimiter

CONSTANT MaxTime

Bounded == now <= MaxTime
=============================================================================
