------------------------------- MODULE MCCalls -------------------------------
(* Model values for Calls. *)
EXTENDS Calls

CONSTANTS a, b

Two    == {a, b}
Nobody == {}
=============================================================================
