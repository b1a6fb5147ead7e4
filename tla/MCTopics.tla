------------------------------ MODULE MCTopics ------------------------------
(* Topics on small instances. *)
EXTENDS Topics, TLC

CONSTANTS s1, s2

TwoSessions == {s1, s2}
Symmetric   == Permutations(TwoSessions)
=============================================================================
