----------------------------- MODULE MCPresence -----------------------------
(* Model values for Presence. *)
EXTENDS Presence

CONSTANTS c1, c2, g1, g2, d1, d2

TwoConns   == {c1, c2}
TwoNodes   == {g1, g2}
TwoDevices == {d1, d2}
OneDevice  == {d1}
=============================================================================
