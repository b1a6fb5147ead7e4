-------------------------- MODULE MCGatewaySession --------------------------
(* Model values and symmetry for GatewaySession. *)
EXTENDS GatewaySession, TLC

CONSTANTS c1, c2, c3, noSocket

MCSocket == {c1, c2, c3}
MCTwoSockets == {c1, c2}
Symmetry == Permutations(Socket)
=============================================================================
