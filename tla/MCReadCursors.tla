---------------------------- MODULE MCReadCursors ----------------------------
(* Model values and symmetry for ReadCursors. *)
EXTENDS ReadCursors, TLC

CONSTANTS u1, u2, h1, h2

MCMember  == {u1, u2}
MCHandler == {h1, h2}
OneCold   == {u1}
HandlerSymmetry == Permutations(MCHandler)
=============================================================================
