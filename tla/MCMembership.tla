---------------------------- MODULE MCMembership ----------------------------
(* Model values for Membership. *)
EXTENDS Membership, TLC

CONSTANTS u0, u1, u2, r1, r2, r3

ThreeUsers    == {u0, u1, u2}
ThreeRequests == {r1, r2, r3}
Symmetry      == Permutations(ThreeRequests) \cup Permutations({u1, u2})
=============================================================================
