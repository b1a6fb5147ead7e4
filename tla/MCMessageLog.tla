---------------------------- MODULE MCMessageLog ----------------------------
(* Model values and symmetry for MessageLog. *)
EXTENDS MessageLog, TLC

CONSTANTS p1, p2, p3, p4, u1, u2, n1, n2, nobody

MCProc  == {p1, p2, p3}
MCFour  == {p1, p2, p3, p4}
OneUser == {u1}
TwoUsers == {u1, u2}
TwoNonces == {n1, n2}
Symmetry == Permutations(Proc) \cup Permutations(User) \cup Permutations(Nonce)
=============================================================================
