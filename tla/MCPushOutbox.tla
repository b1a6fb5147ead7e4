---------------------------- MODULE MCPushOutbox ----------------------------
(* Model values for PushOutbox. *)
EXTENDS PushOutbox

CONSTANTS m1, m2, w1, w2, d1

TwoMessages == {m1, m2}
OneMessage  == {m1}
TwoDrains   == {w1, w2}
OneDevice   == {d1}
=============================================================================
