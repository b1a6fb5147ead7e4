---------------------------- MODULE EventStream ----------------------------
(***************************************************************************)
(* What the gateway promises one session, without sockets or buffers: the  *)
(* session publishes events numbered 1, 2, 3, ... and the client processes *)
(* them in that order without leaving one out.  The stream may end: then   *)
(* the client has been told so (InvalidSession) and never hears from it    *)
(* again; it identifies afresh and reconciles over REST.                   *)
(***************************************************************************)
EXTENDS Naturals

VARIABLES published,  \* number of events the session has dispatched
          delivered,  \* highest event the client has processed
          over        \* the client has been told that the stream is lost

streamVars == <<published, delivered, over>>

Init == published = 0 /\ delivered = 0 /\ over = FALSE

Publish == published' = published + 1 /\ UNCHANGED <<delivered, over>>

Deliver == /\ ~over
           /\ delivered < published
           /\ delivered' = delivered + 1
           /\ UNCHANGED <<published, over>>

End == over' = TRUE /\ UNCHANGED <<published, delivered>>

Next == Publish \/ Deliver \/ End

Spec == Init /\ [][Next]_streamVars
=============================================================================
