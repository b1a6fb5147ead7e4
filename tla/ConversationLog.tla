--------------------------- MODULE ConversationLog ---------------------------
(***************************************************************************)
(* What a conversation promises its readers: messages are appended one at  *)
(* a time, each posted once, and the event stream announces the posts in   *)
(* the order of the log, a change of a message only after its post         *)
(* (docs/ARCHITECTURE.md, "Message ordering").                             *)
(***************************************************************************)
EXTENDS Naturals, Sequences

CONSTANT Message

VARIABLES log,     \* the messages in the order of their seq
          stream   \* the events announced: <<kind, message>>

Posted == {log[s] : s \in 1..Len(log)}

Init == log = << >> /\ stream = << >>

Post(i) ==
  /\ i \notin Posted
  /\ log' = Append(log, i)
  /\ stream' = Append(stream, <<"create", i>>)

Change(i, kind) ==
  /\ i \in Posted
  /\ stream' = Append(stream, <<kind, i>>)
  /\ UNCHANGED log

Next == \E i \in Message : Post(i) \/ \E kind \in {"update", "delete"} : Change(i, kind)

Spec == Init /\ [][Next]_<<log, stream>>
=============================================================================
