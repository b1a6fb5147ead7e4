----------------------- MODULE GatewaySession_proofs -----------------------
(***************************************************************************)
(* Type correctness of GatewaySession, the ring buffer, the order of the   *)
(* frames on the wire, and that the session implements EventStream.        *)
(***************************************************************************)
EXTENDS GatewaySession, SequenceTheorems, TLAPS

USE SocketAssumption, BufferAssumption, MaxSeqAssumption DEF Attached

-----------------------------------------------------------------------------
(* Lemmas about the helpers.                                               *)

(* Frames sent keep the type of the wires, whatever happens to the client. *)
LEMMA SentType ==
  ASSUME TypeOK, NEW c \in Socket, NEW frames \in Seq(Frame)
  PROVE  Sent(c, frames) \in [Socket -> Seq(Frame)]
<1>1. wire[c] \o frames \in Seq(Frame)
  BY ConcatProperties DEF TypeOK
<1> QED
  BY <1>1 DEF TypeOK, Sent

(* CloseWith changes nothing but the readyState and the wire, and keeps    *)
(* their types.                                                            *)
LEMMA CloseWithType ==
  ASSUME TypeOK, NEW c \in Socket, NEW frames \in Seq(Frame), CloseWith(c, frames)
  PROVE  /\ conn' \in [Socket -> {"unused", "open", "closing", "closed"}]
         /\ wire' \in [Socket -> Seq(Frame)]
<1>1. Sent(c, frames) \in [Socket -> Seq(Frame)]
  BY SentType
<1> QED
  BY <1>1 DEF CloseWith, TypeOK

LEMMA CloseRiderType ==
  ASSUME TypeOK, NEW op \in Op, CloseRider(op)
  PROVE  /\ conn' \in [Socket -> {"unused", "open", "closing", "closed"}]
         /\ wire' \in [Socket -> Seq(Frame)]
         /\ socket' = None
<1>1. <<[op |-> op, s |-> 0]>> \in Seq(Frame)
  BY DEF Frame
<1>2. CASE socket = None
  BY <1>2 DEF CloseRider, TypeOK
<1>3. CASE socket # None
  <2>1. socket \in Socket /\ CloseWith(socket, <<[op |-> op, s |-> 0]>>)
    BY <1>3 DEF CloseRider, TypeOK
  <2> QED
    BY <2>1, <1>1, CloseWithType DEF CloseRider
<1> QED
  BY <1>2, <1>3

(* The ring buffer keeps the last events dispatched, without a hole.       *)
LEMMA PushedProperties ==
  ASSUME replay \in Seq(Nat), NEW n \in Nat, Contiguous(replay, n)
  PROVE  /\ Pushed(n + 1) \in Seq(Nat)
         /\ Pushed(n + 1) # << >>
         /\ Contiguous(Pushed(n + 1), n + 1)
<1>1. PICK longer : longer = Append(replay, n + 1)
  OBVIOUS
<1>2. /\ longer \in Seq(Nat)
      /\ Len(longer) = Len(replay) + 1
      /\ \A i \in 1..Len(replay) : longer[i] = replay[i]
      /\ longer[Len(replay) + 1] = n + 1
  BY <1>1, AppendProperties
<1>3. Len(replay) \in Nat
  BY LenProperties
<1>4. Contiguous(longer, n + 1)
  <2> SUFFICES ASSUME NEW i \in 1..Len(longer)
               PROVE  longer[i] = (n + 1) - Len(longer) + i
    BY DEF Contiguous
  <2>1. CASE i \in 1..Len(replay)
    BY <1>2, <1>3, <2>1 DEF Contiguous
  <2>2. CASE i = Len(replay) + 1
    BY <1>2, <1>3, <2>2
  <2> QED
    BY <1>2, <1>3, <2>1, <2>2
<1>5. CASE Len(longer) > BufferSize
  <2>1. Pushed(n + 1) = Tail(longer)
    BY <1>1, <1>5 DEF Pushed
  <2>2. longer # << >>
    BY <1>2, <1>3, EmptySeq
  <2>3. PICK t : t = Tail(longer)
    OBVIOUS
  <2>4. /\ t \in Seq(Nat)
        /\ Len(t) = Len(longer) - 1
        /\ \A i \in 1..(Len(longer) - 1) : t[i] = longer[i + 1]
    BY <1>2, <2>2, <2>3, HeadTailProperties
  <2>5. Contiguous(t, n + 1)
    BY <1>2, <1>3, <1>4, <2>4 DEF Contiguous
  <2>6. t # << >>
    BY <1>2, <1>3, <1>5, <2>4, EmptySeq
  <2> QED
    BY <2>1, <2>3, <2>4, <2>5, <2>6
<1>6. CASE ~(Len(longer) > BufferSize)
  <2>1. Pushed(n + 1) = longer
    BY <1>1, <1>6 DEF Pushed
  <2> QED
    BY <2>1, <1>2, <1>3, <1>4, EmptySeq
<1> QED
  BY <1>5, <1>6

(* A function on an initial segment of the numbers is a sequence.          *)
LEMMA FunctionIsSeq ==
  ASSUME NEW S, NEW m \in Nat, NEW f \in [1..m -> S]
  PROVE  f \in Seq(S) /\ Len(f) = m
OBVIOUS

(* A successful replay sends exactly the events after afterSeq, in order.  *)
LEMMA ReplayFramesProperties ==
  ASSUME replay \in Seq(Nat), seq \in Nat, Contiguous(replay, seq),
         NEW n \in Nat, Replayable(n)
  PROVE  /\ ReplayFrames(n) \in Seq(Frame)
         /\ n <= seq
         /\ Len(ReplayFrames(n)) = seq - n
         /\ \A i \in 1..(seq - n) :
              ReplayFrames(n)[i] = [op |-> "dispatch", s |-> n + i]
<1>1. Len(replay) \in Nat /\ n <= seq
  BY LenProperties DEF Replayable
<1> DEFINE first == n - (seq - Len(replay)) + 1
           After(k) == /\ \A i \in 1..Len(replay) : i < k => replay[i] <= n
                       /\ \A i \in 1..Len(replay) : i >= k => replay[i] > n
<1>2. first \in 1..(Len(replay) + 1)
  <2>1. CASE replay = << >>
    <3>1. Len(replay) = 0 /\ n >= seq
      BY <2>1 DEF Replayable
    <3> QED
      BY <3>1, <1>1
  <2>2. CASE replay # << >>
    <3>1. Len(replay) > 0 /\ Head(replay) = replay[1]
      BY <2>2, <1>1, EmptySeq
    <3>2. replay[1] = seq - Len(replay) + 1
      BY <3>1, <1>1 DEF Contiguous
    <3>3. n + 1 >= replay[1]
      BY <2>2, <3>1 DEF Replayable
    <3> QED
      BY <3>2, <3>3, <1>1
  <2> QED
    BY <2>1, <2>2
<1>3. After(first)
  BY SMTT(30), <1>1, <1>2 DEF Contiguous
<1>4. ASSUME NEW k \in 1..(Len(replay) + 1), After(k)
      PROVE  k = first
  <2>1. CASE k < first
    <3>1. k \in 1..Len(replay)
      BY <1>1, <1>2, <2>1
    <3>2. replay[k] > n
      BY <1>1, <1>4, <3>1
    <3>3. replay[k] = seq - Len(replay) + k
      BY <3>1 DEF Contiguous
    <3> QED
      BY <1>1, <2>1, <3>1, <3>2, <3>3
  <2>2. CASE k > first
    <3>1. first \in 1..Len(replay) /\ first < k
      BY <1>1, <1>2, <2>2
    <3>2. replay[first] <= n
      BY <1>4, <3>1
    <3>3. replay[first] > n
      BY <1>3, <3>1
    <3>4. replay[first] \in Nat
      BY <3>1
    <3> QED
      BY <3>2, <3>3, <3>4
  <2> QED
    BY SMTT(30), <1>1, <1>2, <2>1, <2>2
<1>5. FirstAfter(n) = first
  <2>1. FirstAfter(n) = CHOOSE k \in 1..(Len(replay) + 1) : After(k)
    BY DEF FirstAfter
  <2> HIDE DEF first, After
  <2>2. FirstAfter(n) \in 1..(Len(replay) + 1) /\ After(FirstAfter(n))
    BY <2>1, <1>2, <1>3
  <2> QED
    BY <2>2, <1>4
<1>6. /\ Len(replay) + 1 - FirstAfter(n) = seq - n
      /\ \A i \in 1..(seq - n) :
           /\ FirstAfter(n) + i - 1 \in 1..Len(replay)
           /\ replay[FirstAfter(n) + i - 1] = n + i
  BY <1>1, <1>2, <1>5 DEF Contiguous
<1>7. ReplayFrames(n) = [i \in 1..(seq - n) |-> [op |-> "dispatch", s |-> n + i]]
  BY <1>6, Zenon DEF ReplayFrames
<1>8. seq - n \in Nat
  BY <1>1
<1>9. \A i \in 1..(seq - n) : [op |-> "dispatch", s |-> n + i] \in Frame
  BY <1>8 DEF Frame, Op
<1>10. PICK frames : frames = [i \in 1..(seq - n) |-> [op |-> "dispatch", s |-> n + i]]
  OBVIOUS
<1>11. frames \in Seq(Frame) /\ Len(frames) = seq - n
  <2>1. frames \in [1..(seq - n) -> Frame]
    BY <1>9, <1>10, Zenon
  <2> QED
    BY <2>1, <1>8, FunctionIsSeq, Zenon
<1> QED
  BY <1>1, <1>7, <1>10, <1>11
-----------------------------------------------------------------------------
(* Type correctness, action by action.                                     *)

LEMMA TypeStep == TypeOK /\ Contiguous(replay, seq) /\ [Next]_vars => TypeOK'
<1> SUFFICES ASSUME TypeOK, Contiguous(replay, seq), [Next]_vars
             PROVE  TypeOK'
  OBVIOUS
<1> USE DEF server, link, client
<1>1. CASE Dispatch
  <2>1. seq + 1 \in Nat /\ Pushed(seq + 1) \in Seq(Nat)
    BY PushedProperties DEF TypeOK
  <2>2. <<[op |-> "dispatch", s |-> seq + 1]>> \in Seq(Frame)
    BY <2>1 DEF Frame, Op
  <2>3. ASSUME isConnected
        PROVE  Sent(socket, <<[op |-> "dispatch", s |-> seq + 1]>>) \in [Socket -> Seq(Frame)]
    BY <2>2, <2>3, SentType DEF isConnected, TypeOK
  <2>4. CASE UNCHANGED <<wire, conn, socket>>
    BY <1>1, <2>1, <2>4 DEF Dispatch, TypeOK
  <2>5. CASE /\ isConnected
             /\ wire' = Sent(socket, <<[op |-> "dispatch", s |-> seq + 1]>>)
             /\ UNCHANGED <<conn, socket>>
    BY <1>1, <2>1, <2>3, <2>5 DEF Dispatch, TypeOK
  <2>6. CASE CloseRider("close")
    <3>1. "close" \in Op
      BY DEF Op
    <3> QED
      BY <1>1, <2>1, <2>6, <3>1, CloseRiderType DEF Dispatch, TypeOK
  <2> QED
    BY <1>1, <2>4, <2>5, <2>6 DEF Dispatch
<1>2. CASE HeartbeatTimeout
  <2>1. "close" \in Op
    BY DEF Op
  <2> QED
    BY <1>2, <2>1, CloseRiderType DEF HeartbeatTimeout, TypeOK
<1>3. CASE Reap
  BY <1>3 DEF Reap, TypeOK
<1>4. CASE Evict
  <2>1. "fatal" \in Op
    BY DEF Op
  <2> QED
    BY <1>4, <2>1, CloseRiderType DEF Evict, TypeOK
<1>5. CASE NodeRestart
  BY <1>5 DEF NodeRestart, TypeOK, Request
<1>6. CASE Receive
  <2>1. csock \in Socket /\ wire[csock] \in Seq(Frame) /\ wire[csock] # << >>
    BY <1>6 DEF Receive, TypeOK
  <2>2. Head(wire[csock]) \in Frame /\ Tail(wire[csock]) \in Seq(Frame) /\ << >> \in Seq(Frame)
    BY <2>1, HeadTailProperties
  <2>3. Head(wire[csock]).s \in Nat
    BY <2>2 DEF Frame
  <2>4. wire' \in [Socket -> Seq(Frame)]
    BY <1>6, <2>1, <2>2 DEF Receive, TypeOK
  <2>5. cseq' \in Nat /\ high' \in Nat
    BY <1>6, <2>3 DEF Receive, TypeOK
  <2>6. /\ sessionId' \in {"none", "known", "dropped"}
        /\ csock' \in Socket \cup {None}
        /\ dead' \in [Socket -> BOOLEAN]
    BY <1>6 DEF Receive, TypeOK
  <2> QED
    BY <1>6, <2>4, <2>5, <2>6 DEF Receive, TypeOK
<1>7. ASSUME NEW c \in Socket, NEW s \in {"identifying", "greeted", "resuming", "done"}, Step(c, s)
      PROVE  request' \in [Socket -> Request]
  BY <1>7 DEF Step, TypeOK, Request
<1>8. ASSUME NEW n \in Nat, NEW op \in Op
      PROVE  <<[op |-> op, s |-> n]>> \in Seq(Frame)
  BY DEF Frame
<1>9. InvalidSession \in Seq(Frame)
  BY DEF InvalidSession, Frame, Op
<1>10. ASSUME NEW c \in Socket PROVE
         Retired(c) \in [Socket -> {"unused", "open", "closing", "closed"}]
  BY DEF Retired, TypeOK
<1>11. {"ready", "close", "fatal", "resumed"} \subseteq Op
  BY DEF Op
<1>12. ASSUME NEW c \in Socket, Handshake(c)
       PROVE  TypeOK'
  <2>1. CASE Reject(c)
    BY <1>7, <1>8, <1>11, <2>1, CloseWithType DEF Reject, TypeOK
  <2>2. CASE Identify(c)
    BY <1>7, <2>2 DEF Identify, TypeOK
  <2>3. CASE SendReady(c)
    <3>1. isConnected => Sent(socket, <<[op |-> "ready", s |-> seq]>>) \in [Socket -> Seq(Frame)]
      BY <1>8, <1>11, SentType DEF isConnected, TypeOK
    <3> QED
      BY <1>7, <2>3, <3>1 DEF SendReady, TypeOK
  <2>4. CASE FailHandshake(c)
    BY <1>7, <1>8, <1>11, <2>4, CloseWithType DEF FailHandshake, TypeOK
  <2>5. CASE RefuseResume(c)
    BY <1>7, <1>9, <2>5, CloseWithType DEF RefuseResume, TypeOK
  <2>6. CASE Resume(c)
    <3>1. request[c].seq \in Nat
      BY DEF TypeOK, Request
    <3>2. ReplayFrames(request[c].seq) \in Seq(Frame)
      BY <2>6, <3>1, ReplayFramesProperties DEF Resume, TypeOK
    <3>3. [op |-> "resumed", s |-> seq] \in Frame
      BY <1>11 DEF Frame, TypeOK
    <3>4. Append(ReplayFrames(request[c].seq), [op |-> "resumed", s |-> seq]) \in Seq(Frame)
      BY <3>2, <3>3, AppendProperties
    <3>5. Sent(c, Append(ReplayFrames(request[c].seq), [op |-> "resumed", s |-> seq]))
            \in [Socket -> Seq(Frame)]
      BY <3>4, SentType
    <3>6. wire' \in [Socket -> Seq(Frame)]
      BY <2>6, <3>5 DEF Resume, TypeOK
    <3>7. conn' \in [Socket -> {"unused", "open", "closing", "closed"}]
      BY <1>10, <2>6 DEF Resume
    <3> QED
      BY <1>7, <2>6, <3>6, <3>7 DEF Resume, TypeOK
  <2>7. CASE ResumeTooLate(c)
    <3>1. /\ Sent(c, InvalidSession) \in [Socket -> Seq(Frame)]
          /\ Retired(c) \in [Socket -> {"unused", "open", "closing", "closed"}]
          /\ [Retired(c) EXCEPT ![c] = "closing"] \in [Socket -> {"unused", "open", "closing", "closed"}]
      BY <1>9, <1>10, SentType
    <3> QED
      BY <1>7, <2>7, <3>1 DEF ResumeTooLate, TypeOK
  <2>8. CASE FinishHandshake(c)
    BY <1>7, <2>8 DEF FinishHandshake, TypeOK
  <2> QED
    BY <1>12, <2>1, <2>2, <2>3, <2>4, <2>5, <2>6, <2>7, <2>8 DEF Handshake
<1>13. ASSUME NEW c \in Socket, CloseSocket(c)
       PROVE  TypeOK'
  BY <1>8, <1>11, <1>13, CloseWithType DEF CloseSocket, TypeOK
<1>14. ASSUME NEW c \in Socket, CloseEvent(c)
       PROVE  TypeOK'
  BY <1>14 DEF CloseEvent, TypeOK
<1>15. ASSUME NEW c \in Socket, Open(c)
       PROVE  TypeOK'
  BY <1>15 DEF Open, TypeOK, Request
<1>16. ASSUME NEW c \in Socket, Lose(c)
       PROVE  TypeOK'
  <2>1. request' \in [Socket -> Request]
    BY <1>7, <1>16 DEF Lose, TypeOK
  <2>2. << >> \in Seq(Frame)
    OBVIOUS
  <2>3. wire' \in [Socket -> Seq(Frame)]
    BY <1>16, <2>2 DEF Lose, TypeOK
  <2> QED
    BY <1>16, <2>1, <2>3 DEF Lose, TypeOK
<1>17. CASE UNCHANGED vars
  BY <1>17 DEF vars, TypeOK
<1> QED
  BY <1>1, <1>2, <1>3, <1>4, <1>5, <1>6, <1>12, <1>13, <1>14, <1>15, <1>16, <1>17 DEF Next
-----------------------------------------------------------------------------
(* The smaller conjuncts of the inductive invariant.                       *)

LEMMA BufferStep == IInv /\ [Next]_vars => Contiguous(replay, seq)'
<1> SUFFICES ASSUME IInv, [Next]_vars
             PROVE  Contiguous(replay', seq')
  BY DEF Contiguous
<1> USE DEF server, link, client
<1>1. CASE Dispatch
  <2>1. replay' = Pushed(seq + 1) /\ seq' = seq + 1
    BY <1>1 DEF Dispatch
  <2> QED
    BY <2>1, PushedProperties DEF IInv, TypeOK
<1>2. CASE UNCHANGED <<replay, seq>>
  BY <1>2 DEF IInv, Contiguous
<1>3. ~Dispatch => UNCHANGED <<replay, seq>>
  BY DEF Next, vars, HeartbeatTimeout, Reap, Evict, NodeRestart, Receive, Handshake,
         Reject, Identify, SendReady, FailHandshake, RefuseResume, Resume,
         ResumeTooLate, FinishHandshake, CloseSocket, CloseEvent, Open, Lose
<1> QED
  BY <1>1, <1>2, <1>3

(* What the client reads next is an event it has seen or the next one.     *)
LEMMA ReceivedNext ==
  ASSUME IInv, Receive
  PROVE  /\ csock \in Socket
         /\ wire[csock] \in Seq(Frame) /\ wire[csock] # << >>
         /\ Head(wire[csock]) = wire[csock][1] /\ Head(wire[csock]) \in Frame
         /\ 1 \in 1..Len(wire[csock])
         /\ Head(wire[csock]).s <= seq
         /\ Head(wire[csock]).op = "dispatch" =>
              Head(wire[csock]).s <= high + 1
         /\ Head(wire[csock]).op \in Live => sessionId # "dropped"
         /\ Head(wire[csock]).op # "dispatch" => Head(wire[csock]).s <= high
<1>1. csock \in Socket /\ wire[csock] \in Seq(Frame) /\ wire[csock] # << >>
  BY DEF Receive, IInv, TypeOK
<1>2. Len(wire[csock]) \in Nat /\ Len(wire[csock]) # 0
  BY <1>1, LenProperties, EmptySeq
<1>3. Head(wire[csock]) = wire[csock][1] /\ Head(wire[csock]) \in Frame
  BY <1>1, HeadTailProperties
<1>4. InOrder(wire[csock], high, seq)
  BY <1>1, SocketAssumption DEF IInv, WireInv
<1>5. Before(wire[csock], 1, high) = high
  BY DEF Before
<1>6. 1 \in 1..Len(wire[csock])
  BY <1>2
<1>7. sessionId = "dropped" => wire[csock][1].op \notin Live
  BY <1>1, <1>6, SocketAssumption DEF IInv, WireInv, NoneLive
<1> QED
  BY <1>1, <1>3, <1>4, <1>5, <1>6, <1>7 DEF InOrder

LEMMA CursorStep == IInv /\ [Next]_vars => CursorInv'
<1> SUFFICES ASSUME IInv, [Next]_vars
             PROVE  CursorInv'
  OBVIOUS
<1> USE DEF server, link, client
<1>1. CASE Receive
  <2>1. Head(wire[csock]).s \in Nat
    BY <1>1, ReceivedNext DEF Frame
  <2> QED
    BY <1>1, <2>1, ReceivedNext DEF Receive, IInv, CursorInv, TypeOK
<1>2. CASE Dispatch
  BY <1>2 DEF Dispatch, IInv, CursorInv, TypeOK
<1>3. ~Receive /\ ~Dispatch => UNCHANGED <<cseq, high, seq>>
  BY DEF Next, vars, HeartbeatTimeout, Reap, Evict, NodeRestart, Handshake,
         Reject, Identify, SendReady, FailHandshake, RefuseResume, Resume,
         ResumeTooLate, FinishHandshake, CloseSocket, CloseEvent, Open, Lose
<1> QED
  BY <1>1, <1>2, <1>3 DEF IInv, CursorInv

(* A handshake step changes the entry of its own connection only.          *)
LEMMA StepProperties ==
  ASSUME TypeOK, NEW c \in Socket, NEW s, Step(c, s)
  PROVE  \A d \in Socket :
           /\ d # c => request'[d] = request[d]
           /\ d = c => request'[d].step = s /\ request'[d].seq = 0
BY DEF Step, TypeOK

(* Closing a socket never touches an unused or a closed one.               *)
LEMMA CloseWithConn ==
  ASSUME TypeOK, NEW c \in Socket, NEW frames, CloseWith(c, frames)
  PROVE  \A d \in Socket :
           /\ conn'[d] = "unused" <=> conn[d] = "unused"
           /\ conn'[d] = "open" => conn[d] = "open" /\ d # c
           /\ conn'[d] # conn[d] => d = c /\ conn[d] = "open"
           /\ wire'[d] # wire[d] => d = c /\ conn[d] = "open" /\ ~dead[d]
BY DEF CloseWith, TypeOK, Sent

LEMMA CloseRiderConn ==
  ASSUME TypeOK, NEW op, CloseRider(op)
  PROVE  /\ socket' = None
         /\ \A d \in Socket :
           /\ conn'[d] = "unused" <=> conn[d] = "unused"
           /\ conn'[d] = "open" => conn[d] = "open" /\ d # socket
           /\ conn'[d] # conn[d] => d = socket /\ conn[d] = "open"
           /\ wire'[d] # wire[d] => d = socket /\ conn[d] = "open" /\ ~dead[d]
<1>1. CASE socket = None
  BY <1>1 DEF CloseRider
<1>2. CASE socket # None
  <2>1. socket \in Socket /\ CloseWith(socket, <<[op |-> op, s |-> 0]>>)
    BY <1>2 DEF CloseRider, TypeOK
  <2> QED
    BY <2>1, CloseWithConn DEF CloseRider
<1> QED
  BY <1>1, <1>2
LEMMA IdleStep == IInv /\ [Next]_vars => IdleInv'
<1> SUFFICES ASSUME IInv, [Next]_vars, registered' = "no"
             PROVE  IdleInv'
  BY DEF IdleInv
<1> USE DEF server, link, client
<1>1. /\ registered = "no"
      /\ seq = 0 /\ socket = None /\ ~disconnected
      /\ \A c \in Socket : ~closure[c] /\ request[c].step \notin Attached
  BY DEF IInv, IdleInv, Next, vars, Dispatch, HeartbeatTimeout, Reap, Evict, NodeRestart,
         Receive, Handshake, Reject, Identify, SendReady, FailHandshake, RefuseResume,
         Resume, ResumeTooLate, FinishHandshake, CloseSocket, CloseEvent, Open, Lose
<1>2. CASE Receive
  BY <1>1, <1>2 DEF Receive, IdleInv
<1>3. ASSUME NEW c \in Socket, Reject(c) \/ RefuseResume(c)
      PROVE  IdleInv'
  <2>1. \E t : Step(c, t) /\ t = "done"
    BY <1>3 DEF Reject, RefuseResume
  <2>2. \A d \in Socket : request'[d] = request[d] \/ request'[d].step = "done"
    BY <2>1, StepProperties DEF IInv
  <2> QED
    BY <1>1, <1>3, <2>2 DEF Reject, RefuseResume, IdleInv
<1>4. ASSUME NEW c \in Socket, CloseSocket(c) \/ CloseEvent(c)
      PROVE  IdleInv'
  BY <1>1, <1>4 DEF CloseSocket, CloseEvent, IdleInv
<1>5. ASSUME NEW c \in Socket, Open(c)
      PROVE  IdleInv'
  BY <1>1, <1>5 DEF Open, IdleInv, IInv, TypeOK
<1>6. ASSUME NEW c \in Socket, Lose(c)
      PROVE  IdleInv'
  <2>1. \A d \in Socket : request'[d] = request[d] \/ request'[d].step = "done"
    BY <1>6, StepProperties DEF Lose, IInv
  <2> QED
    BY <1>1, <1>6, <2>1 DEF Lose, IdleInv
<1>7. CASE UNCHANGED vars
  BY <1>1, <1>7 DEF vars, IdleInv
<1> QED
  BY <1>1, <1>2, <1>3, <1>4, <1>5, <1>6, <1>7
  DEF Next, Dispatch, HeartbeatTimeout, Reap, Evict, NodeRestart, Handshake, Identify,
      SendReady, FailHandshake, Resume, ResumeTooLate, FinishHandshake, isConnected

LEMMA UnusedStep == IInv /\ [Next]_vars => UnusedInv'
<1> SUFFICES ASSUME IInv, [Next]_vars
             PROVE  UnusedInv'
  OBVIOUS
<1> USE DEF server, link, client
<1>a. ASSUME NEW d \in Socket, conn'[d] = "unused"
      PROVE  /\ wire'[d] = << >> /\ request'[d].step = "none"
             /\ ~dead'[d] /\ ~closure'[d] /\ csock' # d /\ socket' # d
  <2> USE <1>a
  <2>1. conn[d] = "unused" =>
          /\ wire[d] = << >> /\ request[d].step = "none"
          /\ ~dead[d] /\ ~closure[d] /\ csock # d /\ socket # d
    BY DEF IInv, UnusedInv
  <2>2. TypeOK
    BY DEF IInv
  <2>3. ASSUME NEW c \in Socket, NEW s, Step(c, s), c # d
        PROVE  request'[d] = request[d]
    BY <2>2, <2>3 DEF Step, TypeOK
  <2>4. ASSUME NEW c \in Socket, request[c].step # "none"
        PROVE  conn[d] = "unused" => c # d
    BY <2>1, <2>4
  <2>5. CASE Dispatch
    BY <2>1, <2>2, <2>5, CloseRiderConn DEF Dispatch, isConnected, Sent, TypeOK
  <2>6. CASE HeartbeatTimeout \/ Evict
    BY <2>1, <2>2, <2>6, CloseRiderConn DEF HeartbeatTimeout, Evict
  <2>7. CASE Reap
    BY <2>1, <2>7 DEF Reap
  <2>8. CASE NodeRestart
    BY <2>1, <2>8 DEF NodeRestart
  <2>9. CASE Receive
    BY <2>1, <2>2, <2>9 DEF Receive, TypeOK
  <2>10. ASSUME NEW c \in Socket, Handshake(c)
         PROVE  /\ conn[d] = "unused" /\ d # c
                /\ wire'[d] = wire[d] /\ request'[d] = request[d]
                /\ UNCHANGED dead /\ closure'[d] = closure[d] /\ UNCHANGED csock
                /\ socket' \in {socket, c}
    <3>1. CASE Reject(c) \/ RefuseResume(c) \/ FailHandshake(c)
      BY <2>2, <2>3, <2>4, <3>1, CloseWithConn DEF Reject, RefuseResume, FailHandshake
    <3>2. CASE Identify(c) \/ FinishHandshake(c)
      BY <2>2, <2>3, <2>4, <3>2 DEF Identify, FinishHandshake, TypeOK
    <3>3. CASE SendReady(c)
      <4>1. conn[d] = "unused" /\ c # d
        BY <2>4, <3>3 DEF SendReady
      <4> QED
        BY <2>2, <2>3, <3>3, <4>1 DEF SendReady, isConnected, Sent, TypeOK
    <3>4. CASE Resume(c) \/ ResumeTooLate(c)
      <4>1. request[c].step # "none"
        BY <3>4 DEF Resume, ResumeTooLate
      <4>2. conn[d] = "unused" /\ c # d
        BY <2>2, <2>4, <3>4, <4>1 DEF Resume, ResumeTooLate, Retired, CloseWith, TypeOK
      <4> QED
        BY <2>2, <2>3, <3>4, <4>2 DEF Resume, ResumeTooLate, Sent, TypeOK
    <3> QED
      BY <2>10, <3>1, <3>2, <3>3, <3>4 DEF Handshake
  <2>11. ASSUME NEW c \in Socket, CloseSocket(c)
         PROVE  /\ conn[d] = "unused" /\ wire'[d] = wire[d]
                /\ UNCHANGED <<request, dead, closure, csock, socket>>
    BY <2>1, <2>2, <2>11, CloseWithConn DEF CloseSocket
  <2>12. ASSUME NEW c \in Socket, CloseEvent(c)
         PROVE  conn[d] = "unused" /\ UNCHANGED <<wire, request, dead, closure, csock>>
                /\ socket' \in {socket, None}
    BY <2>2, <2>12 DEF CloseEvent, TypeOK
  <2>13. ASSUME NEW c \in Socket, Open(c)
         PROVE  /\ conn[d] = "unused" /\ c # d /\ csock' # d
                /\ UNCHANGED <<wire, dead, closure, socket>> /\ request'[d] = request[d]
    BY <2>2, <2>13 DEF Open, TypeOK
  <2>14. ASSUME NEW c \in Socket, Lose(c)
         PROVE  /\ conn[d] = "unused" /\ csock' # d
                /\ UNCHANGED socket
                /\ wire'[d] = wire[d] /\ dead'[d] = dead[d] /\ closure'[d] = closure[d]
                /\ request'[d] = request[d]
    <3>1. conn[d] = "unused" /\ c # d
      BY <2>1, <2>14 DEF Lose
    <3> QED
      BY <2>2, <2>3, <2>14, <3>1, SocketAssumption DEF Lose, TypeOK
  <2>15. CASE UNCHANGED vars
    BY <2>1, <2>15 DEF vars
  <2> QED
    BY SocketAssumption, <2>1, <2>5, <2>6, <2>7, <2>8, <2>9, <2>10, <2>11, <2>12, <2>13, <2>14, <2>15 DEF Next
<1>b. sessionId' # "none" => \E d \in Socket : conn[d] # "unused"
  <2>1. CASE Receive
    BY <2>1 DEF Receive, IInv, TypeOK, UnusedInv
  <2>2. ~Receive => sessionId' = sessionId
    BY DEF Next, vars, HeartbeatTimeout, Reap, Evict, NodeRestart, Handshake, Dispatch,
           Reject, Identify, SendReady, FailHandshake, RefuseResume, Resume,
           ResumeTooLate, FinishHandshake, CloseSocket, CloseEvent, Open, Lose
  <2> QED
    BY <2>1, <2>2 DEF IInv, UnusedInv
<1>c. \A d \in Socket : conn'[d] = "unused" => conn[d] = "unused"
  <2> SUFFICES ASSUME NEW d \in Socket, conn'[d] = "unused"
               PROVE  conn[d] = "unused"
    OBVIOUS
  <2>1. TypeOK
    BY DEF IInv
  <2>2. ASSUME NEW c \in Socket, NEW frames, CloseWith(c, frames)
        PROVE  conn[d] = "unused"
    BY <2>1, <2>2, CloseWithConn
  <2>3. ASSUME NEW op, CloseRider(op)
        PROVE  conn[d] = "unused"
    BY <2>1, <2>3, CloseRiderConn
  <2> QED
    BY SMTT(30), <2>1, <2>2, <2>3
    DEF Next, vars, HeartbeatTimeout, Reap, Evict, NodeRestart, Receive, Dispatch, Handshake,
        Reject, Identify, SendReady, FailHandshake, RefuseResume, Resume, Retired,
        ResumeTooLate, FinishHandshake, CloseSocket, CloseEvent, Open, Lose, TypeOK
<1> QED
  BY <1>b, <1>a, <1>c DEF UnusedInv

LEMMA RiderStep == IInv /\ [Next]_vars => RiderInv'
<1> SUFFICES ASSUME IInv, [Next]_vars
             PROVE  RiderInv'
  OBVIOUS
<1> USE DEF server, link, client
<1>1. TypeOK /\ RiderInv /\ IdleInv
  BY DEF IInv
<1>2. ASSUME NEW op \in Op, CloseRider(op), UNCHANGED <<request, closure, disconnected>>,
             registered = "yes"
      PROVE  RiderInv'
  BY <1>1, <1>2, CloseRiderConn DEF RiderInv, Riding
<1>3. ASSUME UNCHANGED <<socket, disconnected, conn, request, closure>>,
             registered' \in {registered, "destroyed"}
      PROVE  RiderInv'
  BY <1>1, <1>3 DEF RiderInv, Riding
<1>4. "close" \in Op /\ "fatal" \in Op
  BY DEF Op
<1>5. CASE Dispatch \/ HeartbeatTimeout \/ Reap \/ Evict \/ Receive
  <2>1. CASE Dispatch
    BY <1>2, <1>3, <1>4, <2>1 DEF Dispatch
  <2>2. CASE HeartbeatTimeout
    BY <1>2, <1>4, <2>2 DEF HeartbeatTimeout
  <2>3. CASE Reap
    BY <1>3, <2>3 DEF Reap
  <2>4. CASE Evict
    <3>1. UNCHANGED <<request, closure, disconnected>> /\ CloseRider("fatal") /\ registered = "yes"
      BY <2>4 DEF Evict
    <3> QED
      BY <1>2, <1>4, <3>1
  <2>5. CASE Receive
    BY <1>3, <2>5 DEF Receive
  <2> QED
    BY <1>5, <2>1, <2>2, <2>3, <2>4, <2>5
<1>6. CASE NodeRestart
  BY <1>6, <1>1 DEF NodeRestart, RiderInv
<1>7. ASSUME NEW c \in Socket, Handshake(c)
      PROVE  RiderInv'
  <2>1. CASE Reject(c) \/ RefuseResume(c)
    <3>1. Step(c, "done") /\ \E frames : CloseWith(c, frames)
      BY <2>1 DEF Reject, RefuseResume
    <3>2. \A d \in Socket : Riding(d)' => Riding(d)
      BY <1>1, <2>1, <3>1, StepProperties DEF Riding, Reject, RefuseResume
    <3>3. \A d \in Socket : conn'[d] = "open" => conn[d] = "open"
      BY <1>1, <3>1, CloseWithConn
    <3> QED
      BY <1>1, <2>1, <3>2, <3>3 DEF Reject, RefuseResume, RiderInv
  <2>2. CASE Identify(c)
    <3>1. \A d \in Socket : Riding(d)' => d = c
      BY <1>1, <2>2, StepProperties DEF Identify, Riding, IdleInv
    <3> QED
      BY <1>1, <2>2, <3>1 DEF Identify, RiderInv, IdleInv
  <2>3. CASE SendReady(c) \/ FinishHandshake(c)
    <3>1. \A d \in Socket : Riding(d)' => Riding(d)
      <4>1. /\ Riding(c)
            /\ Step(c, "greeted") \/ Step(c, "done")
            /\ closure' \in {closure, [closure EXCEPT ![c] = TRUE]}
        BY <2>3 DEF SendReady, FinishHandshake, Riding
      <4>2. \A d \in Socket \ {c} : request'[d] = request[d]
        BY <1>1, <4>1, StepProperties
      <4> QED
        BY <1>1, <4>1, <4>2 DEF Riding, TypeOK
    <3>2. UNCHANGED <<registered, socket, disconnected, conn>>
      BY <2>3 DEF SendReady, FinishHandshake
    <3> QED
      BY <1>1, <3>1, <3>2 DEF RiderInv
  <2>4. CASE FailHandshake(c)
    BY <1>1, <2>4 DEF FailHandshake, RiderInv
  <2>5. CASE Resume(c)
    <3>1. socket' = c /\ ~disconnected' /\ registered = "yes" /\ conn' = Retired(c)
      BY <2>5 DEF Resume
    <3>2. \A d \in Socket : Riding(d)' /\ d # c => Riding(d)
      BY <1>1, <2>5, StepProperties DEF Resume, Riding
    <3>3. \A d \in Socket : conn'[d] = "open" /\ d # c => conn[d] = "open" /\ d # socket
      BY <1>1, <3>1 DEF Retired, TypeOK
    <3> QED
      BY <1>1, <3>1, <3>2, <3>3 DEF RiderInv
  <2>6. CASE ResumeTooLate(c)
    BY <1>1, <2>6 DEF ResumeTooLate, RiderInv
  <2> QED
    BY <1>7, <2>1, <2>2, <2>3, <2>4, <2>5, <2>6 DEF Handshake
<1>8. ASSUME NEW c \in Socket, CloseSocket(c)
      PROVE  RiderInv'
  <2>1. \A d \in Socket : conn'[d] = "open" => conn[d] = "open"
    BY <1>1, <1>8, CloseWithConn DEF CloseSocket
  <2> QED
    BY <1>1, <1>8, <2>1 DEF CloseSocket, RiderInv, Riding
<1>9. ASSUME NEW c \in Socket, CloseEvent(c)
      PROVE  RiderInv'
  <2>1. \A d \in Socket : conn'[d] = "open" => conn[d] = "open" /\ d # c
    BY <1>1, <1>9 DEF CloseEvent, TypeOK
  <2>2. socket' = socket \/ (socket \in {c, None} /\ socket' = None)
    BY <1>9 DEF CloseEvent
  <2>3. disconnected' => socket' = None
    BY <1>1, <1>9 DEF CloseEvent, RiderInv
  <2> QED
    BY <1>1, <1>9, <2>1, <2>2, <2>3, SocketAssumption DEF CloseEvent, RiderInv, Riding
<1>10. ASSUME NEW c \in Socket, Open(c)
       PROVE  RiderInv'
  <2>1. \A d \in Socket : Riding(d)' => Riding(d) /\ d # c
    BY <1>1, <1>10 DEF Open, Riding, TypeOK, IInv, UnusedInv
  <2>2. \A d \in Socket : d # c => conn'[d] = conn[d]
    BY <1>1, <1>10 DEF Open, TypeOK
  <2> QED
    BY <1>1, <1>10, <2>1, <2>2 DEF Open, RiderInv
<1>11. ASSUME NEW c \in Socket, Lose(c)
       PROVE  RiderInv'
  <2>1. \A d \in Socket : Riding(d)' => Riding(d)
    BY <1>1, <1>11, StepProperties DEF Lose, Riding
  <2> QED
    BY <1>1, <1>11, <2>1 DEF Lose, RiderInv
<1>12. CASE UNCHANGED vars
  BY <1>3, <1>12 DEF vars
<1> QED
  BY <1>5, <1>6, <1>7, <1>8, <1>9, <1>10, <1>11, <1>12 DEF Next
-----------------------------------------------------------------------------
(* Lemmas about the order of frames on the wire.                           *)

LEMMA FrameFields ==
  ASSUME NEW w \in Seq(Frame), NEW i \in 1..Len(w)
  PROVE  w[i] \in Frame /\ w[i].s \in Nat
<1>1. w[i] \in Frame
  BY ElementOfSeq
<1> QED
  BY <1>1 DEF Frame

(* The frame before the i-th, or the client's own position.                *)
LEMMA BeforeIs ==
  ASSUME NEW w \in Seq(Frame), NEW i \in 1..Len(w), NEW h \in Nat
  PROVE  /\ Before(w, i, h) \in Nat
         /\ i = 1 => Before(w, i, h) = h
         /\ i > 1 => i - 1 \in 1..Len(w) /\ Before(w, i, h) = w[i - 1].s
<1>1. Len(w) \in Nat
  BY LenProperties
<1>2. i > 1 => i - 1 \in 1..Len(w)
  BY <1>1
<1>3. i = 1 \/ i > 1
  BY <1>1
<1> QED
  BY <1>2, <1>3, FrameFields DEF Before

LEMMA AppendInOrder ==
  ASSUME NEW w \in Seq(Frame), NEW f \in Frame, NEW h \in Nat,
         NEW n \in Nat, NEW m \in Nat, n <= m, InOrder(w, h, n), f.s <= m,
         f.op = "dispatch" => f.s <= Newest(w, h) + 1,
         f.op # "dispatch" => f.s <= Newest(w, h)
  PROVE  /\ w \o <<f>> \in Seq(Frame) /\ w \o <<f>> # << >>
         /\ InOrder(w \o <<f>>, h, m)
         /\ Newest(w \o <<f>>, h) = f.s
         /\ f.op \notin Live /\ EndIsLast(w) => EndIsLast(w \o <<f>>)
         /\ ~HasEnd(w) => EndIsLast(w \o <<f>>)
         /\ f.op \notin End /\ ~HasEnd(w) => ~HasEnd(w \o <<f>>)
<1>1. PICK v : v = w \o <<f>>
  OBVIOUS
<1>2. /\ v \in Seq(Frame) /\ Len(v) = Len(w) + 1
      /\ \A i \in 1..Len(w) : v[i] = w[i]
      /\ v[Len(w) + 1] = f
  BY <1>1, AppendProperties, AppendIsConcat
<1>3. Len(w) \in Nat /\ (w = << >> <=> Len(w) = 0)
  BY LenProperties, EmptySeq
<1>4. ASSUME NEW i \in 1..Len(v)
      PROVE  /\ v[i].s <= m
             /\ v[i].op = "dispatch" => v[i].s <= Before(v, i, h) + 1
             /\ v[i].op # "dispatch" => v[i].s <= Before(v, i, h)
  <2>1. CASE i \in 1..Len(w)
    <3>1. v[i] = w[i] /\ w[i].s \in Nat
      BY <1>2, <2>1, FrameFields
    <3>2. Before(v, i, h) = Before(w, i, h)
      <4>1. i > 1 => i - 1 \in 1..Len(w) /\ v[i - 1] = w[i - 1]
        BY <1>2, <1>3, <2>1
      <4>2. i = 1 \/ i > 1
        BY <1>3, <2>1
      <4> QED
        BY <4>1, <4>2 DEF Before
    <3> QED
      BY <2>1, <3>1, <3>2 DEF InOrder
  <2>2. CASE i = Len(w) + 1
    <3>1. v[i] = f /\ Before(v, i, h) = Newest(w, h)
      BY <1>2, <1>3, <2>2 DEF Before, Newest
    <3> QED
      BY <3>1
  <2> QED
    BY <1>2, <1>3, <2>1, <2>2
<1>5. InOrder(v, h, m)
  BY <1>4 DEF InOrder
<1>6. v # << >> /\ Newest(v, h) = f.s
  BY <1>2, <1>3, EmptySeq DEF Newest
<1>7. f.op \notin Live /\ EndIsLast(w) => EndIsLast(v)
  <2> SUFFICES ASSUME f.op \notin Live, EndIsLast(w), NEW i \in 1..Len(v), NEW j \in 1..Len(v),
                      v[i].op \in End, i < j
               PROVE  v[j].op \notin Live
    BY DEF EndIsLast
  <2>1. CASE j = Len(w) + 1
    BY <1>2, <2>1
  <2>2. CASE j \in 1..Len(w)
    <3>1. i \in 1..Len(w)
      BY <1>3, <2>2
    <3> QED
      BY <1>2, <2>2, <3>1 DEF EndIsLast
  <2> QED
    BY <1>2, <1>3, <2>1, <2>2
<1>8. ~HasEnd(w) => EndIsLast(v)
  BY <1>2, <1>3 DEF HasEnd, EndIsLast
<1>9. f.op \notin End /\ ~HasEnd(w) => ~HasEnd(v)
  BY <1>2, <1>3 DEF HasEnd
<1> QED
  BY <1>1, <1>2, <1>5, <1>6, <1>7, <1>8, <1>9

(* Closing frames may be queued behind anything.                           *)
ClosingFrames(g) == \A i \in 1..Len(g) : g[i].s = 0 /\ g[i].op \in End

LEMMA CloseInOrder ==
  ASSUME NEW w \in Seq(Frame), NEW g \in Seq(Frame), NEW h \in Nat, NEW n \in Nat,
         InOrder(w, h, n), EndIsLast(w), ClosingFrames(g)
  PROVE  /\ InOrder(w \o g, h, n) /\ EndIsLast(w \o g)
         /\ NoneLive(w) => NoneLive(w \o g)
<1>1. PICK v : v = w \o g
  OBVIOUS
<1>2. /\ v \in Seq(Frame) /\ Len(v) = Len(w) + Len(g)
      /\ \A i \in 1..Len(v) : v[i] = IF i <= Len(w) THEN w[i] ELSE g[i - Len(w)]
  BY <1>1, ConcatProperties
<1>3. Len(w) \in Nat /\ Len(g) \in Nat
  BY LenProperties
<1>4. \A i \in 1..Len(v) : i > Len(w) => v[i].s = 0 /\ v[i].op \in End
  BY <1>2, <1>3 DEF ClosingFrames
<1>5. \A i \in 1..Len(v) : v[i].s \in Nat
  BY <1>2, FrameFields
<1>6. ASSUME NEW i \in 1..Len(v)
      PROVE  /\ v[i].s <= n
             /\ v[i].op = "dispatch" => v[i].s <= Before(v, i, h) + 1
             /\ v[i].op # "dispatch" => v[i].s <= Before(v, i, h)
  <2>1. CASE i \in 1..Len(w)
    <3>1. v[i] = w[i] /\ Before(v, i, h) = Before(w, i, h)
      BY <1>2, <1>3, <2>1 DEF Before
    <3> QED
      BY <2>1, <3>1 DEF InOrder
  <2>2. CASE i > Len(w)
    <3>1. Before(v, i, h) \in Nat
      BY <1>2, <1>3, <1>5 DEF Before
    <3> QED
      BY <1>4, <2>2, <3>1 DEF End
  <2> QED
    BY <1>2, <1>3, <2>1, <2>2
<1>7. InOrder(v, h, n)
  BY <1>6 DEF InOrder
<1>8. \A i \in 1..Len(v) : i <= Len(w) => i \in 1..Len(w) /\ v[i] = w[i]
  BY <1>2, <1>3
<1>9. \A i \in 1..Len(v) : i > Len(w) => v[i].op \notin Live
  BY <1>4 DEF End, Live
<1>10. EndIsLast(v)
  <2> SUFFICES ASSUME NEW i \in 1..Len(v), NEW j \in 1..Len(v), v[i].op \in End, i < j
               PROVE  v[j].op \notin Live
    BY DEF EndIsLast
  <2>1. CASE j > Len(w)
    BY <1>9, <2>1
  <2>2. CASE j <= Len(w)
    <3>1. i <= Len(w)
      BY <1>2, <1>3, <2>2
    <3> QED
      BY <1>8, <2>2, <3>1 DEF EndIsLast
  <2> QED
    BY <1>2, <1>3, <2>1, <2>2
<1>11. NoneLive(w) => NoneLive(v)
  BY <1>2, <1>3, <1>8, <1>9 DEF NoneLive
<1> QED
  BY <1>1, <1>7, <1>10, <1>11

(* Reading a frame moves the client up to it.                              *)
LEMMA TailInOrder ==
  ASSUME NEW w \in Seq(Frame), w # << >>, NEW h \in Nat, NEW n \in Nat,
         InOrder(w, h, n), EndIsLast(w), NEW k \in Nat,
         k >= h, Head(w).op = "dispatch" => k >= Head(w).s
  PROVE  /\ InOrder(Tail(w), k, n) /\ EndIsLast(Tail(w))
         /\ Newest(Tail(w), k) >= Newest(w, h)
         /\ HasEnd(Tail(w)) => HasEnd(w)
         /\ NoneLive(w) \/ Head(w).op \in End => NoneLive(Tail(w))
<1>1. PICK v : v = Tail(w)
  OBVIOUS
<1>2. /\ v \in Seq(Frame) /\ Len(v) = Len(w) - 1 /\ Head(w) = w[1]
      /\ \A i \in 1..Len(v) : v[i] = w[i + 1]
  BY <1>1, HeadTailProperties
<1>3. Len(w) \in Nat /\ Len(w) > 0 /\ (v = << >> <=> Len(v) = 0)
  BY <1>2, LenProperties, EmptySeq
<1>4. \A i \in 1..Len(w) : w[i].s \in Nat
  BY FrameFields
<1>5. w[1].s <= k
  BY <1>2, <1>3, <1>4 DEF InOrder, Before
<1>6. ASSUME NEW i \in 1..Len(v)
      PROVE  /\ v[i].s <= n
             /\ v[i].op = "dispatch" => v[i].s <= Before(v, i, k) + 1
             /\ v[i].op # "dispatch" => v[i].s <= Before(v, i, k)
  <2>1. /\ i \in 1..Len(w) /\ i + 1 \in 1..Len(w) /\ i + 1 > 1 /\ (i + 1) - 1 = i
        /\ v[i] = w[i + 1] /\ i > 1 => i - 1 \in 1..Len(v) /\ (i - 1) + 1 = i
    BY <1>2, <1>3
  <2>2. Before(w, i + 1, h) = w[i].s
    BY <2>1 DEF Before
  <2>3. Before(v, i, k) >= w[i].s
    <3>1. CASE i = 1
      BY <1>2, <1>5, <3>1, BeforeIs
    <3>2. CASE i > 1
      <4>1. i - 1 \in 1..Len(v) /\ (i - 1) + 1 = i
        BY <1>2, <1>3, <3>2
      <4>2. v[i - 1] = w[i]
        BY <1>2, <4>1
      <4>3. Before(v, i, k) = w[i].s
        BY <3>2, <4>2 DEF Before
      <4> QED
        BY <1>4, <2>1, <4>3
    <3> QED
      BY <1>2, <1>3, <3>1, <3>2
  <2>4. /\ w[i + 1].s <= n
        /\ w[i + 1].op = "dispatch" => w[i + 1].s <= w[i].s + 1
        /\ w[i + 1].op # "dispatch" => w[i + 1].s <= w[i].s
    BY <2>1, <2>2 DEF InOrder
  <2>5. w[i].s \in Nat /\ w[i + 1].s \in Nat /\ Before(v, i, k) \in Nat
    BY <1>2, <2>1, FrameFields, BeforeIs
  <2>6. v[i] = w[i + 1]
    BY <1>2
  <2>7. PICK b \in Nat, p \in Nat, q \in Nat :
          b = Before(v, i, k) /\ p = w[i].s /\ q = w[i + 1].s
    BY <2>5
  <2>8. b >= p /\ q <= n /\ (w[i + 1].op = "dispatch" => q <= p + 1)
        /\ (w[i + 1].op # "dispatch" => q <= p)
    BY <2>3, <2>4, <2>7
  <2>9. q <= n /\ (w[i + 1].op = "dispatch" => q <= b + 1)
        /\ (w[i + 1].op # "dispatch" => q <= b)
    BY <2>8
  <2> QED
    BY <2>6, <2>7, <2>9
<1>7. InOrder(v, k, n)
  BY <1>6 DEF InOrder
<1>8. Newest(v, k) >= Newest(w, h)
  BY SMTT(30), <1>2, <1>3, <1>4, <1>5 DEF Newest
<1>9. /\ EndIsLast(v) /\ (HasEnd(v) => HasEnd(w))
      /\ NoneLive(w) \/ Head(w).op \in End => NoneLive(v)
  <2>1. \A i \in 1..Len(v) : i + 1 \in 1..Len(w) /\ v[i] = w[i + 1]
    BY <1>2, <1>3
  <2>2. 1 \in 1..Len(w) /\ \A i \in 1..Len(v) : 1 < i + 1
    BY <1>3
  <2>3. EndIsLast(v)
    <3> SUFFICES ASSUME NEW i \in 1..Len(v), NEW j \in 1..Len(v), v[i].op \in End, i < j
                 PROVE  v[j].op \notin Live
      BY DEF EndIsLast
    <3>1. i + 1 < j + 1
      BY <1>2, <1>3
    <3> QED
      BY <2>1, <3>1 DEF EndIsLast
  <2>4. HasEnd(v) => HasEnd(w)
    BY <2>1 DEF HasEnd
  <2>5. NoneLive(w) => NoneLive(v)
    BY <2>1 DEF NoneLive
  <2>6. Head(w).op \in End => NoneLive(v)
    BY <1>2, <2>1, <2>2 DEF EndIsLast, NoneLive
  <2> QED
    BY <2>3, <2>4, <2>5, <2>6
<1> QED
  BY <1>1, <1>7, <1>8, <1>9
-----------------------------------------------------------------------------
(* The wire of the client's current socket.                                *)

(* An action that leaves that socket alone, or only closes or attaches     *)
(* another one, keeps the invariant.                                       *)
LEMMA WireUntouched ==
  ASSUME IInv, csock' # None, csock' = csock, wire'[csock] = wire[csock],
         ~dead'[csock],
         \/ request'[csock] = request[csock]
         \/ request'[csock].step \notin {"identify", "resume"},
         conn'[csock] = "open" => conn[csock] = "open",
         request'[csock].step \in {"identify", "resume"} => socket' # csock,
         socket' = csock /\ conn'[csock] = "open" => socket = csock /\ seq' = seq,
         UNCHANGED <<cseq, high, sessionId>>, seq' \in {seq, seq + 1}
  PROVE  WireInv'
<1>1. csock \in Socket /\ wire[csock] \in Seq(Frame) /\ seq \in Nat /\ high \in Nat
  BY DEF IInv, TypeOK
<1>2. WireInv /\ csock # None
  BY DEF IInv
<1>3. InOrder(wire[csock], high, seq')
  <2>1. \A j \in 1..Len(wire[csock]) : wire[csock][j].s \in Nat
    BY <1>1, FrameFields
  <2> QED
    BY <1>1, <1>2, <2>1 DEF InOrder, WireInv
<1> QED
  BY <1>2, <1>3 DEF WireInv

(* Closing frames on the way to the client.                                *)
LEMMA WireClosed ==
  ASSUME IInv, csock # None, NEW c \in Socket, NEW g \in Seq(Frame), ClosingFrames(g),
         CloseWith(c, g)
  PROVE  /\ InOrder(wire'[csock], high, seq) /\ EndIsLast(wire'[csock])
         /\ NoneLive(wire[csock]) => NoneLive(wire'[csock])
         /\ conn'[csock] = "open" => conn[csock] = "open" /\ c # csock
         /\ conn'[csock] = "open" => wire'[csock] = wire[csock]
         /\ c # csock => wire'[csock] = wire[csock]
<1>1. csock \in Socket /\ wire[csock] \in Seq(Frame) /\ seq \in Nat /\ high \in Nat
  BY DEF IInv, TypeOK
<1>2. WireInv
  BY DEF IInv
<1>3. /\ InOrder(wire[csock], high, seq) /\ EndIsLast(wire[csock]) /\ ~dead[csock]
  BY <1>2 DEF WireInv
<1>4. wire'[csock] \in {wire[csock], wire[csock] \o g}
  BY SMTT(30), <1>1, <1>3 DEF CloseWith, Sent, IInv, TypeOK
<1>5. /\ InOrder(wire[csock] \o g, high, seq) /\ EndIsLast(wire[csock] \o g)
      /\ NoneLive(wire[csock]) => NoneLive(wire[csock] \o g)
  BY <1>1, <1>3, CloseInOrder
<1>6. /\ conn'[csock] = "open" => conn[csock] = "open" /\ c # csock
      /\ c # csock => wire'[csock] = wire[csock]
  BY <1>1, CloseWithConn DEF IInv
<1> QED
  BY <1>3, <1>4, <1>5, <1>6

LEMMA WireStepClose ==
  ASSUME IInv, csock' # None, csock' = csock, NEW c \in Socket, NEW g \in Seq(Frame),
         ClosingFrames(g), CloseWith(c, g), ~dead'[csock],
         \/ request'[csock] = request[csock] /\ c # csock
         \/ request'[csock].step \notin {"identify", "resume"},
         request'[csock].step \in {"identify", "resume"} => socket' # csock,
         socket' = csock => socket = csock \/ c = csock,
         UNCHANGED <<cseq, high, sessionId>>,
         seq' = seq \/ (seq' = seq + 1 /\ socket' # csock)
  PROVE  WireInv'
<1>1. csock \in Socket /\ wire[csock] \in Seq(Frame) /\ seq \in Nat /\ high \in Nat
  BY DEF IInv, TypeOK
<1>2. WireInv /\ csock # None
  BY DEF IInv
<1>3. /\ InOrder(wire'[csock], high, seq) /\ EndIsLast(wire'[csock])
      /\ NoneLive(wire[csock]) => NoneLive(wire'[csock])
      /\ conn'[csock] = "open" => conn[csock] = "open" /\ c # csock
      /\ conn'[csock] = "open" => wire'[csock] = wire[csock]
      /\ c # csock => wire'[csock] = wire[csock]
  BY <1>2, WireClosed
<1>4. wire'[csock] \in Seq(Frame)
  BY <1>1, CloseWithType DEF IInv
<1>5. InOrder(wire'[csock], high, seq')
  <2>1. \A j \in 1..Len(wire'[csock]) : wire'[csock][j].s \in Nat
    BY <1>4, FrameFields
  <2> QED
    BY <1>1, <1>3, <2>1 DEF InOrder
<1> QED
  BY <1>2, <1>3, <1>5 DEF WireInv
LEMMA WireStep == IInv /\ [Next]_vars => WireInv'
<1> SUFFICES ASSUME IInv, [Next]_vars, csock' # None
             PROVE  WireInv'
  BY DEF WireInv
<1> USE DEF server, link, client
<1>1. TypeOK /\ WireInv /\ CursorInv /\ UnusedInv /\ IdleInv
  BY DEF IInv
<1>2. ASSUME NEW op \in {"close", "fatal", "invalid"}
      PROVE  <<[op |-> op, s |-> 0]>> \in Seq(Frame) /\ ClosingFrames(<<[op |-> op, s |-> 0]>>)
  BY DEF Frame, Op, End, ClosingFrames
<1>3. InvalidSession \in Seq(Frame) /\ ClosingFrames(InvalidSession)
  BY DEF InvalidSession, Frame, Op, End, ClosingFrames
<1>4. ASSUME NEW op \in {"close", "fatal"}, CloseRider(op), csock' = csock,
             UNCHANGED <<dead, request, cseq, high, sessionId>>, seq' \in {seq, seq + 1},
             seq' = seq + 1 => isConnected
      PROVE  WireInv'
  <2>1. CASE socket = None
    BY <1>1, <1>4, <2>1 DEF CloseRider, WireInv, isConnected, WireUntouched
  <2>2. CASE socket # None
    <3>1. /\ socket \in Socket /\ CloseWith(socket, <<[op |-> op, s |-> 0]>>) /\ socket' = None
      BY <1>1, <1>4, <2>2 DEF CloseRider, TypeOK
    <3>2. csock \in Socket /\ csock # None /\ ~dead[csock]
      BY <1>1, <1>4 DEF TypeOK, WireInv
    <3>3. request[csock].step \in {"identify", "resume"} => socket # csock
      BY <1>1, <3>2 DEF WireInv
    <3> QED
      BY <1>2, <1>4, <3>1, <3>2, <3>3, WireStepClose
  <2> QED
    BY <2>1, <2>2
<1>5. CASE Dispatch
  <2>1. csock' = csock /\ csock \in Socket /\ seq' = seq + 1 /\ seq \in Nat /\ high \in Nat
        /\ UNCHANGED <<dead, request, cseq, high, sessionId>>
    BY <1>1, <1>5 DEF Dispatch, TypeOK
  <2>2. CASE ~isConnected /\ UNCHANGED <<wire, conn, socket>>
    BY <1>1, <2>1, <2>2, WireUntouched DEF isConnected, WireInv
  <2>3. CASE /\ isConnected
             /\ wire' = Sent(socket, <<[op |-> "dispatch", s |-> seq + 1]>>)
             /\ UNCHANGED <<conn, socket>>
    <3>1. CASE socket # csock
      <4>1. wire'[csock] = wire[csock]
        BY <1>1, <2>1, <2>3, <3>1 DEF Sent, isConnected, TypeOK
      <4> QED
        BY <1>1, <2>1, <2>3, <3>1, <4>1, WireUntouched DEF WireInv
    <3>2. CASE socket = csock
      <4> DEFINE f == [op |-> "dispatch", s |-> seq + 1]
                 w == wire[csock]
      <4>1. /\ ~dead[csock] /\ conn[csock] = "open" /\ InOrder(w, high, seq)
            /\ ~HasEnd(w) /\ Newest(w, high) >= seq /\ sessionId # "dropped"
            /\ request[csock].step \notin {"identify", "resume"}
        BY <1>1, <2>1, <2>3, <3>2 DEF WireInv, isConnected
      <4>2. wire'[csock] = w \o <<f>>
        BY <1>1, <2>1, <2>3, <3>2, <4>1 DEF Sent, TypeOK
      <4>3. w \in Seq(Frame) /\ f \in Frame /\ f.op = "dispatch" /\ f.s = seq + 1
        BY <1>1, <2>1 DEF TypeOK, Frame, Op
      <4>4. Newest(w, high) \in Nat
        <5>1. CASE w = << >>
          BY <2>1, <5>1 DEF Newest
        <5>2. CASE w # << >>
          <6>1. Len(w) \in 1..Len(w)
            BY <4>3, <5>2, LenProperties, EmptySeq
          <6>2. w[Len(w)].s \in Nat
            BY <4>3, <6>1, FrameFields
          <6> QED
            BY <5>2, <6>2 DEF Newest
        <5> QED
          BY <5>1, <5>2
      <4> HIDE DEF f, w
      <4>5. f.s <= Newest(w, high) + 1 /\ f.s <= seq + 1 /\ seq <= seq + 1 /\ seq + 1 \in Nat
        BY <2>1, <4>1, <4>3, <4>4
      <4>6. /\ InOrder(w \o <<f>>, high, seq + 1) /\ Newest(w \o <<f>>, high) = seq + 1
            /\ EndIsLast(w \o <<f>>) /\ ~HasEnd(w \o <<f>>)
        BY <2>1, <4>1, <4>3, <4>5, AppendInOrder DEF End
      <4>7. /\ UNCHANGED <<csock, dead, request, cseq, high, sessionId, conn, socket>>
            /\ seq' = seq + 1
        BY <2>1, <2>3
      <4>8. Newest(wire'[csock], high) >= seq'
        BY <2>1, <4>2, <4>6, <4>7
      <4> QED
        BY <4>1, <4>2, <4>6, <4>7, <4>8 DEF WireInv
    <3> QED
      BY <3>1, <3>2
  <2>4. CASE isConnected /\ CloseRider("close")
    BY <1>4, <2>1, <2>4
  <2> QED
    BY <1>5, <2>2, <2>3, <2>4 DEF Dispatch
<1>6. CASE HeartbeatTimeout \/ Evict
  <2>1. \E op \in {"close", "fatal"} : CloseRider(op)
    BY <1>6 DEF HeartbeatTimeout, Evict
  <2>2. csock' = csock /\ UNCHANGED <<dead, request, cseq, high, sessionId, seq>>
    BY <1>6 DEF HeartbeatTimeout, Evict
  <2>3. seq \in Nat /\ seq' # seq + 1
    BY <1>1, <2>2 DEF TypeOK
  <2> QED
    BY <1>4, <2>1, <2>2, <2>3
<1>7. CASE Reap \/ NodeRestart
  <2>1. /\ csock' = csock /\ csock \in Socket /\ csock # None /\ ~dead[csock]
        /\ UNCHANGED <<wire, dead, cseq, high, sessionId, seq>>
    BY <1>1, <1>7 DEF Reap, NodeRestart, WireInv, TypeOK
  <2>2. CASE Reap
    BY <1>1, <2>1, <2>2, WireUntouched DEF Reap, WireInv
  <2>3. CASE NodeRestart
    <3>1. request'[csock].step \notin {"identify", "resume"} /\ conn'[csock] # "open"
      BY <2>1, <2>3 DEF NodeRestart
    <3> QED
      BY <2>1, <3>1, WireUntouched
  <2> QED
    BY <1>7, <2>2, <2>3
<1>8. CASE Receive
  <2> DEFINE w == wire[csock]
             f == Head(w)
  <2>1. /\ csock \in Socket /\ w \in Seq(Frame) /\ w # << >> /\ f \in Frame
        /\ f.op = "dispatch" => f.s <= high + 1
        /\ f = w[1] /\ 1 \in 1..Len(w)
    BY <1>8, ReceivedNext
  <2>2. csock' = csock /\ f.op \notin {"close", "fatal"} /\ UNCHANGED dead
    BY <1>8 DEF Receive
  <2>3. /\ ~dead[csock] /\ InOrder(w, high, seq) /\ EndIsLast(w)
        /\ request[csock].step \notin {"identify", "resume"}
        /\ HasEnd(w) => conn[csock] # "open"
        /\ socket = csock /\ conn[csock] = "open" => Newest(w, high) >= seq
        /\ sessionId = "dropped" => conn[csock] # "open" /\ NoneLive(w)
    BY <1>1, <2>1, SocketAssumption DEF WireInv
  <2>4. wire'[csock] = Tail(w)
    BY <1>1, <1>8, <2>1, <2>2 DEF Receive, TypeOK
  <2>5. high \in Nat /\ high' \in Nat /\ seq \in Nat /\ f.s \in Nat
    BY <1>1, <1>8, <2>1 DEF Receive, TypeOK, Frame
  <2>6. high' >= high /\ (f.op = "dispatch" => high' >= f.s)
    BY <1>8, <2>5 DEF Receive
  <2>7. UNCHANGED <<server, conn, request>>
    BY <1>8 DEF Receive
  <2>8. sessionId' = "dropped" => sessionId = "dropped" \/ f.op = "invalid"
    BY <1>8, <2>2 DEF Receive
  <2>9. f.op = "invalid" => HasEnd(w) /\ f.op \in End
    BY <2>1 DEF HasEnd, End
  <2> HIDE DEF f, w
  <2>10. /\ InOrder(Tail(w), high', seq) /\ EndIsLast(Tail(w))
         /\ Newest(Tail(w), high') >= Newest(w, high)
         /\ HasEnd(Tail(w)) => HasEnd(w)
         /\ NoneLive(w) \/ Head(w).op \in End => NoneLive(Tail(w))
    BY <2>1, <2>3, <2>5, <2>6, TailInOrder DEF f
  <2>11. /\ Newest(w, high) \in Nat /\ Newest(Tail(w), high') \in Nat
    <3>1. Tail(w) \in Seq(Frame)
      BY <2>1, HeadTailProperties
    <3>2. \A v \in Seq(Frame) : v # << >> => v[Len(v)].s \in Nat
      <4> TAKE v \in Seq(Frame)
      <4> HAVE v # << >>
      <4>1. Len(v) \in 1..Len(v)
        BY LenProperties, EmptySeq
      <4> QED
        BY <4>1, FrameFields
    <3> QED
      BY <2>1, <2>5, <3>1, <3>2 DEF Newest
  <2>12. socket = csock /\ conn[csock] = "open" => Newest(Tail(w), high') >= seq
    BY <2>3, <2>5, <2>10, <2>11
  <2>13. sessionId' = "dropped" => conn[csock] # "open" /\ NoneLive(Tail(w))
    BY <2>3, <2>8, <2>9, <2>10 DEF f
  <2> QED
    BY <2>2, <2>3, <2>4, <2>7, <2>10, <2>12, <2>13 DEF WireInv
<1>9. ASSUME NEW c \in Socket, Handshake(c)
      PROVE  WireInv'
  <2>0. /\ csock' = csock /\ csock \in Socket /\ csock # None /\ ~dead[csock] /\ UNCHANGED dead
        /\ UNCHANGED <<cseq, high, sessionId, seq>>
        /\ seq \in Nat /\ high \in Nat /\ cseq \in Nat /\ wire[csock] \in Seq(Frame)
    BY <1>1, <1>9 DEF Handshake, Reject, Identify, SendReady, FailHandshake, RefuseResume,
                      Resume, ResumeTooLate, FinishHandshake, WireInv, TypeOK
  <2>1. CASE Reject(c) \/ RefuseResume(c) \/ FailHandshake(c)
    <3>1. PICK g \in Seq(Frame) : CloseWith(c, g) /\ ClosingFrames(g)
      BY <1>2, <1>3, <2>1 DEF Reject, RefuseResume, FailHandshake
    <3>2. Step(c, "done") /\ UNCHANGED socket
      BY <2>1 DEF Reject, RefuseResume, FailHandshake
    <3>3. /\ csock # c => request'[csock] = request[csock]
          /\ csock = c => request'[csock].step = "done"
      BY <1>1, <2>0, <3>2, StepProperties
    <3>4. request[csock].step \in {"identify", "resume"} => socket # csock
      BY <1>1, <2>0 DEF WireInv
    <3> QED
      BY <2>0, <3>1, <3>2, <3>3, <3>4, WireStepClose
  <2>2. CASE Identify(c) /\ c # csock
    <3>1. request'[csock] = request[csock]
      BY <1>1, <2>0, <2>2, StepProperties DEF Identify
    <3> QED
      BY <2>0, <2>2, <3>1, WireUntouched DEF Identify
  <2>3. CASE Identify(c) /\ c = csock
    <3>1. /\ wire'[csock] = << >> /\ seq = 0 /\ UNCHANGED conn
          /\ request'[csock].step = "identifying"
          /\ sessionId = "dropped" => conn[csock] # "open"
      BY <1>1, <2>0, <2>3, StepProperties DEF Identify, WireInv, IdleInv
    <3>2. Len(wire'[csock]) = 0
      BY <3>1
    <3>3. Newest(wire'[csock], high) >= seq
      BY <2>0, <3>1 DEF Newest
    <3> QED
      BY <2>0, <3>1, <3>2, <3>3 DEF WireInv, InOrder, EndIsLast, HasEnd, NoneLive
  <2>4. CASE SendReady(c) \/ FinishHandshake(c)
    <3>1. request'[csock] = request[csock] \/ request'[csock].step \in {"greeted", "done"}
      BY <1>1, <2>0, <2>4, StepProperties DEF SendReady, FinishHandshake
    <3>2. UNCHANGED <<socket, conn>>
      BY <2>4 DEF SendReady, FinishHandshake
    <3>3. request[csock].step \in {"identify", "resume"} => socket # csock
      BY <1>1, <2>0 DEF WireInv
    <3>4. CASE wire'[csock] = wire[csock]
      BY <2>0, <3>1, <3>2, <3>3, <3>4, WireUntouched
    <3>5. CASE wire'[csock] # wire[csock]
      <4> DEFINE f == [op |-> "ready", s |-> seq]
                 w == wire[csock]
      <4> HIDE DEF f
      <4>0. isConnected /\ wire' = Sent(socket, <<f>>)
        BY <2>4, <3>5 DEF SendReady, FinishHandshake, f
      <4>1. isConnected /\ socket = csock /\ wire'[csock] = w \o <<f>>
        <5>1. CASE socket # csock
          BY <1>1, <2>0, <3>5, <4>0, <5>1 DEF Sent, TypeOK
        <5>2. CASE socket = csock
          BY <1>1, <2>0, <3>5, <4>0, <5>2 DEF Sent, TypeOK
        <5> QED
          BY <5>1, <5>2
      <4>2. /\ conn[csock] = "open" /\ InOrder(w, high, seq) /\ EndIsLast(w)
            /\ ~HasEnd(w) /\ Newest(w, high) >= seq /\ sessionId # "dropped"
            /\ request[csock].step \notin {"identify", "resume"}
        BY <1>1, <2>0, <4>1 DEF WireInv, isConnected
      <4>3. f \in Frame /\ f.op = "ready" /\ f.s = seq
        BY <2>0 DEF Frame, Op, f
      <4>4. /\ InOrder(w \o <<f>>, high, seq) /\ Newest(w \o <<f>>, high) = seq
            /\ EndIsLast(w \o <<f>>) /\ ~HasEnd(w \o <<f>>)
        BY <2>0, <4>2, <4>3, AppendInOrder DEF End
      <4> QED
        BY <2>0, <3>1, <3>2, <4>1, <4>2, <4>4 DEF WireInv
    <3> QED
      BY <3>4, <3>5
  <2>5. CASE (Resume(c) \/ ResumeTooLate(c)) /\ c # csock
    <3>1. request'[csock] = request[csock]
      BY <1>1, <2>0, <2>5, StepProperties DEF Resume, ResumeTooLate
    <3>2. socket' = c
      BY <2>5 DEF Resume, ResumeTooLate
    <3>3. conn'[csock] = "open" => conn[csock] = "open"
      BY <1>1, <2>0, <2>5 DEF Resume, ResumeTooLate, Retired, TypeOK
    <3>4. wire'[csock] = wire[csock]
      BY <1>1, <2>0, <2>5 DEF Resume, ResumeTooLate, Sent, TypeOK
    <3> QED
      BY <2>0, <2>5, <3>1, <3>2, <3>3, <3>4, WireUntouched
  <2>6. CASE Resume(c) /\ c = csock
    <3> DEFINE n == request[c].seq
               r == ReplayFrames(n)
               f == [op |-> "resumed", s |-> seq]
    <3>1. /\ wire[csock] = << >> /\ n = cseq /\ socket' = csock
          /\ request'[csock].step = "resuming" /\ Replayable(n)
          /\ sessionId = "dropped" => conn[csock] # "open"
      BY <1>1, <2>0, <2>6, StepProperties DEF Resume, WireInv
    <3>2. conn'[csock] = "open" <=> conn[csock] = "open"
      BY <1>1, <2>0, <2>6 DEF Resume, Retired, TypeOK
    <3>3. CASE conn[csock] # "open"
      <4>1. Len(wire'[csock]) = 0
        BY <2>0, <2>6, <3>1, <3>3 DEF Resume
      <4> QED
        BY <2>0, <3>1, <3>2, <3>3, <4>1
        DEF WireInv, InOrder, EndIsLast, HasEnd, NoneLive
    <3>4. CASE conn[csock] = "open"
      <4>1. /\ r \in Seq(Frame) /\ n <= seq /\ Len(r) = seq - n
            /\ \A i \in 1..(seq - n) : r[i] = [op |-> "dispatch", s |-> n + i]
        BY <1>1, <2>0, <3>1, ReplayFramesProperties DEF IInv, TypeOK
      <4>2. wire'[csock] = Append(r, f)
        BY <1>1, <2>0, <2>6, <3>1, <3>4 DEF Resume, Sent, TypeOK
      <4> HIDE DEF n, r, f
      <4>3. n \in Nat /\ n <= high
        BY <1>1, <2>0, <3>1 DEF CursorInv
      <4>4. InOrder(r, high, seq)
        <5> SUFFICES ASSUME NEW i \in 1..Len(r)
                     PROVE  r[i].s <= seq /\ r[i].op = "dispatch" /\ r[i].s <= Before(r, i, high) + 1
          BY DEF InOrder
        <5>1. r[i].op = "dispatch" /\ r[i].s = n + i /\ n + i <= seq
          BY <2>0, <4>1, <4>3
        <5>2. i = 1 => n + i <= Before(r, i, high) + 1
          BY <2>0, <4>3 DEF Before
        <5>3. i # 1 => Before(r, i, high) = n + i - 1
          <6> SUFFICES ASSUME i # 1
                       PROVE  Before(r, i, high) = n + i - 1
            OBVIOUS
          <6>1. i - 1 \in 1..(seq - n)
            BY <2>0, <4>1, <4>3
          <6>2. r[i - 1] = [op |-> "dispatch", s |-> n + (i - 1)]
            BY <4>1, <6>1
          <6> QED
            BY <4>3, <6>2 DEF Before
        <5> QED
          BY <2>0, <4>3, <5>1, <5>2, <5>3
      <4>5. Newest(r, high) >= seq
        <5>1. CASE r = << >>
          <6>1. n = seq
            BY <2>0, <4>1, <4>3, <5>1
          <6> QED
            BY <2>0, <4>3, <5>1, <6>1 DEF Newest
        <5>2. CASE r # << >>
          <6>1. Len(r) \in 1..(seq - n)
            BY <2>0, <4>1, <4>3, <5>2, EmptySeq, LenProperties
          <6>2. r[Len(r)] = [op |-> "dispatch", s |-> n + Len(r)]
            BY <4>1, <6>1
          <6>3. n + Len(r) = seq
            BY <2>0, <4>1, <4>3
          <6> QED
            BY <2>0, <5>2, <6>2, <6>3 DEF Newest
        <5> QED
          BY <5>1, <5>2
      <4>6. ~HasEnd(r)
        BY <4>1 DEF HasEnd, End
      <4>7. f \in Frame /\ f.op = "resumed" /\ f.s = seq
        BY <2>0 DEF Frame, Op, f
      <4>8. /\ InOrder(r \o <<f>>, high, seq) /\ Newest(r \o <<f>>, high) = seq
            /\ EndIsLast(r \o <<f>>) /\ ~HasEnd(r \o <<f>>)
        BY <2>0, <4>1, <4>4, <4>5, <4>6, <4>7, AppendInOrder DEF End
      <4>9. Append(r, f) = r \o <<f>>
        BY <4>1, <4>7, AppendIsConcat
      <4> QED
        BY <2>0, <3>1, <3>2, <3>4, <4>2, <4>8, <4>9 DEF WireInv
    <3> QED
      BY <3>3, <3>4
  <2>7. CASE ResumeTooLate(c) /\ c = csock
    <3>1. request'[csock].step = "done"
      BY <1>1, <2>0, <2>7, StepProperties DEF ResumeTooLate
    <3>2. conn'[csock] # "open"
      BY <1>1, <2>0, <2>7 DEF ResumeTooLate, Retired, TypeOK
    <3>3. wire[csock] = << >>
      BY <1>1, <2>0, <2>7 DEF ResumeTooLate, WireInv
    <3>4. wire'[csock] \in {<< >>, << >> \o InvalidSession}
      BY <1>1, <2>0, <2>7, <3>3 DEF ResumeTooLate, Sent, TypeOK
    <3>5. << >> \in Seq(Frame) /\ InOrder(<< >>, high, seq) /\ EndIsLast(<< >>) /\ NoneLive(<< >>)
      BY DEF InOrder, EndIsLast, NoneLive
    <3>6. InOrder(wire'[csock], high, seq) /\ EndIsLast(wire'[csock]) /\ NoneLive(wire'[csock])
      BY <1>3, <2>0, <3>4, <3>5, CloseInOrder
    <3> QED
      BY <2>0, <3>1, <3>2, <3>6 DEF WireInv
  <2> QED
    BY <1>9, <2>1, <2>2, <2>3, <2>4, <2>5, <2>6, <2>7 DEF Handshake
<1>10. ASSUME NEW c \in Socket, CloseSocket(c)
       PROVE  WireInv'
  <2>1. PICK op \in {"close", "fatal"} : CloseWith(c, <<[op |-> op, s |-> 0]>>)
    BY <1>10 DEF CloseSocket
  <2>2. /\ csock' = csock /\ csock \in Socket /\ ~dead[csock]
        /\ UNCHANGED <<dead, request, cseq, high, sessionId, seq, socket>>
        /\ request[csock].step \in {"identify", "resume"} => socket # csock /\ c # csock
    BY <1>1, <1>10 DEF CloseSocket, TypeOK, WireInv
  <2> QED
    BY <1>2, <2>1, <2>2, WireStepClose
<1>11. ASSUME NEW c \in Socket, CloseEvent(c)
       PROVE  WireInv'
  <2>1. /\ csock' = csock /\ csock # None /\ csock \in Socket /\ UNCHANGED <<wire, dead, request, cseq, high, sessionId, seq>>
    BY <1>1, <1>11 DEF CloseEvent, TypeOK
  <2>2. ~dead[csock]
    BY <1>1, <2>1 DEF WireInv
  <2>3. conn'[csock] = "open" => conn[csock] = "open"
    BY <1>1, <1>11, <2>1 DEF CloseEvent, TypeOK
  <2>4. request[csock].step \in {"identify", "resume"} => socket' # csock
    BY <1>1, <1>11, <2>1, SocketAssumption DEF CloseEvent, WireInv
  <2>5. socket' = csock => socket = csock
    BY <1>11, <2>1, SocketAssumption DEF CloseEvent
  <2> QED
    BY <2>1, <2>2, <2>3, <2>4, <2>5, WireUntouched
<1>12. ASSUME NEW c \in Socket, Open(c)
       PROVE  WireInv'
  <2>1. csock' = c /\ conn[c] = "unused" /\ UNCHANGED <<server, dead, closure, wire, sessionId, cseq, high>>
    BY <1>12 DEF Open
  <2>2. wire[c] = << >> /\ ~dead[c] /\ socket # c
    BY <1>1, <2>1 DEF UnusedInv
  <2>3. sessionId # "dropped"
    BY <1>1, <1>12 DEF Open, UnusedInv
  <2>4. request'[c].seq = cseq
    BY <1>1, <1>12 DEF Open, TypeOK
  <2>5. Len(wire[c]) = 0
    BY <2>2
  <2> QED
    BY <2>1, <2>2, <2>3, <2>4, <2>5 DEF WireInv, InOrder, EndIsLast, HasEnd
<1>13. ASSUME NEW c \in Socket, Lose(c)
       PROVE  WireInv'
  BY <1>13 DEF Lose
<1>14. CASE UNCHANGED vars
  BY <1>1, <1>14, WireUntouched DEF vars, WireInv
<1> QED
  BY <1>5, <1>6, <1>7, <1>8, <1>9, <1>10, <1>11, <1>12, <1>13, <1>14 DEF Next

-----------------------------------------------------------------------------
(* The theorems.                                                           *)

LEMMA InitIInv == Init => IInv
  <1> SUFFICES ASSUME Init PROVE IInv
    OBVIOUS
  <1>1. TypeOK
    <2>1. << >> \in Seq(Nat) /\ << >> \in Seq(Frame)
      OBVIOUS
    <2>2. [step |-> "none", seq |-> 0] \in Request
      BY DEF Request
    <2> HIDE DEF Request, Frame
    <2>3. /\ request \in [Socket -> Request] /\ wire \in [Socket -> Seq(Frame)]
          /\ replay \in Seq(Nat)
      BY <2>1, <2>2 DEF Init
    <2> QED
      BY <2>3 DEF Init, TypeOK
  <1>2. Len(replay) = 0
    BY DEF Init
  <1>3. Contiguous(replay, seq)
    BY <1>2 DEF Contiguous
  <1> QED
    BY <1>1, <1>3 DEF Init, IInv, CursorInv, IdleInv, UnusedInv, WireInv, RiderInv, Riding

LEMMA StepIInv == IInv /\ [Next]_vars => IInv'
  <1> SUFFICES ASSUME IInv, [Next]_vars PROVE IInv'
    OBVIOUS
  <1>1. TypeOK /\ Contiguous(replay, seq)
    BY DEF IInv
  <1> QED
    BY <1>1, TypeStep, BufferStep, CursorStep, IdleStep, UnusedStep, WireStep, RiderStep DEF IInv

(* The inductive invariant: buffer, wire, cursor and rider together.       *)
THEOREM Invariance == Spec => []IInv
  <1>1. Init => IInv
    BY InitIInv
  <1>2. IInv /\ [Next]_vars => IInv'
    BY StepIInv
  <1> QED
    BY <1>1, <1>2, PTL DEF Spec

(* Every variable of the session, its connections and the client keeps its *)
(* type, whatever the handshake, the sweep and the network interleave.     *)
THEOREM TypeCorrect == Spec => []TypeOK
  <1>1. IInv => TypeOK
    BY DEF IInv
  <1> QED
    BY <1>1, Invariance, PTL

(* A retired socket is never left open and silent: of all the connections  *)
(* that believe they carry a live session only the one it rides is open.   *)
THEOREM OneRiderHolds == Spec => []OneRider
  <1>1. IInv => OneRider
    BY DEF IInv, RiderInv, Riding, OneRider
  <1> QED
    BY <1>1, Invariance, PTL

(* The close event of an old connection never parks a session that has     *)
(* been resumed on a new one.                                              *)
THEOREM NotParkedHolds == Spec => []NotParkedWhileOpen
  <1>1. IInv => NotParkedWhileOpen
    BY DEF IInv, RiderInv, Riding, NotParkedWhileOpen
  <1> QED
    BY <1>1, Invariance, PTL

(* What one step of the client does to what it has processed.              *)
LEMMA HighStep ==
  ASSUME IInv, [Next]_vars
  PROVE  /\ high' = high \/ (high' = high + 1 /\ high < seq /\ sessionId # "dropped")
         /\ high' # high => UNCHANGED <<seq, sessionId>>
  <1>1. TypeOK /\ CursorInv
    BY DEF IInv
  <1>2. CASE Receive
    <2> DEFINE f == Head(wire[csock])
    <2>1. f.s \in Nat /\ f.s <= seq /\ (f.op = "dispatch" => f.s <= high + 1 /\ sessionId # "dropped")
      BY <1>2, ReceivedNext DEF Frame, Live
    <2>2. /\ high' = IF f.op = "dispatch" /\ f.s > high THEN f.s ELSE high
          /\ f.op = "dispatch" => sessionId' = sessionId
          /\ seq' = seq
      BY <1>2 DEF Receive, server
    <2>3. high \in Nat /\ seq \in Nat
      BY <1>1 DEF TypeOK
    <2> HIDE DEF f
    <2> QED
      BY <2>1, <2>2, <2>3
  <1>3. CASE ~Receive
    BY <1>3 DEF Next, vars, server, link, client, Dispatch, HeartbeatTimeout, Reap, Evict,
                NodeRestart, Handshake, Reject, Identify, SendReady, FailHandshake,
                RefuseResume, Resume, ResumeTooLate, FinishHandshake, CloseSocket, CloseEvent,
                Open, Lose
  <1> QED
    BY <1>2, <1>3

(* Replay after a RESUME, live dispatch and the frames still on the wire   *)
(* of an older state together never let the client jump over an event.     *)
THEOREM NoSkippedEventHolds == Spec => NoSkippedEvent
  <1>1. IInv /\ [Next]_vars => [high' <= high + 1]_high
    <2> SUFFICES ASSUME IInv, [Next]_vars PROVE [high' <= high + 1]_high
      OBVIOUS
    <2>1. high \in Nat
      BY DEF IInv, TypeOK
    <2> QED
      BY <2>1, HighStep
  <1> QED
    BY <1>1, Invariance, PTL DEF Spec, NoSkippedEvent

(* A Resumed frame is read only after everything dispatched before it.     *)
THEOREM ResumedMeansCaughtUpHolds == Spec => ResumedMeansCaughtUp
  <1>1. IInv => (ReadsResumed => high >= Head(wire[csock]).s)
    <2> SUFFICES ASSUME IInv, ReadsResumed PROVE high >= Head(wire[csock]).s
      OBVIOUS
    <2> DEFINE w == wire[csock]
    <2>1. csock \in Socket /\ w \in Seq(Frame) /\ w # << >> /\ high \in Nat
      BY DEF IInv, TypeOK, ReadsResumed
    <2>2. InOrder(w, high, seq) /\ Head(w).op = "resumed"
      BY DEF IInv, WireInv, ReadsResumed
    <2> HIDE DEF w
    <2>3. 1 \in 1..Len(w) /\ Head(w) = w[1]
      BY <2>1, HeadTailProperties, EmptySeq, LenProperties
    <2>4. w[1].s <= Before(w, 1, high)
      BY <2>2, <2>3 DEF InOrder
    <2> QED
      BY <2>3, <2>4, <2>1, FrameFields DEF Before, w
  <1> QED
    BY <1>1, Invariance, PTL DEF ResumedMeansCaughtUp

(* Every step of the detailed session is a step of the abstract stream or  *)
(* leaves it alone.                                                        *)
LEMMA StreamStep ==
  ASSUME IInv, [Next]_vars
  PROVE  [Stream!Next]_(Stream!streamVars)
  <1>1. TypeOK /\ seq \in Nat /\ high \in Nat
    BY DEF IInv, TypeOK
  <1>2. CASE Dispatch
    BY <1>2 DEF Dispatch, client, Stream!Next, Stream!Publish
  <1>3. CASE Receive
    <2>1. seq' = seq
      BY <1>3 DEF Receive, server
    <2>2. CASE high' # high
      BY <1>1, <2>1, <2>2, HighStep DEF Stream!Next, Stream!Deliver
    <2>3. CASE high' = high
      <3>1. sessionId = "dropped" => sessionId' = "dropped"
        <4>1. sessionId = "dropped" => Head(wire[csock]).op # "ready"
          BY <1>3, ReceivedNext DEF Live
        <4> QED
          BY <1>3, <4>1 DEF Receive
      <3> QED
        BY <2>1, <2>3, <3>1 DEF Stream!Next, Stream!End, Stream!streamVars
    <2> QED
      BY <2>2, <2>3
  <1>4. CASE ~Dispatch /\ ~Receive
    BY <1>4 DEF Next, vars, server, link, client, HeartbeatTimeout, Reap, Evict,
                NodeRestart, Handshake, Reject, Identify, SendReady, FailHandshake,
                RefuseResume, Resume, ResumeTooLate, FinishHandshake, CloseSocket, CloseEvent,
                Open, Lose, Stream!streamVars
  <1> QED
    BY <1>2, <1>3, <1>4

(* The gateway session implements the abstract event stream.               *)
THEOREM Implementation == Spec => ImplementsStream
  <1>1. Init => Stream!Init
    BY DEF Init, Stream!Init
  <1>2. IInv /\ [Next]_vars => [Stream!Next]_(Stream!streamVars)
    BY StreamStep
  <1> QED
    BY <1>1, <1>2, Invariance, PTL DEF Spec, ImplementsStream, Stream!Spec
=============================================================================
