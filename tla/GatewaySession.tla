--------------------------- MODULE GatewaySession ---------------------------
(***************************************************************************)
(* One gateway session from IDENTIFY to its destruction, the sockets it    *)
(* rides one after the other, and the client that reconnects and RESUMEs   *)
(* (apps/gateway/src/session.ts and server.ts, the web client's            *)
(* lib/gateway.ts).                                                        *)
(*                                                                         *)
(* The handshake is asynchronous on the server: IDENTIFY and RESUME attach *)
(* the socket to the session first and return to the connection's closure  *)
(* later, and the socket's close event, a heartbeat timeout, a dispatch or *)
(* another RESUME can run in between.  An event is its dispatch number.    *)
(* Every frame carries in "s" the dispatch counter at the time it was sent;*)
(* the client looks at it in a dispatch frame only.                        *)
(***************************************************************************)
EXTENDS Naturals, Sequences

CONSTANTS Socket,      \* the connections the client may open, each once
          None,        \* no socket (null)
          BufferSize,  \* REPLAY_BUFFER_SIZE
          MaxSeq       \* bound of the model: events dispatched

ASSUME SocketAssumption == None \notin Socket
ASSUME BufferAssumption == BufferSize \in Nat \ {0}
ASSUME MaxSeqAssumption == MaxSeq \in Nat

VARIABLES
  (* the Session object, and its entry in the server's sessions map *)
  registered,    \* "no", "yes", "destroyed"
  seq,           \* dispatch counter
  replay,        \* ring buffer of the numbers of dispatched events
  socket,        \* session.socket
  disconnected,  \* disconnectedAt # null
  (* the connections, as the server sees them *)
  conn,          \* readyState: "unused", "open", "closing", "closed"
  dead,          \* the peer or the path is gone, noticed or not
  request,       \* handshake frame of the connection and how far it got
  closure,       \* onConnection's "session" variable holds the session
  wire,          \* frames on their way to the client
  (* the client *)
  csock,         \* the client's current socket
  sessionId,     \* "none" (READY not seen yet), "known", "dropped"
  cseq,          \* seq of the client, sent in RESUME
  high           \* history: highest event the client has processed

server == <<registered, seq, replay, socket, disconnected>>
link   == <<conn, dead, request, closure>>
client == <<csock, sessionId, cseq, high>>
vars   == <<server, link, wire, client>>

(* "close" carries a close code the client may resume after, "fatal" one   *)
(* that makes it forget the session (isResumable).                         *)
Op    == {"dispatch", "ready", "resumed", "invalid", "close", "fatal"}
Frame == [op : Op, s : Nat]

(* Handshake of a connection: nothing sent, IDENTIFY or RESUME on its way, *)
(* attached and still awaiting (presence, what READY carries), READY sent  *)
(* and still awaiting, finished.                                           *)
Attached == {"identifying", "greeted", "resuming"}
Request == [step : {"none", "identify", "resume", "done"} \cup Attached, seq : Nat]

TypeOK ==
  /\ registered \in {"no", "yes", "destroyed"}
  /\ seq \in Nat
  /\ replay \in Seq(Nat)
  /\ socket \in Socket \cup {None}
  /\ disconnected \in BOOLEAN
  /\ conn \in [Socket -> {"unused", "open", "closing", "closed"}]
  /\ dead \in [Socket -> BOOLEAN]
  /\ request \in [Socket -> Request]
  /\ closure \in [Socket -> BOOLEAN]
  /\ wire \in [Socket -> Seq(Frame)]
  /\ csock \in Socket \cup {None}
  /\ sessionId \in {"none", "known", "dropped"}
  /\ cseq \in Nat
  /\ high \in Nat

Init ==
  /\ registered = "no" /\ seq = 0 /\ replay = << >>
  /\ socket = None /\ disconnected = FALSE
  /\ conn = [c \in Socket |-> "unused"]
  /\ dead = [c \in Socket |-> FALSE]
  /\ request = [c \in Socket |-> [step |-> "none", seq |-> 0]]
  /\ closure = [c \in Socket |-> FALSE]
  /\ wire = [c \in Socket |-> << >>]
  /\ csock = None /\ sessionId = "none" /\ cseq = 0 /\ high = 0

-----------------------------------------------------------------------------
(* Helpers of session.ts. *)

isConnected == socket # None /\ conn[socket] = "open"

Step(c, s) == request' = [request EXCEPT ![c] = [step |-> s, seq |-> 0]]

(* What is sent to a client that has gone is lost.                         *)
Sent(c, frames) == IF dead[c] THEN wire ELSE [wire EXCEPT ![c] = @ \o frames]

(* The ring buffer after one more event. *)
Pushed(s) == LET longer == Append(replay, s)
             IN  IF Len(longer) > BufferSize THEN Tail(longer) ELSE longer

(* Mutant: off by one at the old end of the buffer.                        *)
ReplayableOneLate(afterSeq) ==
  /\ afterSeq <= seq
  /\ IF replay = << >> THEN afterSeq >= seq ELSE afterSeq + 2 >= Head(replay)

(* replayFrom gives up when the client is ahead of the session or behind   *)
(* the oldest buffered event.                                              *)
Replayable(afterSeq) ==
  /\ afterSeq <= seq
  /\ IF replay = << >> THEN afterSeq >= seq ELSE afterSeq + 1 >= Head(replay)

(* Mutant: one event too few is replayed.                                  *)
FirstAfterNext(afterSeq) ==
  CHOOSE k \in 1..(Len(replay) + 1) :
    /\ \A i \in 1..Len(replay) : i < k => replay[i] <= afterSeq + 1
    /\ \A i \in 1..Len(replay) : i >= k => replay[i] > afterSeq + 1

(* The buffered events after afterSeq, as the frames that replay them.     *)
FirstAfter(afterSeq) ==
  CHOOSE k \in 1..(Len(replay) + 1) :
    /\ \A i \in 1..Len(replay) : i < k => replay[i] <= afterSeq
    /\ \A i \in 1..Len(replay) : i >= k => replay[i] > afterSeq

ReplayFrames(afterSeq) ==
  [i \in 1..(Len(replay) + 1 - FirstAfter(afterSeq)) |->
     [op |-> "dispatch", s |-> replay[FirstAfter(afterSeq) + i - 1]]]

(* bufferedAmount > SLOW_CONSUMER_BYTES is possible once frames wait.      *)
Backlogged(c) == dead[c] \/ wire[c] # << >>

(* socket.close: the close frame is queued behind what was sent before.    *)
CloseWith(c, frames) ==
  IF conn[c] = "open"
  THEN conn' = [conn EXCEPT ![c] = "closing"] /\ wire' = Sent(c, frames)
  ELSE UNCHANGED <<conn, wire>>

(* session.close *)
CloseRider(op) ==
  /\ IF socket # None
     THEN CloseWith(socket, <<[op |-> op, s |-> 0]>>)
     ELSE UNCHANGED <<conn, wire>>
  /\ socket' = None

InvalidSession == <<[op |-> "invalid", s |-> 0], [op |-> "close", s |-> 0]>>

-----------------------------------------------------------------------------
(* The session at work. *)

(* Mutant: a slow consumer misses the event instead of its connection.     *)
DispatchDropping ==
  /\ registered = "yes"
  /\ seq < MaxSeq
  /\ seq' = seq + 1
  /\ replay' = Pushed(seq + 1)
  /\ \/ ~isConnected /\ UNCHANGED wire
     \/ isConnected /\ Backlogged(socket) /\ UNCHANGED wire
     \/ isConnected /\ wire' = Sent(socket, <<[op |-> "dispatch", s |-> seq + 1]>>)
  /\ UNCHANGED <<registered, socket, disconnected, link, client>>

Dispatch ==
  /\ registered = "yes"
  /\ seq < MaxSeq
  /\ seq' = seq + 1
  /\ replay' = Pushed(seq + 1)
  /\ \/ /\ ~isConnected
        /\ UNCHANGED <<wire, conn, socket>>
     \/ /\ isConnected
        /\ wire' = Sent(socket, <<[op |-> "dispatch", s |-> seq + 1]>>)
        /\ UNCHANGED <<conn, socket>>
     \/ /\ isConnected /\ Backlogged(socket)
        /\ CloseRider("close")
  /\ UNCHANGED <<registered, disconnected, dead, request, closure, client>>

(* handleIdentify up to the first await after the session is in the maps.  *)
Identify(c) ==
  /\ request[c].step = "identify"
  /\ registered = "no"
  /\ registered' = "yes"
  /\ socket' = c
  /\ Step(c, "identifying")
  /\ UNCHANGED <<seq, replay, disconnected, conn, dead, closure, wire, client>>

(* The rest of handleIdentify up to READY, which goes to the socket the    *)
(* session rides by then; publishing the presence is still awaited.        *)
SendReady(c) ==
  /\ request[c].step = "identifying"
  /\ Step(c, "greeted")
  /\ wire' = IF isConnected THEN Sent(socket, <<[op |-> "ready", s |-> seq]>>) ELSE wire
  /\ UNCHANGED <<server, conn, dead, closure, client>>

(* A throw after the session is attached: it is destroyed, its socket      *)
(* closed, and the closure keeps null.                                     *)
FailHandshake(c) ==
  /\ request[c].step \in Attached
  /\ Step(c, "done")
  /\ registered' = "destroyed"
  /\ CloseWith(c, <<[op |-> "close", s |-> 0]>>)
  /\ UNCHANGED <<seq, replay, socket, disconnected, dead, closure, client>>

(* Closed before anything is attached: bad token, payload or protocol      *)
(* version, or no handshake frame within twenty seconds.                   *)
Reject(c) ==
  /\ request[c].step \in {"identify", "resume"}
  /\ Step(c, "done")
  /\ CloseWith(c, <<[op |-> "fatal", s |-> 0]>>)
  /\ UNCHANGED <<server, dead, closure, client>>

(* A RESUME for a session that is gone or past its resume window.          *)
RefuseResume(c) ==
  /\ request[c].step = "resume"
  /\ registered = "destroyed" \/ disconnected
  /\ Step(c, "done")
  /\ CloseWith(c, InvalidSession)
  /\ UNCHANGED <<server, dead, closure, client>>

(* Mutant: the half-open socket is left alone.                             *)
RetiredNever(c) == conn

(* The socket the session still rides is terminated.                       *)
Retired(c) ==
  IF socket \in Socket \ {c} /\ conn[socket] = "open"
  THEN [conn EXCEPT ![socket] = "closing"] ELSE conn

(* Mutant: Resumed goes out before the replay.                             *)
ResumeAnnouncedFirst(c) ==
  /\ request[c].step = "resume"
  /\ registered = "yes"
  /\ Replayable(request[c].seq)
  /\ Step(c, "resuming")
  /\ socket' = c
  /\ disconnected' = FALSE
  /\ conn' = Retired(c)
  /\ wire' = IF conn[c] = "open"
             THEN Sent(c, <<[op |-> "resumed", s |-> seq]>> \o ReplayFrames(request[c].seq))
             ELSE wire
  /\ UNCHANGED <<registered, seq, replay, dead, closure, client>>

(* handleResume up to its first await: the session moves to the new socket *)
(* and the missed events go out in the same step.                          *)
Resume(c) ==
  /\ request[c].step = "resume"
  /\ registered = "yes"
  /\ Replayable(request[c].seq)
  /\ Step(c, "resuming")
  /\ socket' = c
  /\ disconnected' = FALSE
  /\ conn' = Retired(c)
  /\ wire' = IF conn[c] = "open"
             THEN Sent(c, Append(ReplayFrames(request[c].seq), [op |-> "resumed", s |-> seq]))
             ELSE wire
  /\ UNCHANGED <<registered, seq, replay, dead, closure, client>>

(* The buffer no longer reaches back: InvalidSession and destruction.      *)
ResumeTooLate(c) ==
  /\ request[c].step = "resume"
  /\ registered = "yes"
  /\ ~Replayable(request[c].seq)
  /\ Step(c, "done")
  /\ socket' = c
  /\ disconnected' = FALSE
  /\ registered' = "destroyed"
  /\ IF conn[c] = "open"
     THEN /\ conn' = [Retired(c) EXCEPT ![c] = "closing"]
          /\ wire' = Sent(c, InvalidSession)
     ELSE conn' = Retired(c) /\ UNCHANGED wire
  /\ UNCHANGED <<seq, replay, dead, closure, client>>

(* The handler returns and onConnection's closure learns the session.      *)
FinishHandshake(c) ==
  /\ request[c].step \in {"greeted", "resuming"}
  /\ Step(c, "done")
  /\ closure' = [closure EXCEPT ![c] = TRUE]
  /\ UNCHANGED <<server, conn, dead, wire, client>>

(* Mutant: any socket that ever carried the session parks it.              *)
CloseEventAny(c) ==
  /\ conn[c] = "closing" \/ (conn[c] = "open" /\ dead[c])
  /\ conn' = [conn EXCEPT ![c] = "closed"]
  /\ IF closure[c]
     THEN socket' = None /\ disconnected' = TRUE
     ELSE UNCHANGED <<socket, disconnected>>
  /\ UNCHANGED <<registered, seq, replay, dead, request, closure, wire, client>>

(* The socket's close event: only the socket the session rides, or the     *)
(* last one of a session that closed itself, parks it.                     *)
CloseEvent(c) ==
  /\ conn[c] = "closing" \/ (conn[c] = "open" /\ dead[c])
  /\ conn' = [conn EXCEPT ![c] = "closed"]
  /\ IF closure[c] /\ socket \in {c, None}
     THEN socket' = None /\ disconnected' = TRUE
     ELSE UNCHANGED <<socket, disconnected>>
  /\ UNCHANGED <<registered, seq, replay, dead, request, closure, wire, client>>

(* sweep(): a socket that stopped heartbeating is closed ...               *)
HeartbeatTimeout ==
  /\ registered = "yes"
  /\ isConnected
  /\ CloseRider("close")
  /\ UNCHANGED <<registered, seq, replay, disconnected, dead, request, closure, client>>

(* ... and a session parked longer than the resume window destroyed.       *)
Reap ==
  /\ registered = "yes"
  /\ disconnected
  /\ registered' = "destroyed"
  /\ UNCHANGED <<seq, replay, socket, disconnected, link, wire, client>>

(* A session revoked, or evicted by the cap on connections per user, is    *)
(* closed and destroyed in one go.                                         *)
Evict ==
  /\ registered = "yes"
  /\ registered' = "destroyed"
  /\ CloseRider("fatal")
  /\ UNCHANGED <<seq, replay, disconnected, dead, request, closure, client>>

(* A malformed frame, a second handshake or too many frames close the      *)
(* socket and leave the session to the close event.  Frames queue behind   *)
(* the handshake, so this comes after it.                                  *)
CloseSocket(c) ==
  /\ conn[c] = "open"
  /\ request[c].step = "done"
  /\ \E op \in {"close", "fatal"} : CloseWith(c, <<[op |-> op, s |-> 0]>>)
  /\ UNCHANGED <<server, dead, request, closure, client>>

(* The node dies: its memory and every connection with it.                 *)
NodeRestart ==
  /\ registered = "yes"
  /\ registered' = "destroyed"
  /\ conn' = [c \in Socket |-> IF conn[c] = "unused" THEN "unused" ELSE "closed"]
  /\ request' = [c \in Socket |-> [step |-> IF conn[c] = "unused" THEN "none" ELSE "done",
                                   seq  |-> 0]]
  /\ closure' = [c \in Socket |-> FALSE]
  /\ socket' = None
  /\ UNCHANGED <<seq, replay, disconnected, dead, wire, client>>

-----------------------------------------------------------------------------
(* The client. *)

(* Mutant: RESUME asks for the last processed event again.                 *)
OpenOneBack(c) ==
  /\ csock = None
  /\ conn[c] = "unused"
  /\ sessionId = "known" \/ \A d \in Socket : conn[d] = "unused"
  /\ csock' = c
  /\ conn' = [conn EXCEPT ![c] = "open"]
  /\ request' = [request EXCEPT ![c] =
                   [step |-> IF sessionId = "known" THEN "resume" ELSE "identify",
                    seq  |-> cseq - 1]]
  /\ UNCHANGED <<server, dead, closure, wire, sessionId, cseq, high>>

(* A new connection; HELLO is answered by RESUME when a session is known.  *)
(* An IDENTIFY after a lost first handshake opens another session, which   *)
(* is another instance of this module.                                     *)
Open(c) ==
  /\ csock = None
  /\ conn[c] = "unused"
  /\ sessionId = "known" \/ \A d \in Socket : conn[d] = "unused"
  /\ csock' = c
  /\ conn' = [conn EXCEPT ![c] = "open"]
  /\ request' = [request EXCEPT ![c] =
                   [step |-> IF sessionId = "known" THEN "resume" ELSE "identify",
                    seq  |-> cseq]]
  /\ UNCHANGED <<server, dead, closure, wire, sessionId, cseq, high>>

(* onFrame *)
Receive ==
  /\ csock # None
  /\ wire[csock] # << >>
  /\ LET f == Head(wire[csock]) IN
     /\ wire' = [wire EXCEPT ![csock] = IF f.op \in {"close", "fatal"} THEN << >> ELSE Tail(@)]
     /\ cseq' = CASE f.op = "dispatch" -> f.s
                  [] f.op \in {"ready", "invalid", "fatal"} -> 0
                  [] OTHER -> cseq
     /\ high' = IF f.op = "dispatch" /\ f.s > high THEN f.s ELSE high
     /\ sessionId' = CASE f.op = "ready" -> "known"
                       [] f.op \in {"invalid", "fatal"} -> "dropped"
                       [] OTHER -> sessionId
     /\ IF f.op \in {"close", "fatal"}
        THEN csock' = None /\ dead' = [dead EXCEPT ![csock] = TRUE]
        ELSE UNCHANGED <<csock, dead>>
  /\ UNCHANGED <<server, conn, request, closure>>

(* The connection breaks, or the client closes it (Reconnect, lid shut):   *)
(* what is on the wire is lost, and so may be a request not yet received.  *)
Lose(c) ==
  /\ csock = c
  /\ csock' = None
  /\ dead' = [dead EXCEPT ![c] = TRUE]
  /\ \/ request' = request
     \/ request[c].step \in {"identify", "resume"} /\ Step(c, "done")
  /\ wire' = [wire EXCEPT ![c] = << >>]
  /\ UNCHANGED <<server, conn, closure, sessionId, cseq, high>>

Handshake(c) == \/ Reject(c) \/ Identify(c) \/ SendReady(c) \/ FailHandshake(c)
                \/ Resume(c) \/ ResumeTooLate(c) \/ RefuseResume(c) \/ FinishHandshake(c)

Next ==
  \/ Dispatch \/ HeartbeatTimeout \/ Reap \/ Evict \/ NodeRestart \/ Receive
  \/ \E c \in Socket : Handshake(c) \/ CloseSocket(c) \/ CloseEvent(c) \/ Open(c) \/ Lose(c)

Spec == Init /\ [][Next]_vars

(* The event loop runs what is pending, a reconnect timer fires, frames    *)
(* arrive, and a client notices a connection the server has closed.        *)
Fairness ==
  /\ WF_vars(Receive)
  /\ \A c \in Socket : /\ WF_vars(Handshake(c)) /\ WF_vars(CloseEvent(c))
                       /\ WF_vars(Open(c)) /\ WF_vars(conn[c] = "closed" /\ Lose(c))

FairSpec == Spec /\ Fairness

-----------------------------------------------------------------------------
(* Properties. *)

Stream == INSTANCE EventStream WITH published <- seq, delivered <- high,
                                    over <- sessionId = "dropped"

(* The client processes the events of its session in order and never one  *)
(* after a gap: replay, live dispatch, slow-consumer closes and half-open  *)
(* sockets together implement the abstract stream.                         *)
ImplementsStream == Stream!Spec

(* A step of the client never jumps over an event (replayFrom, emit).      *)
NoSkippedEvent == [][high' <= high + 1]_high

(* When the client reads Resumed it has processed everything dispatched up *)
(* to that frame: "Replay complete" (REALTIME_PROTOCOL.md, opcode 7).      *)
ReadsResumed == /\ csock # None /\ wire[csock] # << >>
                /\ Head(wire[csock]).op = "resumed"
                /\ csock' = csock /\ wire'[csock] = Tail(wire[csock])
ResumedMeansCaughtUp == [][ReadsResumed => high >= Head(wire[csock]).s]_wire

(* A close event of an old, half-open socket never parks a session that    *)
(* has moved to a new one (the guard of onConnection's close handler), so  *)
(* the sweep never destroys a session under an open connection.            *)
NotParkedWhileOpen == \A c \in Socket :
  closure[c] /\ conn[c] = "open" /\ registered = "yes" => ~disconnected

(* As long as the session exists no other open socket believes it carries  *)
(* it: a retired socket is closed, never left open and silent.             *)
OneRider == \A c \in Socket :
  closure[c] /\ conn[c] = "open" /\ registered = "yes" => socket = c

(* An event that was dispatched reaches a client that keeps reconnecting,  *)
(* or the client learns that its session is lost (or the model runs out of *)
(* sockets to reconnect with).                                             *)
OutOfSockets == csock = None /\ \A c \in Socket : conn[c] # "unused"
DeliveredOrToldSo ==
  \A n \in 1..MaxSeq :
    (seq >= n) ~> (high >= n \/ sessionId # "known" \/ OutOfSockets)

(* What comments and documents say and the code does not do.               *)

(* "When a connection drops, the session is parked" (session.ts): a        *)
(* session all of whose connections are closed and whose handshakes are    *)
(* over is waiting for its resume window to close.                         *)
ParkedOnceClosed ==
  (/\ registered = "yes"
   /\ \A c \in Socket : /\ conn[c] \in {"unused", "closed"}
                         /\ request[c].step \in {"none", "done"})
  => disconnected

-----------------------------------------------------------------------------
(* The inductive invariant behind the theorems of GatewaySession_proofs.   *)

(* The ring buffer holds the last events dispatched, without a hole.       *)
Contiguous(r, n) == \A i \in 1..Len(r) : r[i] = n - Len(r) + i

(* The frame after which the client stops listening to the session.        *)
End  == {"invalid", "close", "fatal"}
Live == {"dispatch", "ready"}

(* Frames arrive in order: a dispatch frame is at most one ahead of what   *)
(* the client has processed (h, then the frames before it) when it reads   *)
(* it, none is ahead of the session (n), and no live frame follows an End. *)
Before(w, i, h) == IF i = 1 THEN h ELSE w[i - 1].s
InOrder(w, h, n) ==
  \A i \in 1..Len(w) :
    /\ w[i].s <= n
    /\ w[i].op = "dispatch" => w[i].s <= Before(w, i, h) + 1
    /\ w[i].op # "dispatch" => w[i].s <= Before(w, i, h)
HasEnd(w) == \E i \in 1..Len(w) : w[i].op \in End
NoneLive(w) == \A i \in 1..Len(w) : w[i].op \notin Live
EndIsLast(w) ==
  \A i, j \in 1..Len(w) : w[i].op \in End /\ i < j => w[j].op \notin Live

(* The last event the client will know of once the wire is read.           *)
Newest(w, h) == IF w = << >> THEN h ELSE w[Len(w)].s

CursorInv == cseq <= high /\ high <= seq

(* Before IDENTIFY nothing has happened to the session.                    *)
IdleInv ==
  registered = "no" =>
    /\ seq = 0 /\ socket = None /\ ~disconnected
    /\ \A c \in Socket : ~closure[c] /\ request[c].step \notin Attached

UnusedInv ==
  /\ \A c \in Socket : conn[c] = "unused" =>
       /\ wire[c] = << >> /\ request[c].step = "none"
       /\ ~dead[c] /\ ~closure[c] /\ csock # c /\ socket # c
  /\ sessionId # "none" => \E c \in Socket : conn[c] # "unused"

(* What is on its way to the client over its current socket.               *)
WireInv ==
  csock # None =>
    /\ ~dead[csock]
    /\ InOrder(wire[csock], high, seq)
    /\ EndIsLast(wire[csock])
    /\ request[csock].step \in {"identify", "resume"} =>
         wire[csock] = << >> /\ socket # csock
    /\ request[csock].step = "resume" => request[csock].seq = cseq
    /\ HasEnd(wire[csock]) => conn[csock] # "open"
    /\ socket = csock /\ conn[csock] = "open" => Newest(wire[csock], high) >= seq
    /\ sessionId = "dropped" => conn[csock] # "open" /\ NoneLive(wire[csock])

(* Only the socket the session rides is open and attached.                 *)
Riding(c) == closure[c] \/ request[c].step \in Attached
RiderInv ==
  /\ disconnected => socket = None
  /\ registered = "yes" => \A c \in Socket : Riding(c) /\ conn[c] = "open" => socket = c

IInv == /\ TypeOK /\ Contiguous(replay, seq) /\ CursorInv
        /\ IdleInv /\ UnusedInv /\ WireInv /\ RiderInv
=============================================================================
