------------------------------- MODULE Topics -------------------------------
(***************************************************************************)
(* How one gateway node hears the events of one conversation: the          *)
(* reference-counted subscriptions of its sessions                         *)
(* (apps/gateway/src/subscriptions.ts), the bus over LISTEN and NOTIFY     *)
(* (packages/db/src/bus.ts), and the commands of the server that join and  *)
(* leave (apps/gateway/src/server.ts).                                     *)
(*                                                                         *)
(* A callback of Node.js runs to its next await, so each action is one     *)
(* callback.  Membership and events live in PostgreSQL: a NOTIFY is sent   *)
(* on commit to the connections that LISTEN at that moment, in the order   *)
(* of the commits.  The driver's statements go down one connection, in     *)
(* order.  A session is the only one of its user.                          *)
(*                                                                         *)
(* JavaScript compares sets by identity.  A set that topics or the bus no  *)
(* longer hold is modelled by what remains of it: an adder that waits for  *)
(* LISTEN either still has the set that topics holds ("first"), or an      *)
(* orphan, and then joins nothing ("orphan").                              *)
(***************************************************************************)
EXTENDS Naturals, Sequences, FiniteSets

CONSTANTS Session,    \* sessions of the node, one user each
          MaxEvents,  \* bound of the model: events committed
          MaxStray,   \* bound of the model: timers nobody can cancel
          MaxDrops,   \* bound of the model: losses of the listener connection
          MaxJoins    \* bound of the model: subscriptions asked for

ASSUME SessionAssumption == IsFiniteSet(Session)
ASSUME BoundAssumption ==
  MaxEvents \in Nat /\ MaxStray \in Nat /\ MaxDrops \in Nat /\ MaxJoins \in Nat

VARIABLES
  \* PostgreSQL
  member,     \* users with a row whose left_at is null
  log,        \* events of the conversation, in the order of their commits
  farewell,   \* users whose conversation.delete is still to be published
  listening,  \* the server has executed LISTEN for the topic
  \* the listener connection
  cmds,       \* LISTEN and UNLISTEN on their way to the server
  wire,       \* notifications on their way to the node
  drops,      \* times the connection was lost
  \* PgBus
  bus,        \* handlers.get(topic): none, a set still empty, one with a handler
  stop,       \* unlisteners.has(topic)
  callbacks,  \* callbacks registered with the driver
  fetching,   \* reads of bus_overflow in progress
  \* SubscriptionManager
  known,      \* topics.has(topic)
  topic,      \* topics.get(topic), {} when there is none
  grace,      \* pendingUnsubscribe.has(topic)
  stray,      \* running timers whose handle is lost
  \* sessions
  phase,      \* where the session's Subscribe (or IDENTIFY) is
  joins,      \* subscriptions asked for
  holds,      \* sessions with the id in session.conversations
  gone,       \* destroyed sessions
  heard,      \* events dispatched to each session
  \* for the properties only
  asof,       \* events committed when the membership was last read
  since,      \* ... when the session was in the topic and LISTEN answered
  troubled    \* a connection or a body was lost, or a timer overtook a LISTEN

db       == <<member, log, farewell>>
link     == <<listening, cmds, drops>>
pgbus    == <<bus, stop, callbacks>>
subs     == <<known, topic, grace, stray>>
sessions == <<phase, joins, holds, gone>>
vars     == <<db, link, wire, pgbus, fetching, subs, sessions, heard, asof, since, troubled>>

Kind  == {"small", "big", "remove", "delete"}
Event == [n : Nat, kind : Kind, who : SUBSET Session]
Phase == {"idle", "asked", "first", "orphan"}

TypeOK ==
  /\ member \in SUBSET Session
  /\ log \in Seq(Event)
  /\ farewell \in SUBSET Session
  /\ listening \in BOOLEAN
  /\ cmds \in Seq({"listen", "unlisten"})
  /\ wire \in Seq(Event)
  /\ drops \in 0..MaxDrops
  /\ bus \in {"none", "empty", "ready"}
  /\ stop \in BOOLEAN
  /\ callbacks \in Nat
  /\ fetching \in SUBSET (Nat \X Nat)
  /\ known \in BOOLEAN
  /\ topic \in SUBSET Session
  /\ grace \in BOOLEAN
  /\ stray \in Nat
  /\ phase \in [Session -> Phase]
  /\ joins \in 0..MaxJoins
  /\ holds \in SUBSET Session
  /\ gone \in SUBSET Session
  /\ heard \in [Session -> Seq(Nat)]
  /\ asof \in [Session -> Nat]
  /\ since \in [Session -> Nat]
  /\ troubled \in BOOLEAN

Init ==
  /\ member = Session
  /\ log = <<>>
  /\ farewell = {}
  /\ listening = FALSE
  /\ cmds = <<>>
  /\ wire = <<>>
  /\ drops = 0
  /\ bus = "none"
  /\ stop = FALSE
  /\ callbacks = 0
  /\ fetching = {}
  /\ known = FALSE
  /\ topic = {}
  /\ grace = FALSE
  /\ stray = 0
  /\ phase = [s \in Session |-> "idle"]
  /\ joins = 0
  /\ holds = {}
  /\ gone = {}
  /\ heard = [s \in Session |-> <<>>]
  /\ asof = [s \in Session |-> 0]
  /\ since = [s \in Session |-> 0]
  /\ troubled = FALSE

-----------------------------------------------------------------------------
(* PostgreSQL: what other processes commit, and the notifications of it. *)

Notify(e) == wire' = IF listening THEN Append(wire, e) ELSE wire

Publish(e) == log' = Append(log, e) /\ Notify(e)

(* An event of the conversation; a big one leaves its body in bus_overflow. *)
Commit(kind) ==
  /\ kind \in {"small", "big"}
  /\ Len(log) < MaxEvents
  /\ Publish([n |-> Len(log) + 1, kind |-> kind, who |-> {}])
  /\ UNCHANGED <<member, farewell, link, pgbus, fetching, subs, sessions, heard, asof, since, troubled>>

(* removeMember: left_at and member.remove are one transaction. *)
RemoveMember(u) ==
  /\ u \in member
  /\ Len(log) < MaxEvents
  /\ member' = member \ {u}
  /\ farewell' = farewell \cup {u}
  /\ Publish([n |-> Len(log) + 1, kind |-> "remove", who |-> {u}])
  /\ UNCHANGED <<link, pgbus, fetching, subs, sessions, heard, asof, since, troubled>>

(* ... and conversation.delete goes to the user's own topic afterwards. *)
SayFarewell(u) ==
  /\ u \in farewell
  /\ farewell' = farewell \ {u}
  /\ wire' = Append(wire, [n |-> 0, kind |-> "delete", who |-> {u}])
  /\ UNCHANGED <<member, log, link, pgbus, fetching, subs, sessions, heard, asof, since, troubled>>

(* addMembers: the row and member.add are one transaction. *)
AddMember(u) ==
  /\ u \notin member
  /\ Len(log) < MaxEvents
  /\ member' = member \cup {u}
  /\ Publish([n |-> Len(log) + 1, kind |-> "small", who |-> {}])
  /\ UNCHANGED <<farewell, link, pgbus, fetching, subs, sessions, heard, asof, since, troubled>>

(* The server executes the next statement of the listener connection. *)
Execute ==
  /\ cmds # <<>>
  /\ listening' = (Head(cmds) = "listen")
  /\ cmds' = Tail(cmds)
  /\ UNCHANGED <<db, wire, drops, pgbus, fetching, subs, sessions, heard, asof, since, troubled>>

(* The connection is lost: what was on the wire is gone, adders that wait  *)
(* fail, and the driver listens again for every callback it has.           *)
Drop ==
  /\ drops < MaxDrops
  /\ drops' = drops + 1
  /\ wire' = <<>>
  /\ listening' = FALSE
  /\ cmds' = IF callbacks > 0 THEN <<"listen">> ELSE <<>>
  /\ IF \E s \in Session : phase[s] \in {"first", "orphan"}
     THEN known' = FALSE /\ topic' = {}
     ELSE UNCHANGED <<known, topic>>
  /\ phase' = [s \in Session |-> IF phase[s] = "asked" THEN "asked" ELSE "idle"]
  /\ troubled' = TRUE
  /\ UNCHANGED <<db, joins, pgbus, fetching, grace, stray, holds, gone, heard, asof, since>>

-----------------------------------------------------------------------------
(* SubscriptionManager. *)

(* remove(topic, s): the last one to leave starts the grace period. *)
Remove(s) ==
  IF known
  THEN /\ topic' = topic \ {s}
       /\ grace' = (grace \/ topic \ {s} = {})
       /\ stray' = IF grace /\ topic \ {s} = {} THEN stray + 1 ELSE stray
       /\ stray' <= MaxStray
  ELSE UNCHANGED <<topic, grace, stray>>

Enter(s) ==
  /\ topic' = topic \cup {s}
  /\ holds' = holds \cup {s}
  /\ since' = [x \in Session |-> IF (x = s /\ s \notin topic) \/ (x \in topic /\ bus = "empty")
                                THEN Len(log) ELSE since[x]]

(* Subscribe or IDENTIFY: the membership query. *)
AskMembership(s) ==
  /\ phase[s] = "idle"
  /\ s \notin gone
  /\ s \in member
  /\ joins < MaxJoins
  /\ joins' = joins + 1
  /\ phase' = [phase EXCEPT ![s] = "asked"]
  /\ asof' = [asof EXCEPT ![s] = Len(log)]
  /\ UNCHANGED <<db, link, wire, pgbus, fetching, subs, holds, gone, heard, since, troubled>>

(* add(topic, s), when nobody has the topic: LISTEN, and wait for it. *)
AddFirst(s) ==
  /\ phase[s] = "asked"
  /\ ~known
  /\ bus = "none"
  /\ grace' = FALSE
  /\ known' = TRUE
  /\ bus' = "empty"
  /\ callbacks' = callbacks + 1
  /\ cmds' = IF callbacks = 0 THEN Append(cmds, "listen") ELSE cmds
  /\ phase' = [phase EXCEPT ![s] = "first"]
  /\ UNCHANGED <<db, joins, listening, drops, wire, stop, fetching, topic, stray, holds, gone, heard, asof,
                 since, troubled>>

(* ... when topics has none but the bus still has a set, after a LISTEN *)
(* that failed: the handler is added to it at once.                     *)
AddToBus(s) ==
  /\ phase[s] = "asked"
  /\ ~known
  /\ bus # "none"
  /\ grace' = FALSE
  /\ known' = TRUE
  /\ bus' = "ready"
  /\ Enter(s)
  /\ phase' = [phase EXCEPT ![s] = "idle"]
  /\ UNCHANGED <<db, joins, link, wire, stop, callbacks, fetching, stray, gone, heard, asof, troubled>>

(* ... when somebody has it: join, whether or not LISTEN has been answered. *)
AddNext(s) ==
  /\ phase[s] = "asked"
  /\ known
  /\ grace' = FALSE
  /\ Enter(s)
  /\ phase' = [phase EXCEPT ![s] = "idle"]
  /\ UNCHANGED <<db, joins, link, wire, pgbus, fetching, known, stray, gone, heard, asof, troubled>>

(* Mutant: the way to undo LISTEN is not kept. *)
ListenedForGood(s) ==
  /\ phase[s] \in {"first", "orphan"}
  /\ cmds = <<>>
  /\ phase' = [phase EXCEPT ![s] = "idle"]
  /\ \/ phase[s] = "first" /\ bus' = "ready" /\ Enter(s)
     \/ phase[s] = "orphan" /\ holds' = holds \cup {s} /\ UNCHANGED <<bus, topic, since>>
  /\ UNCHANGED <<db, joins, link, wire, stop, callbacks, fetching, known, grace, stray, gone, heard,
                 asof, troubled>>

(* LISTEN is answered: the bus keeps the way to undo it and gets the      *)
(* handler, and the session joins; an orphan joins sets nobody looks at.  *)
Listened(s) ==
  /\ phase[s] \in {"first", "orphan"}
  /\ cmds = <<>>
  /\ stop' = TRUE
  /\ phase' = [phase EXCEPT ![s] = "idle"]
  /\ \/ phase[s] = "first" /\ bus' = "ready" /\ Enter(s)
     \/ phase[s] = "orphan" /\ holds' = holds \cup {s} /\ UNCHANGED <<bus, topic, since>>
  /\ UNCHANGED <<db, joins, link, wire, callbacks, fetching, known, grace, stray, gone, heard, asof, troubled>>

(* The Unsubscribe command, sent for a conversation held or not. *)
Unsubscribe(s) ==
  /\ s \notin gone
  /\ Remove(s)
  /\ holds' = holds \ {s}
  /\ UNCHANGED <<db, joins, link, wire, pgbus, fetching, known, phase, gone, heard, asof, since, troubled>>

(* destroySession: expiry, eviction or revocation, also while it subscribes. *)
Destroy(s) ==
  /\ s \notin gone
  /\ gone' = gone \cup {s}
  /\ IF s \in holds
     THEN Remove(s) /\ holds' = holds \ {s}
     ELSE UNCHANGED <<topic, grace, stray, holds>>
  /\ UNCHANGED <<db, joins, link, wire, pgbus, fetching, known, phase, heard, asof, since, troubled>>

(* Mutant: the topic goes, the bus keeps listening. *)
ReleaseListening ==
  IF topic # {}
  THEN UNCHANGED <<known, pgbus, cmds, fetching, phase, troubled>>
  ELSE /\ known' = FALSE
       /\ phase' = [s \in Session |-> IF phase[s] = "first" THEN "orphan" ELSE phase[s]]
       /\ troubled' = (troubled \/ \E s \in Session : phase[s] = "first")
       /\ UNCHANGED <<pgbus, cmds, fetching>>

(* Mutant: the callback is taken back a second time. *)
ReleaseTwice ==
  IF topic # {}
  THEN UNCHANGED <<known, pgbus, cmds, fetching, phase, troubled>>
  ELSE /\ known' = FALSE
       /\ phase' = [s \in Session |-> IF phase[s] = "first" THEN "orphan" ELSE phase[s]]
       /\ troubled' = (troubled \/ \E s \in Session : phase[s] = "first")
       /\ bus' = "none" /\ fetching' = {} /\ stop' = FALSE
       /\ callbacks' = callbacks - 1
       /\ cmds' = IF callbacks = 1 THEN Append(cmds, "unlisten") ELSE cmds

(* A timer fires.  When the topic is still empty it goes, and with it the  *)
(* bus's set and the driver's callback; an adder that waits keeps sets     *)
(* that nobody looks at any more.                                          *)
Release ==
  IF topic # {}
  THEN UNCHANGED <<known, pgbus, cmds, fetching, phase, troubled>>
  ELSE /\ known' = FALSE
       /\ troubled' = (troubled \/ \E s \in Session : phase[s] = "first")
       /\ phase' = [s \in Session |-> IF phase[s] = "first" THEN "orphan" ELSE phase[s]]
       /\ bus' = "none"
       /\ fetching' = {}
       /\ stop' = FALSE
       /\ callbacks' = IF stop /\ bus # "none" THEN callbacks - 1 ELSE callbacks
       /\ cmds' = IF stop /\ bus # "none" /\ callbacks = 1 THEN Append(cmds, "unlisten") ELSE cmds

TimerFires ==
  /\ grace
  /\ grace' = FALSE
  /\ Release
  /\ UNCHANGED <<db, joins, listening, drops, wire, topic, stray, holds, gone, heard, asof, since>>

(* A timer whose handle is lost takes away the handle of another one. *)
StrayFires ==
  /\ stray > 0
  /\ grace' = FALSE
  /\ stray' = IF grace THEN stray ELSE stray - 1
  /\ Release
  /\ UNCHANGED <<db, joins, listening, drops, wire, topic, holds, gone, heard, asof, since>>

-----------------------------------------------------------------------------
(* PgBus.dispatch and the handler of the topic. *)

Copies(e, k) == [i \in 1..k |-> e]

(* The recipients of an event, k times each. *)
Hear(e, k) == heard' = [s \in Session |-> IF s \in topic THEN heard[s] \o Copies(e, k) ELSE heard[s]]

(* Mutant: every body is read from bus_overflow. *)
DeliverSmallLate ==
  /\ wire # <<>> /\ Head(wire).kind = "small"
  /\ wire' = Tail(wire)
  /\ fetching' = IF bus = "ready"
                 THEN fetching \cup {<<Head(wire).n, i>> : i \in 1..callbacks}
                 ELSE fetching
  /\ UNCHANGED <<db, link, pgbus, subs, sessions, heard, asof, since, troubled>>

(* A notification that carries its event goes to everybody at once. *)
DeliverSmall ==
  /\ wire # <<>> /\ Head(wire).kind = "small"
  /\ wire' = Tail(wire)
  /\ IF bus = "ready" THEN Hear(Head(wire).n, callbacks) ELSE UNCHANGED heard
  /\ UNCHANGED <<db, link, pgbus, fetching, subs, sessions, asof, since, troubled>>

(* A big event waits for its body; later notifications do not wait for it. *)
DeliverBig ==
  /\ wire # <<>> /\ Head(wire).kind = "big"
  /\ wire' = Tail(wire)
  /\ fetching' = IF bus = "ready"
                 THEN fetching \cup {<<Head(wire).n, i>> : i \in 1..callbacks}
                 ELSE fetching
  /\ UNCHANGED <<db, link, pgbus, subs, sessions, heard, asof, since, troubled>>

FetchDone(f) ==
  /\ f \in fetching
  /\ fetching' = fetching \ {f}
  /\ Hear(f[1], 1)
  /\ UNCHANGED <<db, link, wire, pgbus, subs, sessions, asof, since, troubled>>

(* The body is missing, expired or cannot be read. *)
FetchLost(f) ==
  /\ f \in fetching
  /\ fetching' = fetching \ {f}
  /\ troubled' = TRUE
  /\ UNCHANGED <<db, link, wire, pgbus, subs, sessions, heard, asof, since>>

(* dropConversation, for the user's session. *)
Evict(u) ==
  IF u \in holds THEN Remove(u) /\ holds' = holds \ {u} ELSE UNCHANGED <<topic, grace, stray, holds>>

(* Mutant: member.remove is an event like any other. *)
DeliverRemoveKept(u) ==
  /\ wire # <<>> /\ Head(wire).kind = "remove" /\ u \in Head(wire).who
  /\ wire' = Tail(wire)
  /\ IF bus = "ready" THEN Hear(Head(wire).n, callbacks) ELSE UNCHANGED heard
  /\ UNCHANGED <<db, link, pgbus, fetching, subs, sessions, asof, since, troubled>>

(* member.remove: everybody hears it, then its user is dropped; a second *)
(* callback no longer finds the user.                                    *)
DeliverRemove(u) ==
  /\ wire # <<>> /\ Head(wire).kind = "remove" /\ u \in Head(wire).who
  /\ wire' = Tail(wire)
  /\ IF bus = "ready" /\ callbacks > 0 /\ topic # {}
     THEN /\ heard' = [s \in Session |->
                 IF s \notin topic THEN heard[s]
                 ELSE heard[s] \o Copies(Head(wire).n, IF s = u THEN 1 ELSE callbacks)]
          /\ IF u \in topic THEN Evict(u) ELSE UNCHANGED <<topic, grace, stray, holds>>
     ELSE UNCHANGED <<heard, topic, grace, stray, holds>>
  /\ UNCHANGED <<db, joins, link, pgbus, fetching, known, phase, gone, asof, since, troubled>>

(* conversation.delete, on the user's own topic. *)
DeliverDelete(u) ==
  /\ wire # <<>> /\ Head(wire).kind = "delete" /\ u \in Head(wire).who
  /\ wire' = Tail(wire)
  /\ IF u \in gone THEN UNCHANGED <<topic, grace, stray, holds>> ELSE Evict(u)
  /\ UNCHANGED <<db, joins, link, pgbus, fetching, known, phase, gone, heard, asof, since, troubled>>

-----------------------------------------------------------------------------

Joining(s) == AskMembership(s) \/ AddFirst(s) \/ AddToBus(s) \/ AddNext(s) \/ Listened(s)
Leaving(s) == Unsubscribe(s) \/ Destroy(s)
Database   == \/ \E kind \in Kind : Commit(kind)
              \/ \E u \in Session : RemoveMember(u) \/ SayFarewell(u) \/ AddMember(u)
Deliver    == \/ DeliverSmall \/ DeliverBig
              \/ \E f \in fetching : FetchDone(f) \/ FetchLost(f)
              \/ \E u \in Session : DeliverRemove(u) \/ DeliverDelete(u)

Next == \/ \E s \in Session : Joining(s) \/ Leaving(s)
        \/ TimerFires \/ StrayFires
        \/ Database \/ Execute \/ Drop \/ Deliver

Spec == Init /\ [][Next]_vars

-----------------------------------------------------------------------------
(* Properties. *)

OnWire(n)     == \E i \in DOMAIN wire : wire[i].n = n
InFetch(n)    == \E f \in fetching : f[1] = n
TimesIn(n, h) == Cardinality({i \in DOMAIN h : h[i] = n})

(* Until the listener's connection or a body is lost, or a timer fires     *)
(* while a LISTEN is unanswered, a session in the topic is dispatched      *)
(* each event exactly once that was committed since it joined, or since    *)
(* the LISTEN it did not wait for was answered: it was, or it is on its    *)
(* way; however others join, leave, and let timers run                     *)
(* (subscriptions.ts add, remove; bus.ts subscribe, dispatch).             *)
ExactlyOnce ==
  ~troubled /\ bus = "ready" =>
    \A s \in topic : \A n \in since[s] + 1..Len(log) :
      TimesIn(n, heard[s]) = IF OnWire(n) \/ InFetch(n) THEN 0 ELSE 1

(* Whatever happens to connections and timers, events with their body in   *)
(* the notification are dispatched to a session in the order of their      *)
(* commits (bus.ts dispatch awaits nothing for them).                      *)
SmallInOrder ==
  \A s \in Session : \A i, j \in DOMAIN heard[s] :
    /\ i < j
    /\ log[heard[s][i]].kind # "big"
    /\ log[heard[s][j]].kind # "big"
    => heard[s][i] <= heard[s][j]

Removals(u) == {n \in DOMAIN log : log[n].kind = "remove" /\ u \in log[n].who}

(* Until such trouble, somebody who was removed is in the topic only while *)
(* the removal is on its way, or when the membership was read before the   *)
(* removal and the session joined after it (server.ts Subscribe,           *)
(* subscriptions.ts handlerFor).                                           *)
EvictedIsOut ==
  ~troubled /\ bus = "ready" =>
    \A s \in topic \ member : \A n \in Removals(s) :
      \/ OnWire(n)
      \/ asof[s] < n /\ n <= since[s]
      \/ \E m \in Removals(s) : m > n

Waiting == \E s \in Session : phase[s] = "first"

(* Until such trouble, a topic the node listens to, or is about to, has a  *)
(* session, or one that waits to join, or a timer that will look at it, or *)
(* UNLISTEN is on its way: no LISTEN outlives its last session for good    *)
(* (subscriptions.ts remove, bus.ts unsubscribe).                          *)
IdleIsTemporary ==
  ~troubled /\ (listening \/ cmds # <<>>) /\ topic = {} =>
    \/ Waiting \/ grace \/ stray > 0
    \/ cmds # <<>> /\ cmds[Len(cmds)] = "unlisten"

=============================================================================
