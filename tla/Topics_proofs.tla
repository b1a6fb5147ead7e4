---------------------------- MODULE Topics_proofs ----------------------------
(***************************************************************************)
(* The properties of Topics, for every number of sessions and every bound. *)
(* The invariants come in layers, each proved with the ones before it:     *)
(* types and the count of callbacks; who is in the topic and what the bus  *)
(* and the connection are doing until trouble; the order of notifications; *)
(* and the properties themselves.                                          *)
(***************************************************************************)
EXTENDS Topics, FiniteSetTheorems, SequenceTheorems, TLAPS

-----------------------------------------------------------------------------
(* Types, and the driver's callbacks. *)

Waiters == {s \in Session : phase[s] \in {"first", "orphan"}}

(* Each adder that waits has a callback, and so has the stop of the bus. *)
CallInv == Cardinality(Waiters) + (IF stop THEN 1 ELSE 0) <= callbacks

LEMMA Counts ==
  ASSUME NEW T \in SUBSET Session
  PROVE  IsFiniteSet(T) /\ Cardinality(T) \in Nat
BY SessionAssumption, FS_Subset, FS_CardinalityType

LEMMA InitTypes ==
  ASSUME Init
  PROVE  TypeOK /\ CallInv
<1>1. TypeOK
  <2>1. log \in Seq(Event) /\ wire \in Seq(Event) /\ cmds \in Seq({"listen", "unlisten"})
    BY DEF Init
  <2>2. drops \in 0..MaxDrops /\ joins \in 0..MaxJoins
    BY BoundAssumption DEF Init
  <2>3. /\ phase \in [Session -> Phase] /\ heard \in [Session -> Seq(Nat)]
        /\ asof \in [Session -> Nat] /\ since \in [Session -> Nat]
    BY DEF Init, Phase
  <2> QED
    BY <2>1, <2>2, <2>3 DEF Init, TypeOK
<1>2. Waiters = {}
  BY DEF Init, Waiters
<1> QED
  BY <1>1, <1>2, FS_EmptySet DEF Init, CallInv

(* What a step that leaves the waiting adders and the callbacks alone      *)
(* keeps of the count.                                                      *)
LEMMA CallsKept ==
  ASSUME CallInv, Waiters' = Waiters, UNCHANGED <<callbacks, stop>>
  PROVE  CallInv'
BY DEF CallInv

LEMMA HearTypes ==
  ASSUME TypeOK, NEW n \in Nat, NEW k \in [Session -> Nat]
  PROVE  [s \in Session |-> IF s \in topic THEN heard[s] \o Copies(n, k[s]) ELSE heard[s]]
           \in [Session -> Seq(Nat)]
<1>1. \A i \in Nat : Copies(n, i) \in Seq(Nat)
  BY DEF Copies
<1>2. \A s \in Session : heard[s] \in Seq(Nat)
  BY DEF TypeOK
<1>3. \A s \in Session : heard[s] \o Copies(n, k[s]) \in Seq(Nat)
  BY <1>1, <1>2
<1> QED
  BY <1>2, <1>3

LEMMA RemoveTypes ==
  ASSUME TypeOK, NEW s \in Session, Remove(s)
  PROVE  topic' \in SUBSET Session /\ grace' \in BOOLEAN /\ stray' \in Nat
BY DEF TypeOK, Remove

LEMMA EnterTypes ==
  ASSUME TypeOK, NEW s \in Session, Enter(s)
  PROVE  topic' \in SUBSET Session /\ holds' \in SUBSET Session /\ since' \in [Session -> Nat]
BY DEF TypeOK, Enter

LEMMA PublishTypes ==
  ASSUME TypeOK, NEW e \in Event, Publish(e)
  PROVE  log' \in Seq(Event) /\ wire' \in Seq(Event)
BY DEF TypeOK, Publish, Notify

(* Subscriptions. *)
LEMMA JoinTypes ==
  ASSUME TypeOK, CallInv, NEW s \in Session, Joining(s)
  PROVE  TypeOK' /\ CallInv'
<1>c. IsFiniteSet(Waiters) /\ Cardinality(Waiters) \in Nat
  BY Counts DEF Waiters
<1>l. Len(log) \in Nat
  BY DEF TypeOK
<1>1. CASE AskMembership(s)
  <2>1. TypeOK'
    BY <1>1, <1>l, BoundAssumption DEF AskMembership, TypeOK, Phase, db, link, pgbus, subs
  <2>2. Waiters' = Waiters
    BY <1>1 DEF AskMembership, Waiters, TypeOK
  <2> QED
    BY <1>1, <2>1, <2>2, CallsKept DEF AskMembership, pgbus
<1>2. CASE AddFirst(s)
  <2>0. cmds' \in Seq({"listen", "unlisten"}) /\ phase' \in [Session -> Phase] /\ callbacks' \in Nat
    BY <1>2 DEF AddFirst, TypeOK, Phase
  <2>1. TypeOK'
    BY <1>2, <2>0 DEF AddFirst, TypeOK, db
  <2>2. Waiters' = Waiters \cup {s} /\ s \notin Waiters
    BY <1>2 DEF AddFirst, Waiters, TypeOK
  <2>3. Cardinality(Waiters') = Cardinality(Waiters) + 1
    BY <1>c, <2>2, FS_AddElement
  <2> QED
    BY SMTT(30), <1>2, <1>c, <2>1, <2>3 DEF AddFirst, CallInv, TypeOK
<1>3. CASE AddToBus(s)
  <2>1. TypeOK'
    BY <1>3, EnterTypes DEF AddToBus, TypeOK, Phase, db, link
  <2>2. Waiters' = Waiters
    BY <1>3 DEF AddToBus, Waiters, TypeOK
  <2> QED
    BY <1>3, <2>1, <2>2, CallsKept DEF AddToBus
<1>4. CASE AddNext(s)
  <2>1. TypeOK'
    BY <1>4, EnterTypes DEF AddNext, TypeOK, Phase, db, link, pgbus
  <2>2. Waiters' = Waiters
    BY <1>4 DEF AddNext, Waiters, TypeOK
  <2> QED
    BY <1>4, <2>1, <2>2, CallsKept DEF AddNext, pgbus
<1>5. CASE Listened(s)
  <2>1. topic' \in SUBSET Session /\ holds' \in SUBSET Session /\ since' \in [Session -> Nat]
    BY <1>5, EnterTypes DEF Listened, TypeOK
  <2>p. phase' \in [Session -> Phase] /\ bus' \in {"none", "empty", "ready"}
    BY <1>5 DEF Listened, TypeOK, Phase
  <2>2. TypeOK'
    BY <1>5, <2>1, <2>p DEF Listened, TypeOK, db, link
  <2>3. Waiters' = Waiters \ {s} /\ s \in Waiters
    BY <1>5 DEF Listened, Waiters, TypeOK
  <2>4. Cardinality(Waiters') = Cardinality(Waiters) - 1
    BY <1>c, <2>3, FS_RemoveElement
  <2>5. UNCHANGED callbacks /\ stop' = TRUE /\ callbacks \in Nat
    BY <1>5 DEF Listened, TypeOK
  <2> QED
    BY <1>c, <2>2, <2>4, <2>5 DEF CallInv
<1> QED
  BY <1>1, <1>2, <1>3, <1>4, <1>5 DEF Joining

(* Timers. *)
LEMMA TimerTypes ==
  ASSUME TypeOK, CallInv, TimerFires \/ StrayFires
  PROVE  TypeOK' /\ CallInv'
<1>c. IsFiniteSet(Waiters) /\ Cardinality(Waiters) \in Nat
  BY Counts DEF Waiters
<1>p. phase' \in [Session -> Phase] /\ \A s \in Session : s \in Waiters' <=> s \in Waiters
  <2>1. phase' \in {phase, [s \in Session |-> IF phase[s] = "first" THEN "orphan" ELSE phase[s]]}
    BY DEF TimerFires, StrayFires, Release
  <2>2. phase \in [Session -> Phase]
    BY DEF TypeOK
  <2> QED
    BY <2>1, <2>2 DEF Phase, Waiters
<1>1. Waiters' = Waiters
  BY <1>p DEF Waiters
<1>2. callbacks' \in Nat /\ stop' \in BOOLEAN /\ CallInv'
  <2>1. CASE topic # {}
    <3>1. UNCHANGED <<callbacks, stop>>
      BY <2>1 DEF TimerFires, StrayFires, Release, pgbus
    <3> QED
      BY <1>1, <3>1 DEF TypeOK, CallInv
  <2>2. CASE topic = {} /\ stop
    <3>1. stop' \in BOOLEAN /\ ~stop' /\ callbacks' \in {callbacks, callbacks - 1}
      BY <2>2 DEF TimerFires, StrayFires, Release
    <3>2. Cardinality(Waiters) + 1 <= callbacks /\ callbacks \in Nat
      BY <2>2 DEF CallInv, TypeOK
    <3>3. Cardinality(Waiters) <= callbacks' /\ callbacks' \in Nat
      BY <1>c, <3>1, <3>2
    <3>4. CallInv'
      BY <1>1, <1>c, <3>1, <3>3 DEF CallInv
    <3> QED
      BY <3>1, <3>3, <3>4
  <2>3. CASE topic = {} /\ ~stop
    <3>1. stop' \in BOOLEAN /\ ~stop' /\ callbacks' = callbacks
      BY <2>3 DEF TimerFires, StrayFires, Release
    <3>2. Cardinality(Waiters) <= callbacks /\ callbacks \in Nat
      BY <1>c, <2>3 DEF CallInv, TypeOK
    <3>4. CallInv'
      BY <1>1, <1>c, <3>1, <3>2 DEF CallInv
    <3> QED
      BY <3>1, <3>2, <3>4
  <2> QED
    BY <2>1, <2>2, <2>3 DEF TypeOK
<1>3. cmds' \in Seq({"listen", "unlisten"})
  <2>1. cmds' \in {cmds, Append(cmds, "unlisten")}
    BY DEF TimerFires, StrayFires, Release
  <2>2. cmds \in Seq({"listen", "unlisten"})
    BY DEF TypeOK
  <2> QED
    BY <2>1, <2>2
<1>4. grace' \in BOOLEAN /\ stray' \in Nat
  <2>1. grace \in BOOLEAN /\ stray \in Nat
    BY DEF TypeOK
  <2>2. CASE TimerFires
    BY <2>1, <2>2 DEF TimerFires
  <2>3. CASE StrayFires
    <3>1. grace' \in BOOLEAN /\ stray > 0 /\ stray' \in {stray, stray - 1}
      BY <2>3, Zenon DEF StrayFires
    <3>2. stray - 1 \in Nat
      BY <2>1, <3>1
    <3> QED
      BY <2>1, <3>1, <3>2
  <2> QED
    BY <2>2, <2>3
<1>5. bus' \in {"none", "empty", "ready"} /\ fetching' \in SUBSET (Nat \X Nat) /\ known' \in BOOLEAN
  BY DEF TimerFires, StrayFires, Release, TypeOK, pgbus
<1>6. troubled' \in BOOLEAN
  BY DEF TimerFires, StrayFires, Release, TypeOK
<1>7. TypeOK'
  <2>1. CASE TimerFires
    BY <1>p, <1>2, <1>3, <1>4, <1>5, <1>6, <2>1 DEF TimerFires, TypeOK, db
  <2>2. CASE StrayFires
    BY <1>p, <1>2, <1>3, <1>4, <1>5, <1>6, <2>2 DEF StrayFires, TypeOK, db
  <2> QED
    BY <2>1, <2>2
<1> QED
  BY <1>2, <1>7

LEMMA LeaveTypes ==
  ASSUME TypeOK, CallInv, NEW s \in Session, Leaving(s)
  PROVE  TypeOK' /\ CallInv'
<1>1. topic' \in SUBSET Session /\ grace' \in BOOLEAN /\ stray' \in Nat
  BY RemoveTypes DEF Leaving, Unsubscribe, Destroy, TypeOK
<1>2. TypeOK'
  BY <1>1 DEF Leaving, Unsubscribe, Destroy, TypeOK, db, link, pgbus
<1>3. Waiters' = Waiters /\ UNCHANGED <<callbacks, stop>>
  BY DEF Leaving, Unsubscribe, Destroy, Waiters, pgbus
<1> QED
  BY <1>2, <1>3, CallsKept

LEMMA DatabaseTypes ==
  ASSUME TypeOK, CallInv, Database
  PROVE  TypeOK' /\ CallInv'
<1>l. Len(log) + 1 \in Nat
  BY DEF TypeOK
<1>1. ASSUME NEW kind \in Kind, Commit(kind)
      PROVE  TypeOK'
  <2>1. log' \in Seq(Event) /\ wire' \in Seq(Event)
    BY <1>l, <1>1, PublishTypes DEF Commit, Event, Kind
  <2> QED
    BY <1>1, <2>1 DEF Commit, TypeOK, link, pgbus, subs, sessions
<1>2. ASSUME NEW u \in Session, RemoveMember(u)
      PROVE  TypeOK'
  <2>1. log' \in Seq(Event) /\ wire' \in Seq(Event)
    BY <1>l, <1>2, PublishTypes DEF RemoveMember, Event, Kind
  <2> QED
    BY <1>2, <2>1 DEF RemoveMember, TypeOK, link, pgbus, subs, sessions
<1>3. ASSUME NEW u \in Session, SayFarewell(u)
      PROVE  TypeOK'
  <2>1. [n |-> 0, kind |-> "delete", who |-> {u}] \in Event
    BY DEF Event, Kind
  <2>2. wire' \in Seq(Event)
    BY <1>3, <2>1 DEF SayFarewell, TypeOK
  <2> QED
    BY <1>3, <2>2 DEF SayFarewell, TypeOK, link, pgbus, subs, sessions
<1>4. ASSUME NEW u \in Session, AddMember(u)
      PROVE  TypeOK'
  <2>1. log' \in Seq(Event) /\ wire' \in Seq(Event)
    BY <1>l, <1>4, PublishTypes DEF AddMember, Event, Kind
  <2> QED
    BY <1>4, <2>1 DEF AddMember, TypeOK, link, pgbus, subs, sessions
<1>5. TypeOK'
  BY <1>1, <1>2, <1>3, <1>4 DEF Database
<1>6. Waiters' = Waiters /\ UNCHANGED <<callbacks, stop>>
  BY DEF Database, Commit, RemoveMember, SayFarewell, AddMember, sessions, pgbus, Waiters
<1> QED
  BY <1>5, <1>6, CallsKept

LEMMA LinkTypes ==
  ASSUME TypeOK, CallInv, Execute \/ Drop
  PROVE  TypeOK' /\ CallInv'
<1>1. CASE Execute
  <2>1. TypeOK'
    BY <1>1 DEF Execute, TypeOK, db, pgbus, subs, sessions
  <2>2. Waiters' = Waiters /\ UNCHANGED <<callbacks, stop>>
    BY <1>1 DEF Execute, sessions, pgbus, Waiters
  <2> QED
    BY <2>1, <2>2, CallsKept
<1>2. CASE Drop
  <2>a. cmds' \in Seq({"listen", "unlisten"}) /\ wire' \in Seq(Event)
    <3>1. <<>> \in Seq({"listen", "unlisten"}) /\ <<"listen">> \in Seq({"listen", "unlisten"})
      OBVIOUS
    <3>2. <<>> \in Seq(Event)
      OBVIOUS
    <3> QED
      BY <1>2, <3>1, <3>2 DEF Drop
  <2>b. drops' \in 0..MaxDrops
    BY <1>2, BoundAssumption DEF Drop, TypeOK
  <2>c. phase' \in [Session -> Phase] /\ known' \in BOOLEAN /\ topic' \in SUBSET Session
    BY <1>2 DEF Drop, TypeOK, Phase
  <2>1. TypeOK'
    BY <1>2, <2>a, <2>b, <2>c DEF Drop, TypeOK, db, pgbus
  <2>2. Waiters' = {}
    BY <1>2 DEF Drop, Waiters, TypeOK
  <2>3. Cardinality(Waiters') = 0
    BY <2>2, FS_EmptySet
  <2>4. Cardinality(Waiters) \in Nat
    BY Counts DEF Waiters
  <2>5. UNCHANGED <<callbacks, stop>> /\ callbacks \in Nat
    BY <1>2 DEF Drop, pgbus, TypeOK
  <2> QED
    BY <2>1, <2>3, <2>4, <2>5 DEF CallInv
<1> QED
  BY <1>1, <1>2

LEMMA DeliverTypes ==
  ASSUME TypeOK, CallInv, Deliver
  PROVE  TypeOK' /\ CallInv'
<1>e. wire # <<>> => Head(wire) \in Event /\ Tail(wire) \in Seq(Event)
  BY DEF TypeOK
<1>n. wire # <<>> => Head(wire).n \in Nat
  BY <1>e DEF Event
<1>1. CASE DeliverSmall
  <2>1. heard' \in [Session -> Seq(Nat)]
    <3>1. callbacks \in Nat /\ [s \in Session |-> callbacks] \in [Session -> Nat]
      BY DEF TypeOK
    <3>2. [s \in Session |-> IF s \in topic THEN heard[s] \o Copies(Head(wire).n, callbacks) ELSE heard[s]]
            \in [Session -> Seq(Nat)]
      BY <1>n, <1>1, <3>1, HearTypes DEF DeliverSmall
    <3> QED
      BY <1>1, <3>2 DEF DeliverSmall, Hear, TypeOK
  <2> QED
    BY <1>1, <1>e, <2>1 DEF DeliverSmall, TypeOK, db, link, pgbus, subs, sessions, CallInv, Waiters
<1>2. CASE DeliverBig
  <2>1. fetching' \in SUBSET (Nat \X Nat)
    BY <1>2, <1>n DEF DeliverBig, TypeOK
  <2> QED
    BY <1>2, <1>e, <2>1 DEF DeliverBig, TypeOK, db, link, pgbus, subs, sessions, CallInv, Waiters
<1>3. ASSUME NEW f \in fetching, FetchDone(f)
      PROVE  TypeOK' /\ CallInv'
  <2>1. f[1] \in Nat
    BY DEF TypeOK
  <2>2. heard' \in [Session -> Seq(Nat)]
    <3>1. [s \in Session |-> IF s \in topic THEN heard[s] \o Copies(f[1], 1) ELSE heard[s]]
            \in [Session -> Seq(Nat)]
      <4>1. [s \in Session |-> 1] \in [Session -> Nat]
        OBVIOUS
      <4> QED
        BY <2>1, <4>1, HearTypes
    <3> QED
      BY <1>3, <3>1 DEF FetchDone, Hear
  <2> QED
    BY <1>3, <2>2 DEF FetchDone, TypeOK, db, link, pgbus, subs, sessions, CallInv, Waiters
<1>4. ASSUME NEW f \in fetching, FetchLost(f)
      PROVE  TypeOK' /\ CallInv'
  BY <1>4 DEF FetchLost, TypeOK, db, link, pgbus, subs, sessions, CallInv, Waiters
<1>5. ASSUME NEW u \in Session, DeliverRemove(u)
      PROVE  TypeOK' /\ CallInv'
  <2>1. heard' \in [Session -> Seq(Nat)]
    <3> DEFINE k == [s \in Session |-> IF s = u THEN 1 ELSE callbacks]
    <3>1. k \in [Session -> Nat]
      BY DEF TypeOK
    <3>2. [s \in Session |-> IF s \in topic THEN heard[s] \o Copies(Head(wire).n, k[s]) ELSE heard[s]]
            \in [Session -> Seq(Nat)]
      BY <1>n, <1>5, <3>1, HearTypes DEF DeliverRemove
    <3> QED
      BY <1>5, <3>2 DEF DeliverRemove, TypeOK
  <2>2. topic' \in SUBSET Session /\ grace' \in BOOLEAN /\ stray' \in Nat /\ holds' \in SUBSET Session
    BY <1>5, RemoveTypes DEF DeliverRemove, Evict, TypeOK
  <2> QED
    BY <1>5, <1>e, <2>1, <2>2 DEF DeliverRemove, TypeOK, db, link, pgbus, CallInv, Waiters
<1>6. ASSUME NEW u \in Session, DeliverDelete(u)
      PROVE  TypeOK' /\ CallInv'
  <2>2. topic' \in SUBSET Session /\ grace' \in BOOLEAN /\ stray' \in Nat /\ holds' \in SUBSET Session
    BY <1>6, RemoveTypes DEF DeliverDelete, Evict, TypeOK
  <2> QED
    BY <1>6, <1>e, <2>2 DEF DeliverDelete, TypeOK, db, link, pgbus, CallInv, Waiters
<1> QED
  BY <1>1, <1>2, <1>3, <1>4, <1>5, <1>6 DEF Deliver

LEMMA TypeStep ==
  ASSUME TypeOK, CallInv, [Next]_vars
  PROVE  TypeOK' /\ CallInv'
<1>1. CASE UNCHANGED vars
  BY <1>1 DEF vars, db, link, pgbus, subs, sessions, TypeOK, CallInv, Waiters
<1> QED
  BY <1>1, JoinTypes, LeaveTypes, TimerTypes, DatabaseTypes, LinkTypes, DeliverTypes DEF Next

-----------------------------------------------------------------------------
(* Who is in the topic, and what the bus and the connection do. *)

HoldInv ==
  /\ topic \subseteq holds
  /\ ~known => topic = {} /\ \A s \in Session : phase[s] # "first"

(* What the listener connection will do in the end. *)
EndsListening == IF cmds = <<>> THEN listening ELSE cmds[Len(cmds)] = "listen"

(* Until trouble, the bus has one callback or none, an adder that waits    *)
(* is the only one, and the connection listens, or is about to, when the   *)
(* bus has a set.                                                           *)
QuietInv ==
  ~troubled =>
    /\ known <=> bus # "none"
    /\ callbacks = IF bus = "none" THEN 0 ELSE 1
    /\ stop <=> bus = "ready"
    /\ bus = "empty" <=> \E s \in Session : phase[s] = "first"
    /\ \A s, t \in Session : phase[s] = "first" /\ phase[t] = "first" => s = t
    /\ \A s \in Session : phase[s] # "orphan"
    /\ bus = "ready" => cmds = <<>>
    /\ bus # "none" <=> EndsListening

GraceInv == ~troubled /\ bus = "ready" /\ topic = {} => grace \/ stray > 0

BusInv == HoldInv /\ QuietInv /\ GraceInv

LEMMA InitBus ==
  ASSUME Init
  PROVE  BusInv
BY DEF Init, BusInv, HoldInv, QuietInv, GraceInv, EndsListening

LEMMA QuietKept ==
  ASSUME QuietInv, UNCHANGED <<known, callbacks, stop, bus, cmds, listening>>, troubled \/ ~troubled',
         troubled => troubled',
         \A s \in Session : /\ phase'[s] = "first" <=> phase[s] = "first"
                            /\ phase'[s] = "orphan" <=> phase[s] = "orphan"
  PROVE  QuietInv'
BY DEF QuietInv, EndsListening

(* The last one to leave starts the grace period. *)
LEMMA RemoveBus ==
  ASSUME TypeOK, BusInv, NEW s \in Session, Remove(s), holds' = holds \ {s},
         UNCHANGED <<known, bus, troubled, phase>>
  PROVE  HoldInv' /\ GraceInv'
<1>1. HoldInv'
  BY DEF BusInv, HoldInv, Remove
<1>2. GraceInv'
  <2> SUFFICES ASSUME ~troubled, bus = "ready", topic' = {}
               PROVE  grace' \/ stray' > 0
    BY DEF GraceInv
  <2>1. known
    BY DEF BusInv, QuietInv
  <2>2. topic' = topic \ {s} /\ (grace' <=> grace \/ topic \ {s} = {})
    BY <2>1 DEF Remove, TypeOK
  <2> QED
    BY <2>2
<1> QED
  BY <1>1, <1>2

LEMMA EnterBus ==
  ASSUME HoldInv, NEW s \in Session, Enter(s), known'
  PROVE  HoldInv' /\ GraceInv'
BY DEF HoldInv, GraceInv, Enter

LEMMA JoinBus ==
  ASSUME TypeOK, BusInv, NEW s \in Session, Joining(s)
  PROVE  BusInv'
<1>0. HoldInv /\ QuietInv /\ GraceInv
  BY DEF BusInv
<1>1. CASE AskMembership(s)
  <2>1. QuietInv'
    BY <1>0, <1>1, QuietKept DEF AskMembership, TypeOK, subs, pgbus, link
  <2>2. HoldInv' /\ GraceInv'
    BY <1>0, <1>1 DEF AskMembership, subs, pgbus, HoldInv, GraceInv, TypeOK
  <2> QED
    BY <2>1, <2>2 DEF BusInv
<1>2. CASE AddFirst(s)
  <2>1. HoldInv' /\ GraceInv'
    BY <1>0, <1>2 DEF AddFirst, HoldInv, GraceInv
  <2>2. ASSUME ~troubled
        PROVE  /\ callbacks = 0 /\ ~EndsListening
               /\ \A t \in Session : phase[t] # "first" /\ phase[t] # "orphan"
               /\ ~stop
    BY <1>0, <1>2, <2>2 DEF QuietInv, AddFirst
  <2>3. ~troubled => EndsListening'
    <3> SUFFICES ASSUME ~troubled
                 PROVE  EndsListening'
      OBVIOUS
    <3>1. cmds' = Append(cmds, "listen") /\ cmds \in Seq({"listen", "unlisten"})
      BY <1>2, <2>2 DEF AddFirst, TypeOK
    <3>2. cmds' # <<>> /\ cmds'[Len(cmds')] = "listen"
      BY <3>1
    <3> QED
      BY <3>2 DEF EndsListening
  <2>4. phase' = [phase EXCEPT ![s] = "first"] /\ phase \in [Session -> Phase]
    BY <1>2 DEF AddFirst, TypeOK
  <2>5. /\ known' /\ bus' = "empty" /\ UNCHANGED <<stop, troubled>>
        /\ ~troubled => callbacks' = 1
    BY <1>2, <2>2 DEF AddFirst
  <2>6. QuietInv'
    BY <2>2, <2>3, <2>4, <2>5 DEF QuietInv
  <2> QED
    BY <2>1, <2>6 DEF BusInv
<1>3. CASE AddToBus(s)
  <2>1. HoldInv' /\ GraceInv'
    BY <1>0, <1>3, EnterBus DEF AddToBus
  <2>2. troubled /\ troubled'
    BY <1>0, <1>3 DEF QuietInv, AddToBus, TypeOK
  <2> QED
    BY <2>1, <2>2 DEF BusInv, QuietInv
<1>4. CASE AddNext(s)
  <2>1. HoldInv' /\ GraceInv'
    BY <1>0, <1>4, EnterBus DEF AddNext
  <2>2. QuietInv'
    BY <1>0, <1>4, QuietKept DEF AddNext, TypeOK, pgbus, link
  <2> QED
    BY <2>1, <2>2 DEF BusInv
<1>5. CASE Listened(s)
  <2>1. CASE phase[s] = "orphan"
    <3>1. troubled /\ troubled'
      BY <1>0, <1>5, <2>1 DEF QuietInv, Listened, TypeOK
    <3>2. HoldInv'
      BY <1>0, <1>5, <2>1 DEF Listened, HoldInv, TypeOK
    <3> QED
      BY <3>1, <3>2 DEF BusInv, QuietInv, GraceInv
  <2>2. CASE phase[s] = "first"
    <3>1. Enter(s) /\ bus' = "ready" /\ stop' = TRUE /\ UNCHANGED <<known, troubled, callbacks, cmds, listening>>
          /\ cmds = <<>> /\ phase' = [phase EXCEPT ![s] = "idle"]
      BY <1>5, <2>2 DEF Listened, link
    <3>2. ASSUME ~troubled
          PROVE  QuietInv'
      <4>1. /\ bus = "empty" /\ known /\ callbacks = 1 /\ EndsListening
            /\ \A t \in Session : phase[t] # "orphan" /\ (phase[t] = "first" => t = s)
        BY <1>0, <2>2, <3>2 DEF QuietInv
      <4>2. \A t \in Session : phase'[t] # "orphan" /\ phase'[t] # "first"
        BY <3>1, <4>1 DEF TypeOK
      <4>3. EndsListening'
        BY <3>1, <4>1 DEF EndsListening
      <4> QED
        BY <3>1, <4>1, <4>2, <4>3 DEF QuietInv
    <3>3. QuietInv'
      BY <3>1, <3>2 DEF QuietInv
    <3>4. s \in topic'
      BY <3>1 DEF Enter
    <3>5. GraceInv'
      BY <3>4 DEF GraceInv
    <3>6. topic' \subseteq holds'
      BY <1>0, <3>1 DEF HoldInv, Enter
    <3>7. known'
      BY <1>0, <2>2, <3>1 DEF HoldInv
    <3> QED
      BY <3>3, <3>5, <3>6, <3>7 DEF BusInv, HoldInv
  <2> QED
    BY <1>5, <2>1, <2>2 DEF Listened
<1> QED
  BY <1>1, <1>2, <1>3, <1>4, <1>5 DEF Joining

LEMMA LeaveBus ==
  ASSUME TypeOK, BusInv, NEW s \in Session, Leaving(s)
  PROVE  BusInv'
<1>0. HoldInv /\ QuietInv /\ GraceInv
  BY DEF BusInv
<1>1. QuietInv'
  BY <1>0, QuietKept DEF Leaving, Unsubscribe, Destroy, link, pgbus
<1>2. HoldInv' /\ GraceInv'
  <2>1. CASE Remove(s) /\ holds' = holds \ {s}
    BY <2>1, RemoveBus DEF Leaving, Unsubscribe, Destroy, pgbus
  <2>2. CASE UNCHANGED <<topic, grace, stray, holds>>
    BY <1>0, <2>2 DEF Leaving, Unsubscribe, Destroy, pgbus, HoldInv, GraceInv
  <2> QED
    BY <2>1, <2>2 DEF Leaving, Unsubscribe, Destroy
<1> QED
  BY <1>1, <1>2 DEF BusInv

LEMMA TimerBus ==
  ASSUME TypeOK, BusInv, TimerFires \/ StrayFires
  PROVE  BusInv'
<1>0. HoldInv /\ QuietInv /\ GraceInv
  BY DEF BusInv
<1>1. UNCHANGED <<topic, holds, listening>> /\ Release
  BY DEF TimerFires, StrayFires
<1>2. CASE topic # {}
  <2>1. UNCHANGED <<known, callbacks, stop, bus, cmds, listening, troubled, phase>>
    BY <1>1, <1>2 DEF Release, pgbus
  <2>2. QuietInv'
    BY <1>0, <2>1, QuietKept DEF TypeOK
  <2>3. HoldInv' /\ GraceInv'
    BY <1>0, <1>1, <1>2, <2>1 DEF HoldInv, GraceInv
  <2> QED
    BY <2>2, <2>3 DEF BusInv
<1>3. CASE topic = {}
  <2>1. /\ ~known' /\ bus' = "none" /\ stop' \in BOOLEAN /\ ~stop'
        /\ troubled' <=> (troubled \/ \E s \in Session : phase[s] = "first")
        /\ phase' = [s \in Session |-> IF phase[s] = "first" THEN "orphan" ELSE phase[s]]
        /\ callbacks' = IF stop /\ bus # "none" THEN callbacks - 1 ELSE callbacks
        /\ cmds' = IF stop /\ bus # "none" /\ callbacks = 1 THEN Append(cmds, "unlisten") ELSE cmds
    BY <1>1, <1>3 DEF Release
  <2>2. HoldInv' /\ GraceInv'
    BY <1>0, <1>1, <1>3, <2>1 DEF HoldInv, GraceInv
  <2>3. ASSUME ~troubled'
        PROVE  QuietInv'
    <3>1. ~troubled /\ \A s \in Session : phase[s] # "first" /\ phase[s] # "orphan"
      BY <1>0, <2>1, <2>3 DEF QuietInv
    <3>2. \A s \in Session : phase'[s] # "first" /\ phase'[s] # "orphan"
      BY <2>1, <3>1
    <3>3. CASE bus = "none"
      <4>1. callbacks' = 0 /\ cmds' = cmds /\ ~EndsListening
        BY <1>0, <2>1, <3>1, <3>3 DEF QuietInv
      <4>2. ~EndsListening'
        BY <1>1, <4>1 DEF EndsListening
      <4> QED
        BY <2>1, <3>2, <4>1, <4>2 DEF QuietInv
    <3>4. CASE bus = "ready"
      <4>1. stop /\ callbacks = 1
        BY <1>0, <3>1, <3>4 DEF QuietInv
      <4>2. callbacks' = 0 /\ cmds' = Append(cmds, "unlisten")
        BY <2>1, <3>4, <4>1
      <4>3. cmds \in Seq({"listen", "unlisten"})
        BY DEF TypeOK
      <4>4. cmds' # <<>> /\ cmds'[Len(cmds')] = "unlisten"
        BY <4>2, <4>3
      <4>5. ~EndsListening'
        BY <4>4 DEF EndsListening
      <4> QED
        BY <2>1, <3>2, <4>2, <4>5 DEF QuietInv
    <3> QED
      BY <1>0, <3>1, <3>3, <3>4 DEF QuietInv, TypeOK
  <2> QED
    BY <2>2, <2>3 DEF BusInv, QuietInv
<1> QED
  BY <1>2, <1>3

LEMMA DatabaseBus ==
  ASSUME TypeOK, BusInv, Database
  PROVE  BusInv'
<1>1. UNCHANGED <<link, pgbus, subs, sessions, troubled>>
  BY DEF Database, Commit, RemoveMember, SayFarewell, AddMember
<1> QED
  BY <1>1 DEF link, pgbus, subs, sessions, BusInv, HoldInv, QuietInv, GraceInv, EndsListening

LEMMA LinkBus ==
  ASSUME TypeOK, BusInv, Execute \/ Drop
  PROVE  BusInv'
<1>0. HoldInv /\ QuietInv /\ GraceInv
  BY DEF BusInv
<1>1. CASE Execute
  <2>1. UNCHANGED <<known, callbacks, stop, bus, troubled, phase, topic, holds, grace, stray>>
    BY <1>1 DEF Execute, pgbus, subs, sessions
  <2>2. EndsListening' <=> EndsListening
    <3>1. cmds \in Seq({"listen", "unlisten"}) /\ cmds # <<>> /\ cmds' = Tail(cmds)
          /\ (listening' <=> Head(cmds) = "listen")
      BY <1>1 DEF Execute, TypeOK
    <3>2. CASE Len(cmds) = 1
      <4>1. cmds' = <<>> /\ Head(cmds) = cmds[Len(cmds)]
        BY <3>1, <3>2
      <4> QED
        BY <3>1, <4>1 DEF EndsListening
    <3>3. CASE Len(cmds) # 1
      <4>0. Len(cmds) \in Nat /\ Len(cmds) > 1
        <5>1. Len(cmds) \in Nat \ {0}
          BY <3>1, EmptySeq
        <5> QED
          BY SMTT(30), <3>3, <5>1
      <4>1. Len(cmds') = Len(cmds) - 1 /\ \A i \in 1..Len(cmds) - 1 : cmds'[i] = cmds[i + 1]
        BY <3>1, <4>0
      <4>2. cmds' # <<>> /\ cmds'[Len(cmds')] = cmds[Len(cmds)]
        <5>1. Len(cmds) - 1 \in 1..Len(cmds) - 1 /\ (Len(cmds) - 1) + 1 = Len(cmds)
          BY <4>0
        <5> QED
          BY <3>1, <4>0, <4>1, <5>1
      <4> QED
        BY <3>1, <4>2 DEF EndsListening
    <3> QED
      BY <3>2, <3>3
  <2>3. cmds # <<>>
    BY <1>1 DEF Execute
  <2> QED
    BY <1>0, <2>1, <2>2, <2>3 DEF BusInv, HoldInv, GraceInv, QuietInv
<1>2. CASE Drop
  <2>1. troubled' /\ UNCHANGED holds
    BY <1>2 DEF Drop
  <2>2. HoldInv'
    BY <1>0, <1>2 DEF Drop, HoldInv, TypeOK
  <2> QED
    BY <2>1, <2>2 DEF BusInv, QuietInv, GraceInv
<1> QED
  BY <1>1, <1>2

LEMMA DeliverBus ==
  ASSUME TypeOK, BusInv, Deliver
  PROVE  BusInv'
<1>0. HoldInv /\ QuietInv /\ GraceInv
  BY DEF BusInv
<1>1. ASSUME DeliverSmall \/ DeliverBig \/ \E f \in fetching : FetchDone(f)
      PROVE  BusInv'
  <2>1. UNCHANGED <<link, pgbus, subs, sessions, troubled>>
    BY <1>1 DEF DeliverSmall, DeliverBig, FetchDone
  <2> QED
    BY <2>1 DEF link, pgbus, subs, sessions, BusInv, HoldInv, QuietInv, GraceInv, EndsListening
<1>2. ASSUME NEW f \in fetching, FetchLost(f)
      PROVE  BusInv'
  <2>1. UNCHANGED <<link, pgbus, subs, sessions>> /\ troubled'
    BY <1>2 DEF FetchLost
  <2> QED
    BY <2>1 DEF subs, sessions, BusInv, HoldInv, QuietInv, GraceInv
<1>3. ASSUME NEW u \in Session, DeliverRemove(u) \/ DeliverDelete(u)
      PROVE  BusInv'
  <2>1. UNCHANGED <<link, pgbus, troubled, known, phase>>
    BY <1>3 DEF DeliverRemove, DeliverDelete
  <2>2. QuietInv'
    BY <1>0, <2>1, QuietKept DEF link, pgbus
  <2>3. CASE Remove(u) /\ holds' = holds \ {u}
    BY <2>1, <2>2, <2>3, RemoveBus DEF pgbus, BusInv
  <2>4. CASE UNCHANGED <<topic, grace, stray, holds>>
    BY <1>0, <2>1, <2>2, <2>4 DEF pgbus, BusInv, HoldInv, GraceInv
  <2> QED
    BY <1>3, <2>3, <2>4 DEF DeliverRemove, DeliverDelete, Evict
<1> QED
  BY <1>1, <1>2, <1>3 DEF Deliver

LEMMA BusStep ==
  ASSUME TypeOK, BusInv, [Next]_vars
  PROVE  BusInv'
<1>1. CASE UNCHANGED vars
  BY <1>1 DEF vars, link, pgbus, subs, sessions, BusInv, HoldInv, QuietInv, GraceInv, EndsListening
<1> QED
  BY <1>1, JoinBus, LeaveBus, TimerBus, DatabaseBus, LinkBus, DeliverBus DEF Next

-----------------------------------------------------------------------------
(* The order of notifications. *)

LogInv ==
  \A n \in 1..Len(log) :
    /\ log[n].n = n
    /\ log[n].kind # "delete"
    /\ log[n].kind = "remove" => \E u \in Session : log[n].who = {u}

(* The events on the wire are the log's, in its order; a farewell is none. *)
WireInv ==
  /\ \A i \in 1..Len(wire) :
       IF wire[i].kind = "delete" THEN wire[i].n = 0
                                  ELSE wire[i].n \in 1..Len(log) /\ log[wire[i].n] = wire[i]
  /\ \A i, j \in 1..Len(wire) :
       i < j /\ wire[i].kind # "delete" /\ wire[j].kind # "delete" => wire[i].n < wire[j].n

(* A body that is read belongs to an event older than those on the wire.   *)
FetchInv ==
  \A f \in fetching :
    /\ f[1] \in 1..Len(log) /\ log[f[1]].kind = "big"
    /\ ~troubled => f[2] = 1
    /\ \A i \in 1..Len(wire) : wire[i].kind # "delete" => f[1] < wire[i].n

(* What was dispatched at once is older than what is on the wire. *)
HeardInv ==
  \A s \in Session : \A i \in 1..Len(heard[s]) :
    /\ heard[s][i] \in 1..Len(log)
    /\ log[heard[s][i]].kind # "big" =>
         \A k \in 1..Len(wire) : wire[k].kind # "delete" => heard[s][i] < wire[k].n

InOrder ==
  \A s \in Session : \A i, j \in 1..Len(heard[s]) :
    i < j /\ log[heard[s][i]].kind # "big" /\ log[heard[s][j]].kind # "big" => heard[s][i] <= heard[s][j]

OrderInv == LogInv /\ WireInv /\ FetchInv /\ HeardInv /\ InOrder

LEMMA InitOrder ==
  ASSUME Init
  PROVE  OrderInv
BY DEF Init, OrderInv, LogInv, WireInv, FetchInv, HeardInv, InOrder

(* What a commit appends. *)
LEMMA AppendOrder ==
  ASSUME TypeOK, OrderInv, NEW e \in Event, e.n = Len(log) + 1, e.kind # "delete",
         e.kind = "remove" => \E u \in Session : e.who = {u},
         Publish(e), UNCHANGED <<fetching, heard, troubled>>
  PROVE  OrderInv'
<1>0. LogInv /\ WireInv /\ FetchInv /\ HeardInv /\ InOrder
  BY DEF OrderInv
<1>1. /\ log' \in Seq(Event) /\ Len(log') = Len(log) + 1 /\ log'[Len(log) + 1] = e
      /\ \A n \in 1..Len(log) : log'[n] = log[n]
      /\ Len(log) \in Nat
  BY AppendProperties DEF Publish, TypeOK
<1>2. /\ wire \in Seq(Event) /\ Len(wire) \in Nat
      /\ wire' = wire \/ /\ Len(wire') = Len(wire) + 1 /\ wire'[Len(wire) + 1] = e
                         /\ \A i \in 1..Len(wire) : wire'[i] = wire[i]
  BY AppendProperties DEF Publish, Notify, TypeOK
<1>3. LogInv'
  BY <1>0, <1>1 DEF LogInv
<1>4. WireInv'
  <2>1. CASE wire' = wire
    BY <1>0, <1>1, <1>2, <2>1 DEF WireInv
  <2>2. CASE wire' # wire
    <3>1. \A i \in 1..Len(wire') : i \in 1..Len(wire) \/ i = Len(wire) + 1
      BY <1>2, <2>2
    <3>2. \A i \in 1..Len(wire) : wire[i].kind # "delete" =>
            wire[i].n \in 1..Len(log) /\ wire[i].n < Len(log) + 1 /\ wire[i].n \in 1..Len(log')
      BY <1>0, <1>1 DEF WireInv
    <3>3. ASSUME NEW i \in 1..Len(wire')
          PROVE  IF wire'[i].kind = "delete" THEN wire'[i].n = 0
                                             ELSE wire'[i].n \in 1..Len(log') /\ log'[wire'[i].n] = wire'[i]
      BY <1>0, <1>1, <1>2, <2>2, <3>1, <3>2 DEF WireInv
    <3>4. ASSUME NEW i \in 1..Len(wire'), NEW j \in 1..Len(wire'),
                 i < j, wire'[i].kind # "delete", wire'[j].kind # "delete"
          PROVE  wire'[i].n < wire'[j].n
      <4>1. i \in 1..Len(wire)
        BY <1>2, <2>2, <3>4
      <4> QED
        BY SMTT(30), <1>0, <1>1, <1>2, <2>2, <3>1, <3>2, <3>4, <4>1 DEF WireInv
    <3> QED
      BY <3>3, <3>4 DEF WireInv
  <2> QED
    BY <2>1, <2>2
<1>w. \A i \in 1..Len(wire') : \/ i \in 1..Len(wire) /\ wire'[i] = wire[i]
                               \/ wire'[i].n = Len(log) + 1
  BY <1>2
<1>l. \A n \in 1..Len(log) : n \in 1..Len(log') /\ log'[n] = log[n] /\ n < Len(log) + 1
  BY <1>1
<1>5. FetchInv'
  <2> SUFFICES ASSUME NEW f \in fetching
               PROVE  /\ f[1] \in 1..Len(log') /\ log'[f[1]].kind = "big"
                      /\ ~troubled => f[2] = 1
                      /\ \A i \in 1..Len(wire') : wire'[i].kind # "delete" => f[1] < wire'[i].n
    BY DEF FetchInv
  <2>1. /\ f[1] \in 1..Len(log) /\ log[f[1]].kind = "big" /\ (~troubled => f[2] = 1)
        /\ \A i \in 1..Len(wire) : wire[i].kind # "delete" => f[1] < wire[i].n
    BY <1>0 DEF FetchInv
  <2> QED
    BY <1>l, <1>w, <2>1
<1>h. ASSUME NEW s \in Session, NEW i \in 1..Len(heard[s])
      PROVE  /\ heard[s][i] \in 1..Len(log') /\ log'[heard[s][i]] = log[heard[s][i]]
             /\ log[heard[s][i]].kind # "big" =>
                  \A k \in 1..Len(wire') : wire'[k].kind # "delete" => heard[s][i] < wire'[k].n
  <2>1. /\ heard[s][i] \in 1..Len(log)
        /\ log[heard[s][i]].kind # "big" =>
             \A k \in 1..Len(wire) : wire[k].kind # "delete" => heard[s][i] < wire[k].n
    BY <1>0 DEF HeardInv
  <2> QED
    BY <1>l, <1>w, <2>1
<1>6. HeardInv'
  BY SMTT(30), <1>h DEF HeardInv
<1>7. InOrder'
  BY SMTT(30), <1>0, <1>h DEF InOrder
<1> QED
  BY <1>3, <1>4, <1>5, <1>6, <1>7 DEF OrderInv

LEMMA FarewellOrder ==
  ASSUME TypeOK, OrderInv, NEW u \in Session, SayFarewell(u)
  PROVE  OrderInv'
<1>0. LogInv /\ WireInv /\ FetchInv /\ HeardInv /\ InOrder
  BY DEF OrderInv
<1>1. DEFINE e == [n |-> 0, kind |-> "delete", who |-> {u}]
<1>2. e \in Event
  BY DEF Event, Kind
<1>3. /\ Len(wire) \in Nat /\ Len(wire') = Len(wire) + 1 /\ wire'[Len(wire) + 1] = e
      /\ \A i \in 1..Len(wire) : wire'[i] = wire[i]
  BY <1>2, AppendProperties DEF SayFarewell, TypeOK
<1>4. \A i \in 1..Len(wire') : i \in 1..Len(wire) \/ i = Len(wire) + 1
  BY <1>3
<1>5. UNCHANGED <<log, fetching, heard, troubled>> /\ e.kind = "delete" /\ e.n = 0
  BY DEF SayFarewell
<1>6. WireInv'
  BY <1>0, <1>3, <1>4, <1>5 DEF WireInv
<1>w. \A i \in 1..Len(wire') : \/ i \in 1..Len(wire) /\ wire'[i] = wire[i]
                               \/ wire'[i].kind = "delete"
  BY <1>3, <1>4, <1>5
<1>7. FetchInv' /\ HeardInv'
  BY <1>0, <1>5, <1>w DEF FetchInv, HeardInv
<1>8. InOrder' /\ LogInv'
  BY <1>0, <1>5 DEF InOrder, LogInv
<1> QED
  BY <1>6, <1>7, <1>8 DEF OrderInv

(* What a notification leaves on the wire, when it is handled. *)
LEMMA Popped ==
  ASSUME TypeOK, wire # <<>>, wire' = Tail(wire)
  PROVE  /\ Len(wire) \in Nat \ {0} /\ Len(wire') = Len(wire) - 1
         /\ \A i \in 1..Len(wire') : i + 1 \in 1..Len(wire) /\ 1 < i + 1 /\ wire'[i] = wire[i + 1]
         /\ Head(wire) = wire[1] /\ 1 \in 1..Len(wire) /\ Head(wire) \in Event
<1>1. wire \in Seq(Event)
  BY DEF TypeOK
<1>2. Len(wire) \in Nat \ {0}
  BY <1>1, EmptySeq
<1>3. Len(wire') = Len(wire) - 1 /\ \A i \in 1..Len(wire') : wire'[i] = wire[i + 1]
  BY <1>1, HeadTailProperties
<1>4. Head(wire) = wire[1] /\ Head(wire) \in Event
  BY <1>1, HeadTailProperties
<1> QED
  BY <1>2, <1>3, <1>4

LEMMA PopOrder ==
  ASSUME TypeOK, OrderInv, wire # <<>>, wire' = Tail(wire), UNCHANGED log
  PROVE  /\ LogInv' /\ WireInv'
         /\ UNCHANGED <<fetching, troubled>> => FetchInv'
         /\ UNCHANGED heard => HeardInv' /\ InOrder'
         /\ Head(wire).kind # "delete" =>
              /\ Head(wire).n \in 1..Len(log) /\ log[Head(wire).n] = Head(wire)
              /\ \A i \in 1..Len(wire') : wire'[i].kind # "delete" => Head(wire).n < wire'[i].n
<1>0. LogInv /\ WireInv /\ FetchInv /\ HeardInv /\ InOrder
  BY DEF OrderInv
<1>1. /\ Len(wire) \in Nat \ {0} /\ Len(wire') = Len(wire) - 1
      /\ \A i \in 1..Len(wire') : i + 1 \in 1..Len(wire) /\ 1 < i + 1 /\ wire'[i] = wire[i + 1]
      /\ Head(wire) = wire[1] /\ 1 \in 1..Len(wire)
  BY Popped
<1>2. LogInv'
  BY <1>0 DEF LogInv
<1>3. WireInv'
  <2>1. \A i, j \in 1..Len(wire') : i < j => i + 1 < j + 1
    OBVIOUS
  <2> QED
    BY <1>0, <1>1, <2>1 DEF WireInv
<1>4. UNCHANGED <<fetching, troubled>> => FetchInv'
  BY <1>0, <1>1 DEF FetchInv
<1>5. UNCHANGED heard => HeardInv' /\ InOrder'
  BY <1>0, <1>1 DEF HeardInv, InOrder
<1>6. Head(wire).kind # "delete" =>
        /\ Head(wire).n \in 1..Len(log) /\ log[Head(wire).n] = Head(wire)
        /\ \A i \in 1..Len(wire') : wire'[i].kind # "delete" => Head(wire).n < wire'[i].n
  BY <1>0, <1>1 DEF WireInv
<1> QED
  BY <1>2, <1>3, <1>4, <1>5, <1>6

(* g is what a session has heard, h, with more of event n. *)
Grows(h, g, n) ==
  /\ Len(h) \in Nat
  /\ \A i \in 1..Len(h) : g[i] = h[i]
  /\ \A i \in 1..Len(g) : \/ i \in 1..Len(h)
                          \/ i > Len(h) /\ g[i] = n

LEMMA Grown ==
  ASSUME NEW h \in Seq(Nat), NEW n \in Nat, NEW k \in Nat
  PROVE  Grows(h, h \o Copies(n, k), n)
<1>1. Copies(n, k) \in Seq(Nat) /\ Len(Copies(n, k)) = k /\ \A i \in 1..k : Copies(n, k)[i] = n
  BY DEF Copies
<1>2. /\ h \o Copies(n, k) \in Seq(Nat)
      /\ Len(h \o Copies(n, k)) = Len(h) + Len(Copies(n, k))
      /\ \A i \in 1..Len(h) + Len(Copies(n, k)) :
           (h \o Copies(n, k))[i] = IF i <= Len(h) THEN h[i] ELSE Copies(n, k)[i - Len(h)]
  BY <1>1, ConcatProperties
<1>3. Len(h) \in Nat
  BY LenProperties
<1>4. \A i \in 1..Len(h) : i \in 1..Len(h) + k /\ i <= Len(h)
  BY <1>3
<1>5. \A i \in 1..Len(h) + k : \/ i \in 1..Len(h)
                               \/ i > Len(h) /\ ~(i <= Len(h)) /\ i - Len(h) \in 1..k
  BY <1>3
<1> QED
  BY <1>1, <1>2, <1>3, <1>4, <1>5 DEF Grows

LEMMA HeardOrder ==
  ASSUME TypeOK, OrderInv, NEW n \in 1..Len(log), UNCHANGED log,
         \A s \in Session : \/ heard'[s] = heard[s]
                            \/ \E k \in Nat : heard'[s] = heard[s] \o Copies(n, k),
         \A i \in 1..Len(wire') : \E j \in 1..Len(wire) : wire'[i] = wire[j],
         log[n].kind # "big" =>
           /\ \A i \in 1..Len(wire') : wire'[i].kind # "delete" => n < wire'[i].n
           /\ \E j \in 1..Len(wire) : wire[j].kind # "delete" /\ wire[j].n = n
  PROVE  HeardInv' /\ InOrder'
<1>0. HeardInv /\ InOrder
  BY DEF OrderInv
<1>n. n \in Nat
  BY DEF TypeOK
<1>1. ASSUME NEW s \in Session
      PROVE  /\ Len(heard[s]) \in Nat
             /\ \A i \in 1..Len(heard'[s]) : \/ i \in 1..Len(heard[s]) /\ heard'[s][i] = heard[s][i]
                                             \/ i > Len(heard[s]) /\ heard'[s][i] = n
  <2>1. heard[s] \in Seq(Nat)
    BY DEF TypeOK
  <2>2. Len(heard[s]) \in Nat
    BY <2>1, LenProperties
  <2>3. CASE heard'[s] = heard[s]
    BY <2>2, <2>3
  <2>4. ASSUME NEW k \in Nat, heard'[s] = heard[s] \o Copies(n, k)
        PROVE  \A i \in 1..Len(heard'[s]) : \/ i \in 1..Len(heard[s]) /\ heard'[s][i] = heard[s][i]
                                            \/ i > Len(heard[s]) /\ heard'[s][i] = n
    <3>1. Grows(heard[s], heard'[s], n)
      BY <1>n, <2>1, <2>4, Grown
    <3> QED
      BY <3>1 DEF Grows
  <2> QED
    BY <2>2, <2>3, <2>4
<1>2. ASSUME NEW s \in Session, NEW i \in 1..Len(heard[s])
      PROVE  /\ heard[s][i] \in 1..Len(log)
             /\ log[heard[s][i]].kind # "big" =>
                  /\ \A k \in 1..Len(wire') : wire'[k].kind # "delete" => heard[s][i] < wire'[k].n
                  /\ log[n].kind # "big" => heard[s][i] < n
  BY <1>0 DEF HeardInv
<1>3. HeardInv'
  <2> SUFFICES ASSUME NEW s \in Session, NEW i \in 1..Len(heard'[s])
               PROVE  /\ heard'[s][i] \in 1..Len(log)
                      /\ log[heard'[s][i]].kind # "big" =>
                           \A k \in 1..Len(wire') : wire'[k].kind # "delete" => heard'[s][i] < wire'[k].n
    BY DEF HeardInv
  <2> QED
    BY ZenonT(60), <1>1, <1>2
<1>4. InOrder'
  <2> SUFFICES ASSUME NEW s \in Session, NEW i \in 1..Len(heard'[s]), NEW j \in 1..Len(heard'[s]), i < j,
                      log[heard'[s][i]].kind # "big", log[heard'[s][j]].kind # "big"
               PROVE  heard'[s][i] <= heard'[s][j]
    BY DEF InOrder
  <2>1. CASE j \in 1..Len(heard[s]) /\ heard'[s][j] = heard[s][j]
    <3>1. i \in 1..Len(heard[s]) /\ heard'[s][i] = heard[s][i]
      BY SMTT(30), <1>1, <2>1
    <3> QED
      BY <1>0, <2>1, <3>1 DEF InOrder
  <2>2. CASE heard'[s][j] = n
    <3>1. CASE heard'[s][i] = n
      BY <1>n, <2>2, <3>1
    <3>2. CASE i \in 1..Len(heard[s]) /\ heard'[s][i] = heard[s][i]
      <4>1. heard[s][i] < n /\ heard[s][i] \in 1..Len(log)
        BY <1>2, <2>2, <3>2
      <4> QED
        BY <1>n, <2>2, <3>2, <4>1
    <3> QED
      BY <1>1, <3>1, <3>2
  <2> QED
    BY <1>1, <2>1, <2>2
<1> QED
  BY <1>3, <1>4

LEMMA OrderKept ==
  ASSUME OrderInv, UNCHANGED <<log, wire, heard>>, fetching' \subseteq fetching, troubled => troubled'
  PROVE  OrderInv'
BY DEF OrderInv, LogInv, WireInv, FetchInv, HeardInv, InOrder

(* A notification that is heard at once. *)
LEMMA HeardAtOnce ==
  ASSUME TypeOK, OrderInv, wire # <<>>, wire' = Tail(wire), UNCHANGED <<log, fetching, troubled>>,
         Head(wire).kind \notin {"delete", "big"},
         \A s \in Session : \/ heard'[s] = heard[s]
                            \/ \E k \in Nat : heard'[s] = heard[s] \o Copies(Head(wire).n, k)
  PROVE  OrderInv'
<1>1. /\ LogInv' /\ WireInv' /\ FetchInv'
      /\ Head(wire).n \in 1..Len(log) /\ log[Head(wire).n] = Head(wire)
      /\ \A i \in 1..Len(wire') : wire'[i].kind # "delete" => Head(wire).n < wire'[i].n
  BY PopOrder
<1>2. /\ \A i \in 1..Len(wire') : \E j \in 1..Len(wire) : wire'[i] = wire[j]
      /\ \E j \in 1..Len(wire) : wire[j].kind # "delete" /\ wire[j].n = Head(wire).n
  BY Popped
<1>3. HeardInv' /\ InOrder'
  BY <1>1, <1>2, HeardOrder
<1> QED
  BY <1>1, <1>3 DEF OrderInv

LEMMA DeliverOrder ==
  ASSUME TypeOK, BusInv, OrderInv, Deliver
  PROVE  OrderInv'
<1>c. callbacks \in Nat /\ 1 \in Nat
  BY DEF TypeOK
<1>1. CASE DeliverSmall
  <2>1. \A s \in Session : \/ heard'[s] = heard[s]
                           \/ \E k \in Nat : heard'[s] = heard[s] \o Copies(Head(wire).n, k)
    BY <1>1, <1>c DEF DeliverSmall, Hear
  <2> QED
    BY <1>1, <2>1, HeardAtOnce DEF DeliverSmall, db
<1>2. CASE DeliverBig
  <2>1. /\ LogInv' /\ WireInv' /\ HeardInv' /\ InOrder'
        /\ Head(wire).n \in 1..Len(log) /\ log[Head(wire).n] = Head(wire)
        /\ \A i \in 1..Len(wire') : wire'[i].kind # "delete" => Head(wire).n < wire'[i].n
        /\ wire # <<>> /\ wire' = Tail(wire) /\ Head(wire).kind = "big" /\ UNCHANGED <<log, troubled>>
    BY <1>2, PopOrder DEF DeliverBig, db
  <2>2. FetchInv'
    <3> SUFFICES ASSUME NEW f \in fetching'
                 PROVE  /\ f[1] \in 1..Len(log) /\ log[f[1]].kind = "big"
                        /\ ~troubled => f[2] = 1
                        /\ \A i \in 1..Len(wire') : wire'[i].kind # "delete" => f[1] < wire'[i].n
      BY <2>1 DEF FetchInv
    <3>1. CASE f \in fetching
      BY <2>1, <3>1, Popped DEF OrderInv, FetchInv
    <3>2. CASE f \notin fetching
      <4>1. bus = "ready" /\ \E i \in 1..callbacks : f = <<Head(wire).n, i>>
        BY <1>2, <3>2 DEF DeliverBig
      <4>2. ~troubled => callbacks = 1
        BY <4>1 DEF BusInv, QuietInv
      <4>3. f[1] = Head(wire).n /\ f[2] \in 1..callbacks
        BY <4>1
      <4> QED
        BY <1>c, <2>1, <4>2, <4>3
    <3> QED
      BY <3>1, <3>2
  <2> QED
    BY <2>1, <2>2 DEF OrderInv
<1>3. ASSUME NEW f \in fetching, FetchDone(f)
      PROVE  OrderInv'
  <2>0. UNCHANGED <<log, wire, troubled>> /\ fetching' = fetching \ {f}
    BY <1>3 DEF FetchDone, db
  <2>1. f[1] \in 1..Len(log) /\ log[f[1]].kind = "big"
    BY DEF OrderInv, FetchInv
  <2>2. \A s \in Session : \/ heard'[s] = heard[s]
                           \/ \E k \in Nat : heard'[s] = heard[s] \o Copies(f[1], k)
    BY <1>3, <1>c DEF FetchDone, Hear
  <2>3. HeardInv' /\ InOrder'
    BY <2>0, <2>1, <2>2, HeardOrder
  <2>4. LogInv' /\ WireInv' /\ FetchInv'
    BY <2>0 DEF OrderInv, LogInv, WireInv, FetchInv
  <2> QED
    BY <2>3, <2>4 DEF OrderInv
<1>4. ASSUME NEW f \in fetching, FetchLost(f)
      PROVE  OrderInv'
  BY <1>4, OrderKept DEF FetchLost, db
<1>5. ASSUME NEW u \in Session, DeliverRemove(u)
      PROVE  OrderInv'
  <2>1. \A s \in Session : \/ heard'[s] = heard[s]
                           \/ \E k \in Nat : heard'[s] = heard[s] \o Copies(Head(wire).n, k)
    BY <1>5, <1>c DEF DeliverRemove
  <2> QED
    BY <1>5, <2>1, HeardAtOnce DEF DeliverRemove, db
<1>6. ASSUME NEW u \in Session, DeliverDelete(u)
      PROVE  OrderInv'
  BY <1>6, PopOrder DEF DeliverDelete, db, OrderInv
<1> QED
  BY <1>1, <1>2, <1>3, <1>4, <1>5, <1>6 DEF Deliver

LEMMA DatabaseOrder ==
  ASSUME TypeOK, OrderInv, Database
  PROVE  OrderInv'
<1>l. Len(log) + 1 \in Nat
  BY DEF TypeOK
<1>1. ASSUME NEW kind \in Kind, Commit(kind)
      PROVE  OrderInv'
  <2> DEFINE e == [n |-> Len(log) + 1, kind |-> kind, who |-> {}]
  <2>1. e \in Event /\ e.n = Len(log) + 1 /\ e.kind # "delete" /\ e.kind # "remove" /\ Publish(e)
    BY <1>l, <1>1 DEF Commit, Event, Kind
  <2>2. UNCHANGED <<fetching, heard, troubled>>
    BY <1>1 DEF Commit
  <2> QED
    BY <2>1, <2>2, AppendOrder
<1>2. ASSUME NEW u \in Session, RemoveMember(u)
      PROVE  OrderInv'
  <2> DEFINE e == [n |-> Len(log) + 1, kind |-> "remove", who |-> {u}]
  <2>1. e \in Event /\ e.n = Len(log) + 1 /\ e.kind # "delete" /\ e.who = {u} /\ Publish(e)
    BY <1>l, <1>2 DEF RemoveMember, Event, Kind
  <2>2. UNCHANGED <<fetching, heard, troubled>>
    BY <1>2 DEF RemoveMember
  <2> QED
    BY <2>1, <2>2, AppendOrder
<1>3. ASSUME NEW u \in Session, AddMember(u)
      PROVE  OrderInv'
  <2> DEFINE e == [n |-> Len(log) + 1, kind |-> "small", who |-> {}]
  <2>1. e \in Event /\ e.n = Len(log) + 1 /\ e.kind # "delete" /\ e.kind # "remove" /\ Publish(e)
    BY <1>l, <1>3 DEF AddMember, Event, Kind
  <2>2. UNCHANGED <<fetching, heard, troubled>>
    BY <1>3 DEF AddMember
  <2> QED
    BY <2>1, <2>2, AppendOrder
<1> QED
  BY <1>1, <1>2, <1>3, FarewellOrder DEF Database

LEMMA OrderStep ==
  ASSUME TypeOK, BusInv, OrderInv, [Next]_vars
  PROVE  OrderInv'
<1>1. CASE \/ \E s \in Session : Joining(s) \/ Leaving(s)
           \/ TimerFires \/ StrayFires \/ Execute \/ UNCHANGED vars
  <2>1. UNCHANGED <<log, wire, heard>>
    BY <1>1 DEF Joining, AskMembership, AddFirst, AddToBus, AddNext, Listened, Leaving, Unsubscribe,
                Destroy, TimerFires, StrayFires, Execute, vars, db
  <2>2. fetching' \subseteq fetching
    BY <1>1 DEF Joining, AskMembership, AddFirst, AddToBus, AddNext, Listened, Leaving, Unsubscribe,
                Destroy, TimerFires, StrayFires, Release, Execute, vars
  <2>3. troubled => troubled'
    BY <1>1 DEF Joining, AskMembership, AddFirst, AddToBus, AddNext, Listened, Leaving, Unsubscribe,
                Destroy, TimerFires, StrayFires, Release, Execute, vars
  <2> QED
    BY <2>1, <2>2, <2>3, OrderKept
<1>2. CASE Drop
  <2>1. UNCHANGED <<log, heard, fetching>> /\ Len(wire') = 0 /\ troubled'
    BY <1>2 DEF Drop, db
  <2> QED
    BY <2>1 DEF OrderInv, LogInv, WireInv, FetchInv, HeardInv, InOrder
<1> QED
  BY <1>1, <1>2, DatabaseOrder, DeliverOrder DEF Next

-----------------------------------------------------------------------------
(* Who hears what. *)

(* Nobody's membership was last read after the event that ended it. *)
ReadInv ==
  \A s \in Session :
    /\ asof[s] <= Len(log)
    /\ s \in member \/ \E n \in Removals(s) : n > asof[s]

HearInv == ReadInv /\ EvictedIsOut /\ ExactlyOnce

Healthy == ~troubled /\ bus = "ready"

LEMMA InitHear ==
  ASSUME Init
  PROVE  HearInv
BY DEF Init, HearInv, ReadInv, EvictedIsOut, ExactlyOnce

LEMMA Lengths ==
  ASSUME TypeOK
  PROVE  /\ Len(log) \in Nat /\ DOMAIN log = 1..Len(log)
         /\ Len(wire) \in Nat /\ DOMAIN wire = 1..Len(wire)
         /\ \A s \in Session : /\ heard[s] \in Seq(Nat) /\ Len(heard[s]) \in Nat
                               /\ DOMAIN heard[s] = 1..Len(heard[s])
                               /\ since[s] \in Nat /\ asof[s] \in Nat
BY DEF TypeOK

LEMMA OnWireDef ==
  ASSUME TypeOK, NEW n
  PROVE  OnWire(n) <=> \E i \in 1..Len(wire) : wire[i].n = n
BY Lengths DEF OnWire

LEMMA TimesZero ==
  ASSUME NEW h \in Seq(Nat), NEW n \in Nat, \A i \in 1..Len(h) : h[i] # n
  PROVE  TimesIn(n, h) = 0
<1>1. {i \in DOMAIN h : h[i] = n} = {}
  BY LenProperties
<1> QED
  BY <1>1, FS_EmptySet DEF TimesIn

(* n is once more in g than in h when it is m. *)
Once(n, m, h, g) ==
  /\ TimesIn(n, h) \in Nat
  /\ TimesIn(n, g) = IF n = m THEN TimesIn(n, h) + 1 ELSE TimesIn(n, h)

LEMMA TimesOnce ==
  ASSUME NEW h \in Seq(Nat), NEW n \in Nat, NEW m \in Nat
  PROVE  Once(n, m, h, h \o Copies(m, 1))
<1> DEFINE g == h \o Copies(m, 1)
           D == {i \in DOMAIN h : h[i] = n}
<1>1. /\ Copies(m, 1) \in Seq(Nat) /\ Len(Copies(m, 1)) = 1 /\ Copies(m, 1)[1] = m
  BY DEF Copies
<1>2. /\ g \in Seq(Nat) /\ Len(g) = Len(h) + 1
      /\ \A i \in 1..Len(h) + 1 : g[i] = IF i <= Len(h) THEN h[i] ELSE Copies(m, 1)[i - Len(h)]
  <2>1. /\ h \o Copies(m, 1) \in Seq(Nat)
        /\ Len(h \o Copies(m, 1)) = Len(h) + Len(Copies(m, 1))
        /\ \A i \in 1..Len(h) + Len(Copies(m, 1)) :
             (h \o Copies(m, 1))[i] = IF i <= Len(h) THEN h[i] ELSE Copies(m, 1)[i - Len(h)]
    BY <1>1, ConcatProperties
  <2> QED
    BY <1>1, <2>1
<1>3. Len(h) \in Nat /\ DOMAIN h = 1..Len(h) /\ DOMAIN g = 1..Len(h) + 1
  BY <1>2, LenProperties
<1>4. /\ \A i \in 1..Len(h) : g[i] = h[i]
      /\ g[Len(h) + 1] = m
  BY <1>1, <1>2, <1>3
<1>5. IsFiniteSet(D) /\ Cardinality(D) \in Nat
  <2>1. IsFiniteSet(1..Len(h))
    BY <1>3, FS_Interval
  <2> QED
    BY <1>3, <2>1, FS_Subset, FS_CardinalityType
<1>6. {i \in DOMAIN g : g[i] = n} = IF n = m THEN D \cup {Len(h) + 1} ELSE D
  BY <1>3, <1>4
<1>7. Len(h) + 1 \notin D
  BY <1>3
<1>8. Cardinality(D \cup {Len(h) + 1}) = Cardinality(D) + 1
  BY <1>5, <1>7, FS_AddElement
<1> QED
  BY <1>5, <1>6, <1>8 DEF TimesIn, Once

(* Steps after which the sessions of the topic are some of those before,   *)
(* and what is on its way is what was.                                      *)
LEMMA HearKept ==
  ASSUME TypeOK, TypeOK', HearInv, UNCHANGED <<log, member, heard>>, Healthy' => Healthy,
         \A t \in Session : asof'[t] = asof[t] \/ (t \in member /\ asof'[t] = Len(log)),
         Healthy' => \A t \in topic' : t \in topic /\ since'[t] = since[t],
         \A n \in 1..Len(log) : (OnWire(n)' <=> OnWire(n)) /\ (InFetch(n)' <=> InFetch(n))
  PROVE  HearInv'
<1>0. ReadInv /\ EvictedIsOut /\ ExactlyOnce
  BY DEF HearInv
<1>1. ReadInv'
  BY <1>0, Lengths DEF ReadInv, Removals
<1>2. EvictedIsOut'
  <2> SUFFICES ASSUME Healthy', NEW t \in topic' \ member, NEW n \in Removals(t)
               PROVE  \/ OnWire(n)'
                      \/ asof'[t] < n /\ n <= since'[t]
                      \/ \E m \in Removals(t) : m > n
    BY DEF EvictedIsOut, Removals, Healthy
  <2>1. t \in Session /\ t \in topic /\ since'[t] = since[t] /\ asof'[t] = asof[t]
    BY DEF TypeOK
  <2>2. n \in 1..Len(log)
    BY Lengths DEF Removals
  <2>3. \/ OnWire(n)
        \/ asof[t] < n /\ n <= since[t]
        \/ \E m \in Removals(t) : m > n
    BY <1>0, <2>1 DEF EvictedIsOut, Healthy
  <2> QED
    BY <2>1, <2>2, <2>3
<1>3. ExactlyOnce'
  <2> SUFFICES ASSUME Healthy', NEW t \in topic', NEW n \in since'[t] + 1..Len(log')
               PROVE  TimesIn(n, heard'[t]) = IF OnWire(n)' \/ InFetch(n)' THEN 0 ELSE 1
    BY DEF ExactlyOnce, Healthy
  <2>1. t \in Session /\ t \in topic /\ since'[t] = since[t]
    BY DEF TypeOK
  <2>2. n \in since[t] + 1..Len(log) /\ n \in 1..Len(log)
    BY <2>1, Lengths
  <2>3. TimesIn(n, heard[t]) = IF OnWire(n) \/ InFetch(n) THEN 0 ELSE 1
    BY <1>0, <2>1, <2>2 DEF ExactlyOnce, Healthy
  <2> QED
    BY <2>2, <2>3
<1> QED
  BY <1>1, <1>2, <1>3 DEF HearInv

(* A session that joins, or that the answer to LISTEN reaches, starts with *)
(* the event after.                                                         *)
LEMMA HearEnter ==
  ASSUME TypeOK, TypeOK', HearInv, NEW s \in Session, Enter(s), bus = "empty" \/ Healthy \/ ~Healthy',
         UNCHANGED <<log, member, heard, wire, fetching, asof>>
  PROVE  HearInv'
<1>0. ReadInv /\ EvictedIsOut /\ ExactlyOnce
  BY DEF HearInv
<1>1. ReadInv'
  BY <1>0 DEF ReadInv, Removals
<1>2. ASSUME Healthy', NEW t \in topic'
      PROVE  t \in Session /\ \/ since'[t] = Len(log)
                              \/ Healthy /\ t \in topic /\ since'[t] = since[t]
  BY <1>2 DEF Enter, TypeOK, Healthy
<1>3. EvictedIsOut'
  <2> SUFFICES ASSUME Healthy', NEW t \in topic' \ member, NEW n \in Removals(t)
               PROVE  \/ OnWire(n)
                      \/ asof[t] < n /\ n <= since'[t]
                      \/ \E m \in Removals(t) : m > n
    BY DEF EvictedIsOut, Removals, Healthy, OnWire
  <2>1. n \in 1..Len(log) /\ t \in Session /\ asof[t] \in Nat /\ Len(log) \in Nat
        /\ \A m \in Removals(t) : m \in 1..Len(log)
    BY Lengths DEF Removals, TypeOK
  <2>2. CASE since'[t] = Len(log)
    <3>1. PICK m \in Removals(t) : m > asof[t]
      BY <1>0, <2>1 DEF ReadInv
    <3> QED
      BY <2>1, <2>2, <3>1
  <2>3. CASE Healthy /\ t \in topic /\ since'[t] = since[t]
    BY <1>0, <2>3 DEF EvictedIsOut, Healthy
  <2> QED
    BY <1>2, <2>2, <2>3
<1>4. ExactlyOnce'
  <2> SUFFICES ASSUME Healthy', NEW t \in topic', NEW n \in since'[t] + 1..Len(log)
               PROVE  TimesIn(n, heard[t]) = IF OnWire(n) \/ InFetch(n) THEN 0 ELSE 1
    BY DEF ExactlyOnce, Healthy, OnWire, InFetch
  <2>2. CASE since'[t] = Len(log)
    BY <2>2, Lengths
  <2>3. CASE Healthy /\ t \in topic /\ since'[t] = since[t]
    BY <1>0, <2>3 DEF ExactlyOnce, Healthy
  <2> QED
    BY <1>2, <2>2, <2>3
<1> QED
  BY <1>1, <1>3, <1>4 DEF HearInv

(* A commit, which the node hears of when it listens. *)
LEMMA HearCommit ==
  ASSUME TypeOK, TypeOK', BusInv, OrderInv, HearInv, NEW e \in Event,
         e.n = Len(log) + 1, e.kind # "delete", Publish(e),
         UNCHANGED <<fetching, heard, link, pgbus, subs, asof, since, troubled>>,
         \/ member \subseteq member'
         \/ e.kind = "remove" /\ \E u \in Session : e.who = {u} /\ member' = member \ {u}
  PROVE  HearInv'
<1>0. ReadInv /\ EvictedIsOut /\ ExactlyOnce /\ HeardInv
  BY DEF HearInv, OrderInv
<1>k. PICK last \in Nat : last = Len(log) + 1
  BY Lengths
<1>1. /\ Len(log) \in Nat /\ log' \in Seq(Event) /\ Len(log') = last /\ log'[last] = e
      /\ \A n \in 1..Len(log) : log'[n] = log[n] /\ n \in 1..Len(log') /\ n # last /\ last > n
      /\ DOMAIN log = 1..Len(log) /\ DOMAIN log' = 1..Len(log')
  BY SMTT(30), <1>k, AppendProperties DEF Publish, TypeOK
<1>2. \A t \in Session : \A n \in Removals(t) : n \in Removals(t)'
  BY <1>1 DEF Removals
<1>3. ASSUME NEW t \in Session, t \in member \/ t \in member', t \notin member'
      PROVE  last \in Removals(t)'
  <2>1. e.kind = "remove" /\ t \in e.who
    BY <1>3
  <2> QED
    <3>1. last \in 1..Len(log')
      BY <1>k, <1>1
    <3> QED
      BY <1>1, <2>1, <3>1 DEF Removals
<1>4. ReadInv'
  <2> SUFFICES ASSUME NEW t \in Session
               PROVE  /\ asof[t] <= Len(log')
                      /\ t \in member' \/ \E n \in Removals(t)' : n > asof[t]
    BY DEF ReadInv
  <2>1. asof[t] \in Nat /\ asof[t] <= Len(log) /\ last > asof[t]
    BY <1>0, <1>k, Lengths DEF ReadInv
  <2>2. CASE t \in member
    BY <1>1, <1>3, <2>1, <2>2
  <2>3. CASE t \notin member
    BY <1>0, <1>1, <1>2, <2>1, <2>3 DEF ReadInv
  <2> QED
    BY <2>2, <2>3
<1>w. ASSUME Healthy
      PROVE  /\ OnWire(last)'
             /\ \A n \in 1..Len(log) : OnWire(n)' <=> OnWire(n)
  <2>1. listening
    BY <1>w DEF Healthy, BusInv, QuietInv, EndsListening
  <2>2. wire' = Append(wire, e) /\ wire \in Seq(Event)
    BY <2>1 DEF Publish, Notify, TypeOK
  <2>3. /\ Len(wire) \in Nat /\ Len(wire') = Len(wire) + 1 /\ wire'[Len(wire) + 1] = e
        /\ \A i \in 1..Len(wire) : wire'[i] = wire[i]
        /\ DOMAIN wire = 1..Len(wire) /\ DOMAIN wire' = 1..Len(wire) + 1
    BY <2>2, AppendProperties
  <2>4. OnWire(last)'
    BY <1>k, <1>1, <2>3 DEF OnWire
  <2>5. ASSUME NEW n \in 1..Len(log)
        PROVE  OnWire(n)' <=> OnWire(n)
    <3>1. e.n # n
      BY <1>k, <1>1
    <3>2. /\ \A i \in 1..Len(wire) : i \in 1..Len(wire) + 1
          /\ \A i \in 1..Len(wire) + 1 : i \in 1..Len(wire) \/ i = Len(wire) + 1
      BY <2>3
    <3> QED
      BY <2>3, <3>1, <3>2 DEF OnWire
  <2> QED
    BY <2>4, <2>5
<1>5. EvictedIsOut'
  <2> SUFFICES ASSUME Healthy, NEW t \in topic, t \notin member', NEW n \in Removals(t)'
               PROVE  \/ OnWire(n)'
                      \/ asof[t] < n /\ n <= since[t]
                      \/ \E m \in Removals(t)' : m > n
    BY DEF EvictedIsOut, Healthy, subs, pgbus
  <2>0. t \in Session /\ n \in 1..Len(log')
    BY <1>1 DEF TypeOK, Removals
  <2>1. CASE n = last
    BY <1>w, <2>1
  <2>2. CASE n # last
    <3>1. n \in 1..Len(log) /\ n \in Removals(t)
      BY <1>k, <1>1, <2>0, <2>2 DEF Removals
    <3>2. CASE t \in member
      <4>1. last \in Removals(t)' /\ last > n
        BY <1>1, <1>3, <2>0, <3>1, <3>2
      <4> QED
        BY <4>1
    <3>3. CASE t \notin member
      BY <1>0, <1>2, <1>w, <2>0, <3>1, <3>3 DEF EvictedIsOut, Healthy
    <3> QED
      BY <3>2, <3>3
  <2> QED
    BY <2>1, <2>2
<1>6. ExactlyOnce'
  <2> SUFFICES ASSUME Healthy, NEW t \in topic, NEW n \in since[t] + 1..Len(log')
               PROVE  TimesIn(n, heard[t]) = IF OnWire(n)' \/ InFetch(n)' THEN 0 ELSE 1
    BY DEF ExactlyOnce, Healthy, subs, pgbus
  <2>0. t \in Session /\ since[t] \in Nat
    BY Lengths DEF TypeOK
  <2>1. CASE n = last
    <3>1. \A i \in 1..Len(heard[t]) : heard[t][i] # n
      BY <1>0, <1>k, <1>1, <2>0, <2>1 DEF HeardInv
    <3>2. TimesIn(n, heard[t]) = 0
      BY <1>1, <2>0, <2>1, <3>1, Lengths, TimesZero
    <3> QED
      BY <1>w, <2>1, <3>2
  <2>2. CASE n # last
    <3>1. n \in since[t] + 1..Len(log) /\ n \in 1..Len(log)
      BY <1>k, <1>1, <2>0, <2>2
    <3>2. TimesIn(n, heard[t]) = IF OnWire(n) \/ InFetch(n) THEN 0 ELSE 1
      BY <1>0, <3>1 DEF ExactlyOnce, Healthy
    <3> QED
      BY <1>w, <3>1, <3>2 DEF InFetch
  <2> QED
    BY <2>1, <2>2
<1> QED
  BY <1>4, <1>5, <1>6 DEF HearInv

(* Everybody in the topic hears event m once, which is then on its way no  *)
(* more.                                                                    *)
LEMMA HearOnce ==
  ASSUME TypeOK, TypeOK', HearInv, UNCHANGED <<log, member, asof, since>>, Healthy' => Healthy,
         NEW m \in 1..Len(log),
         Healthy' => /\ OnWire(m) \/ InFetch(m)
                     /\ ~OnWire(m)' /\ ~InFetch(m)'
                     /\ \A n \in 1..Len(log) : n # m => (OnWire(n)' <=> OnWire(n)) /\ (InFetch(n)' <=> InFetch(n))
                     /\ \A t \in topic' : t \in topic /\ heard'[t] = heard[t] \o Copies(m, 1)
                     /\ \A t \in topic' : m \notin Removals(t)
  PROVE  HearInv'
<1>0. ReadInv /\ EvictedIsOut /\ ExactlyOnce
  BY DEF HearInv
<1>1. ReadInv'
  BY <1>0 DEF ReadInv, Removals
<1>2. EvictedIsOut'
  <2> SUFFICES ASSUME Healthy', NEW t \in topic' \ member, NEW n \in Removals(t)
               PROVE  \/ OnWire(n)'
                      \/ asof[t] < n /\ n <= since[t]
                      \/ \E k \in Removals(t) : k > n
    BY DEF EvictedIsOut, Removals, Healthy
  <2>1. t \in topic /\ n # m /\ n \in 1..Len(log)
    BY Lengths DEF Removals
  <2>2. \/ OnWire(n)
        \/ asof[t] < n /\ n <= since[t]
        \/ \E k \in Removals(t) : k > n
    BY <1>0, <2>1 DEF EvictedIsOut, Healthy
  <2> QED
    BY <2>1, <2>2
<1>3. ExactlyOnce'
  <2> SUFFICES ASSUME Healthy', NEW t \in topic', NEW n \in since[t] + 1..Len(log)
               PROVE  TimesIn(n, heard'[t]) = IF OnWire(n)' \/ InFetch(n)' THEN 0 ELSE 1
    BY DEF ExactlyOnce, Healthy
  <2>0. t \in topic /\ t \in Session /\ heard'[t] = heard[t] \o Copies(m, 1)
    BY DEF TypeOK
  <2>1. heard[t] \in Seq(Nat) /\ n \in 1..Len(log) /\ n \in Nat /\ m \in Nat
    BY <2>0, Lengths
  <2>2. TimesIn(n, heard[t]) = IF OnWire(n) \/ InFetch(n) THEN 0 ELSE 1
    BY <1>0, <2>0 DEF ExactlyOnce, Healthy
  <2>3. TimesIn(n, heard'[t]) = IF n = m THEN TimesIn(n, heard[t]) + 1 ELSE TimesIn(n, heard[t])
    <3>1. Once(n, m, heard[t], heard'[t])
      BY <2>0, <2>1, TimesOnce
    <3> QED
      BY <3>1 DEF Once
  <2>4. CASE n = m
    BY <2>1, <2>2, <2>3, <2>4
  <2>5. CASE n # m
    BY <2>1, <2>2, <2>3, <2>5
  <2> QED
    BY <2>4, <2>5
<1> QED
  BY <1>1, <1>2, <1>3 DEF HearInv

(* What is on its way after a notification is handled. *)
LEMMA PopWire ==
  ASSUME TypeOK, TypeOK', OrderInv, wire # <<>>, wire' = Tail(wire), UNCHANGED log
  PROVE  /\ \A n \in 1..Len(log) : n # Head(wire).n => (OnWire(n)' <=> OnWire(n))
         /\ Head(wire).kind # "delete" =>
              /\ Head(wire).n \in 1..Len(log) /\ log[Head(wire).n] = Head(wire)
              /\ OnWire(Head(wire).n)
              /\ \A n \in 1..Len(log) : n = Head(wire).n => ~OnWire(n)'
<1>1. /\ Len(wire) \in Nat \ {0} /\ Len(wire') = Len(wire) - 1
      /\ \A i \in 1..Len(wire') : i + 1 \in 1..Len(wire) /\ 1 < i + 1 /\ wire'[i] = wire[i + 1]
      /\ Head(wire) = wire[1] /\ 1 \in 1..Len(wire)
      /\ DOMAIN wire = 1..Len(wire) /\ DOMAIN wire' = 1..Len(wire')
  <2>1. wire \in Seq(Event) /\ wire' \in Seq(Event)
    BY DEF TypeOK
  <2>2. DOMAIN wire = 1..Len(wire) /\ DOMAIN wire' = 1..Len(wire')
    BY <2>1
  <2> QED
    BY <2>2, Popped
<1>2. \A i \in 1..Len(wire) : i = 1 \/ (i - 1 \in 1..Len(wire') /\ (i - 1) + 1 = i)
  BY <1>1
<1>3. ASSUME NEW n \in 1..Len(log), n # Head(wire).n
      PROVE  OnWire(n)' <=> OnWire(n)
  <2>1. OnWire(n)' => OnWire(n)
    BY <1>1 DEF OnWire
  <2>2. ASSUME NEW i \in 1..Len(wire), wire[i].n = n
        PROVE  OnWire(n)'
    <3>1. i # 1
      BY <1>1, <1>3, <2>2
    <3> QED
      BY ZenonT(60), <1>1, <1>2, <2>2, <3>1 DEF OnWire
  <2> QED
    BY <1>1, <2>1, <2>2 DEF OnWire
<1>4. /\ Head(wire).kind # "delete" =>
           /\ Head(wire).n \in 1..Len(log) /\ log[Head(wire).n] = Head(wire)
           /\ \A i \in 1..Len(wire') : wire'[i].kind # "delete" => Head(wire).n < wire'[i].n
      /\ WireInv'
  BY PopOrder
<1>5. ASSUME Head(wire).kind # "delete", NEW n \in 1..Len(log), n = Head(wire).n, NEW i \in 1..Len(wire')
      PROVE  wire'[i].n # n
  <2>1. CASE wire'[i].kind = "delete"
    BY <1>4, <1>5, <2>1 DEF WireInv
  <2>2. CASE wire'[i].kind # "delete"
    BY <1>4, <1>5, <2>2 DEF WireInv
  <2> QED
    BY <2>1, <2>2
<1>6. OnWire(Head(wire).n)
  BY <1>1 DEF OnWire
<1> QED
  BY <1>1, <1>3, <1>4, <1>5, <1>6 DEF OnWire

(* A notification that is heard at once. *)
LEMMA HearAtOnce ==
  ASSUME TypeOK, TypeOK', BusInv, OrderInv, HearInv, wire # <<>>, wire' = Tail(wire),
         Head(wire).kind \notin {"delete", "big"},
         UNCHANGED <<log, member, fetching, asof, since, bus, troubled>>, topic' \subseteq topic,
         \A t \in topic' : Healthy => heard'[t] = heard[t] \o Copies(Head(wire).n, 1),
         Head(wire).kind = "remove" => \A t \in topic' : t \notin Head(wire).who \/ ~Healthy
  PROVE  HearInv'
<1>1. PICK m \in 1..Len(log) : m = Head(wire).n
  BY PopWire
<1>2. log[m] = Head(wire) /\ OnWire(m) /\ ~OnWire(m)'
      /\ \A n \in 1..Len(log) : n # m => (OnWire(n)' <=> OnWire(n))
  BY <1>1, PopWire
<1>3. ~InFetch(m) /\ \A n \in 1..Len(log) : InFetch(n)' <=> InFetch(n)
  BY <1>2 DEF InFetch, OrderInv, FetchInv
<1>4. ~InFetch(m)'
  BY <1>3
<1>5. Healthy' <=> Healthy
  BY DEF Healthy
<1>6. Healthy => \A t \in topic' : m \notin Removals(t)
  BY <1>2 DEF Removals
<1> QED
  BY <1>1, <1>2, <1>3, <1>4, <1>5, <1>6, HearOnce

LEMMA HearDeliver ==
  ASSUME TypeOK, TypeOK', BusInv, OrderInv, HearInv, Deliver
  PROVE  HearInv'
<1>c. /\ Healthy => callbacks = 1
      /\ \A t \in topic : t \in Session
  BY DEF Healthy, BusInv, QuietInv, TypeOK
<1>1. CASE DeliverSmall
  <2>1. UNCHANGED <<log, member, fetching, asof, since, bus, troubled, topic>>
    BY <1>1 DEF DeliverSmall, db, pgbus, subs
  <2>2. \A t \in topic' : Healthy => heard'[t] = heard[t] \o Copies(Head(wire).n, 1)
    BY <1>1, <1>c, <2>1 DEF DeliverSmall, Hear, Healthy
  <2> QED
    BY <1>1, <2>1, <2>2, HearAtOnce DEF DeliverSmall
<1>2. CASE DeliverBig
  <2>1. /\ UNCHANGED <<log, member, heard, asof, since, bus, troubled, topic>>
        /\ wire # <<>> /\ wire' = Tail(wire) /\ Head(wire).kind = "big"
        /\ Healthy => fetching' = fetching \cup {<<Head(wire).n, i>> : i \in 1..callbacks}
    BY <1>2 DEF DeliverBig, db, pgbus, subs, Healthy
  <2>2. /\ \A n \in 1..Len(log) : n # Head(wire).n => (OnWire(n)' <=> OnWire(n))
        /\ OnWire(Head(wire).n)
        /\ \A n \in 1..Len(log) : n = Head(wire).n => ~OnWire(n)'
    BY <2>1, PopWire
  <2>3. ASSUME Healthy, NEW n \in 1..Len(log)
        PROVE  InFetch(n)' <=> InFetch(n) \/ n = Head(wire).n
    <3>1. 1..callbacks = {1}
      BY <1>c, <2>3
    <3>2. fetching' = fetching \cup {<<Head(wire).n, 1>>}
      BY <2>1, <2>3, <3>1
    <3>3. PICK g : g = <<Head(wire).n, 1>>
      OBVIOUS
    <3>4. fetching' = fetching \cup {g} /\ g[1] = Head(wire).n
      BY <3>2, <3>3
    <3> QED
      BY <3>4 DEF InFetch
  <2>4. ASSUME NEW n \in 1..Len(log), Healthy, NEW t \in topic, n > since[t]
        PROVE  TimesIn(n, heard[t]) = IF OnWire(n)' \/ InFetch(n)' THEN 0 ELSE 1
    <3>1. n \in since[t] + 1..Len(log)
      BY <1>c, <2>4, Lengths
    <3>2. TimesIn(n, heard[t]) = IF OnWire(n) \/ InFetch(n) THEN 0 ELSE 1
      BY <2>4, <3>1 DEF HearInv, ExactlyOnce, Healthy
    <3>3. (OnWire(n) \/ InFetch(n)) <=> (OnWire(n)' \/ InFetch(n)')
      BY <2>2, <2>3, <2>4
    <3> QED
      BY <3>2, <3>3
  <2>5. ExactlyOnce'
    <3> SUFFICES ASSUME Healthy, NEW t \in topic, NEW n \in since[t] + 1..Len(log)
                 PROVE  TimesIn(n, heard[t]) = IF OnWire(n)' \/ InFetch(n)' THEN 0 ELSE 1
      BY <2>1 DEF ExactlyOnce, Healthy
    <3>1. n \in 1..Len(log) /\ n > since[t]
      BY <1>c, Lengths
    <3> QED
      BY <2>4, <3>1
  <2>6. EvictedIsOut'
    <3> SUFFICES ASSUME Healthy, NEW t \in topic \ member, NEW n \in Removals(t)
                 PROVE  \/ OnWire(n)'
                        \/ asof[t] < n /\ n <= since[t]
                        \/ \E k \in Removals(t) : k > n
      BY <2>1 DEF EvictedIsOut, Removals, Healthy
    <3>1. n \in 1..Len(log) /\ log[n].kind = "remove"
      BY Lengths DEF Removals
    <3>2. n # Head(wire).n
      BY <2>1, <3>1, PopWire
    <3>3. OnWire(n)' <=> OnWire(n)
      BY <2>2, <3>1, <3>2
    <3> QED
      BY <3>3 DEF HearInv, EvictedIsOut, Healthy
  <2>7. ReadInv'
    BY <2>1 DEF HearInv, ReadInv, Removals
  <2> QED
    BY <2>5, <2>6, <2>7 DEF HearInv
<1>3. ASSUME NEW f \in fetching, FetchDone(f)
      PROVE  HearInv'
  <2>1. /\ UNCHANGED <<log, member, wire, asof, since, bus, troubled, topic>>
        /\ fetching' = fetching \ {f}
        /\ \A t \in topic : heard'[t] = heard[t] \o Copies(f[1], 1)
    BY <1>3, <1>c DEF FetchDone, Hear, db, pgbus, subs
  <2>2. f[1] \in 1..Len(log) /\ log[f[1]].kind = "big"
        /\ \A i \in 1..Len(wire) : wire[i].kind # "delete" => f[1] < wire[i].n
    BY DEF OrderInv, FetchInv
  <2>3. ~OnWire(f[1]) /\ InFetch(f[1])
    <3>1. \A i \in 1..Len(wire) : wire[i].n # f[1]
      BY <2>2, Lengths DEF OrderInv, WireInv
    <3> QED
      BY <3>1, OnWireDef DEF InFetch
  <2>4. Healthy => \A g \in fetching : g = f \/ g[1] # f[1]
    <3> SUFFICES ASSUME Healthy, NEW g \in fetching, g[1] = f[1]
                 PROVE  g = f
      OBVIOUS
    <3>1. g \in Nat \X Nat /\ f \in Nat \X Nat
      BY DEF TypeOK
    <3>2. g[2] = f[2]
      BY DEF OrderInv, FetchInv, Healthy
    <3>3. g = <<g[1], g[2]>> /\ f = <<f[1], f[2]>>
      BY <3>1
    <3> QED
      BY <3>2, <3>3
  <2>5. PICK m \in 1..Len(log) : m = f[1]
    BY <2>2
  <2>6. /\ OnWire(m) \/ InFetch(m)
        /\ ~OnWire(m)' /\ (Healthy => ~InFetch(m)')
        /\ \A n \in 1..Len(log) : n # m => (OnWire(n)' <=> OnWire(n)) /\ (InFetch(n)' <=> InFetch(n))
    BY <2>1, <2>3, <2>4, <2>5 DEF OnWire, InFetch
  <2>7. \A t \in topic : m \notin Removals(t)
    BY <2>2, <2>5 DEF Removals
  <2>8. Healthy' <=> Healthy
    BY <2>1 DEF Healthy
  <2> QED
    BY <2>1, <2>5, <2>6, <2>7, <2>8, HearOnce
<1>4. ASSUME NEW f \in fetching, FetchLost(f)
      PROVE  HearInv'
  BY <1>4 DEF FetchLost, db, HearInv, ReadInv, Removals, EvictedIsOut, ExactlyOnce
<1>5. ASSUME NEW u \in Session, DeliverRemove(u)
      PROVE  HearInv'
  <2>1. UNCHANGED <<log, member, fetching, asof, since, bus, troubled>>
    BY <1>5 DEF DeliverRemove, db, pgbus
  <2>2. topic' \subseteq topic
    BY <1>5 DEF DeliverRemove, Evict, Remove
  <2>3. Healthy => u \notin topic'
    <3> SUFFICES ASSUME Healthy, u \in topic
                 PROVE  topic' = topic \ {u}
      BY <2>2
    <3>1. u \in holds /\ known /\ callbacks > 0 /\ topic # {} /\ bus = "ready"
      BY DEF Healthy, BusInv, QuietInv, HoldInv
    <3> QED
      BY <1>5, <3>1 DEF DeliverRemove, Evict, Remove
  <2>4. \A t \in topic' : Healthy => heard'[t] = heard[t] \o Copies(Head(wire).n, 1)
    <3> SUFFICES ASSUME NEW t \in topic', Healthy
                 PROVE  heard'[t] = heard[t] \o Copies(Head(wire).n, 1)
      OBVIOUS
    <3>1. t \in topic /\ t \in Session /\ callbacks = 1 /\ bus = "ready" /\ topic # {} /\ 1 > 0
      BY <1>c, <2>2 DEF Healthy
    <3>2. heard'[t] = heard[t] \o Copies(Head(wire).n, IF t = u THEN 1 ELSE 1)
      BY <1>5, <3>1 DEF DeliverRemove
    <3> QED
      BY <3>2
  <2>5. wire # <<>> /\ wire' = Tail(wire) /\ Head(wire).kind = "remove" /\ u \in Head(wire).who
    BY <1>5 DEF DeliverRemove
  <2>6. Head(wire).who = {u}
    BY <2>5, <2>1, PopWire DEF OrderInv, LogInv
  <2> QED
    BY <2>1, <2>2, <2>3, <2>4, <2>5, <2>6, HearAtOnce
<1>6. ASSUME NEW u \in Session, DeliverDelete(u)
      PROVE  HearInv'
  <2>1. UNCHANGED <<log, member, heard, fetching, asof, since, bus, troubled>>
    BY <1>6 DEF DeliverDelete, db, pgbus
  <2>2. topic' \subseteq topic
    BY <1>6 DEF DeliverDelete, Evict, Remove
  <2>3. Head(wire).n = 0
    BY <1>6, Popped DEF DeliverDelete, OrderInv, WireInv
  <2>4. \A n \in 1..Len(log) : n # 0
    BY Lengths
  <2>5. \A n \in 1..Len(log) : (OnWire(n)' <=> OnWire(n)) /\ (InFetch(n)' <=> InFetch(n))
    BY <1>6, <2>1, <2>3, <2>4, PopWire DEF DeliverDelete, InFetch
  <2> QED
    BY <2>1, <2>2, <2>5, HearKept DEF Healthy
<1> QED
  BY <1>1, <1>2, <1>3, <1>4, <1>5, <1>6 DEF Deliver

LEMMA HearJoin ==
  ASSUME TypeOK, TypeOK', BusInv, BusInv', HearInv, NEW s \in Session, Joining(s)
  PROVE  HearInv'
<1>0. UNCHANGED <<log, member, heard, wire>>
  BY DEF Joining, AskMembership, AddFirst, AddToBus, AddNext, Listened, db
<1>f. UNCHANGED fetching
  BY DEF Joining, AskMembership, AddFirst, AddToBus, AddNext, Listened
<1>w. \A n \in 1..Len(log) : (OnWire(n)' <=> OnWire(n)) /\ (InFetch(n)' <=> InFetch(n))
  BY <1>0, <1>f DEF OnWire, InFetch
<1>1. CASE AskMembership(s)
  <2>1. /\ UNCHANGED <<topic, since, bus, troubled>>
        /\ asof' = [asof EXCEPT ![s] = Len(log)] /\ s \in member
    BY <1>1 DEF AskMembership, subs, pgbus
  <2>2. \A t \in Session : asof'[t] = asof[t] \/ (t \in member /\ asof'[t] = Len(log))
    BY <2>1 DEF TypeOK
  <2> QED
    BY <1>0, <1>w, <2>1, <2>2, HearKept DEF Healthy
<1>2. CASE AddFirst(s)
  <2>1. ~Healthy' /\ UNCHANGED asof
    BY <1>2 DEF AddFirst, Healthy
  <2> QED
    BY <1>0, <1>w, <2>1, HearKept
<1>3. CASE AddToBus(s)
  <2>1. ~Healthy' /\ UNCHANGED asof
    BY <1>3 DEF AddToBus, Healthy, BusInv, QuietInv
  <2> QED
    BY <1>0, <1>w, <2>1, HearKept
<1>4. CASE AddNext(s)
  BY <1>0, <1>f, <1>4, HearEnter DEF AddNext, pgbus, Healthy
<1>5. CASE Listened(s)
  <2>1. CASE phase[s] = "orphan"
    <3>1. ~Healthy' /\ UNCHANGED asof
      BY <1>5, <2>1 DEF Listened, Healthy, BusInv, QuietInv, TypeOK
    <3> QED
      BY <1>0, <1>w, <3>1, HearKept
  <2>2. CASE phase[s] = "first"
    <3>1. Enter(s) /\ UNCHANGED <<asof, troubled>>
      BY <1>5, <2>2 DEF Listened
    <3>2. bus = "empty" \/ ~Healthy'
      BY <2>2, <3>1 DEF Healthy, BusInv, QuietInv
    <3> QED
      BY <1>0, <1>f, <3>1, <3>2, HearEnter
  <2> QED
    BY <1>5, <2>1, <2>2 DEF Listened
<1> QED
  BY <1>1, <1>2, <1>3, <1>4, <1>5 DEF Joining

LEMMA HearLeave ==
  ASSUME TypeOK, TypeOK', HearInv, NEW s \in Session, Leaving(s)
  PROVE  HearInv'
<1>1. UNCHANGED <<log, member, heard, wire, fetching, asof, since, bus, troubled>>
  BY DEF Leaving, Unsubscribe, Destroy, db, pgbus
<1>2. topic' \subseteq topic
  BY DEF Leaving, Unsubscribe, Destroy, Remove
<1>3. \A n \in 1..Len(log) : (OnWire(n)' <=> OnWire(n)) /\ (InFetch(n)' <=> InFetch(n))
  BY <1>1 DEF OnWire, InFetch
<1> QED
  BY <1>1, <1>2, <1>3, HearKept DEF Healthy

LEMMA HearTimer ==
  ASSUME TypeOK, TypeOK', HearInv, TimerFires \/ StrayFires
  PROVE  HearInv'
<1>1. UNCHANGED <<log, member, heard, wire, asof, since, topic>> /\ Release
  BY DEF TimerFires, StrayFires, db
<1>2. CASE topic = {}
  <2>1. ReadInv'
    BY <1>1 DEF HearInv, ReadInv, Removals
  <2>2. EvictedIsOut' /\ ExactlyOnce'
    BY <1>1, <1>2 DEF EvictedIsOut, ExactlyOnce
  <2> QED
    BY <2>1, <2>2 DEF HearInv
<1>3. CASE topic # {}
  <2>1. UNCHANGED <<fetching, bus, troubled>>
    BY <1>1, <1>3 DEF Release, pgbus
  <2>2. \A n \in 1..Len(log) : (OnWire(n)' <=> OnWire(n)) /\ (InFetch(n)' <=> InFetch(n))
    BY <1>1, <2>1 DEF OnWire, InFetch
  <2> QED
    BY <1>1, <2>1, <2>2, HearKept DEF Healthy
<1> QED
  BY <1>2, <1>3

LEMMA HearDatabase ==
  ASSUME TypeOK, TypeOK', BusInv, OrderInv, HearInv, Database
  PROVE  HearInv'
<1>l. Len(log) + 1 \in Nat
  BY DEF TypeOK
<1>1. ASSUME NEW kind \in Kind, Commit(kind)
      PROVE  HearInv'
  <2> DEFINE e == [n |-> Len(log) + 1, kind |-> kind, who |-> {}]
  <2>1. e \in Event /\ e.n = Len(log) + 1 /\ e.kind # "delete" /\ Publish(e)
    BY <1>l, <1>1 DEF Commit, Event, Kind
  <2>2. UNCHANGED <<member, fetching, heard, link, pgbus, subs, asof, since, troubled>>
    BY <1>1 DEF Commit
  <2> QED
    BY <2>1, <2>2, HearCommit
<1>2. ASSUME NEW u \in Session, RemoveMember(u)
      PROVE  HearInv'
  <2> DEFINE e == [n |-> Len(log) + 1, kind |-> "remove", who |-> {u}]
  <2>1. e \in Event /\ e.n = Len(log) + 1 /\ e.kind = "remove" /\ e.who = {u} /\ Publish(e)
    BY <1>l, <1>2 DEF RemoveMember, Event, Kind
  <2>2. UNCHANGED <<fetching, heard, link, pgbus, subs, asof, since, troubled>> /\ member' = member \ {u}
    BY <1>2 DEF RemoveMember
  <2> QED
    BY <2>1, <2>2, HearCommit
<1>3. ASSUME NEW u \in Session, AddMember(u)
      PROVE  HearInv'
  <2> DEFINE e == [n |-> Len(log) + 1, kind |-> "small", who |-> {}]
  <2>1. e \in Event /\ e.n = Len(log) + 1 /\ e.kind # "delete" /\ Publish(e)
    BY <1>l, <1>3 DEF AddMember, Event, Kind
  <2>2. UNCHANGED <<fetching, heard, link, pgbus, subs, asof, since, troubled>> /\ member \subseteq member'
    BY <1>3 DEF AddMember
  <2> QED
    BY <2>1, <2>2, HearCommit
<1>4. ASSUME NEW u \in Session, SayFarewell(u)
      PROVE  HearInv'
  <2>1. UNCHANGED <<log, member, heard, fetching, asof, since, topic, bus, troubled>>
    BY <1>4 DEF SayFarewell, pgbus, subs
  <2> DEFINE e == [n |-> 0, kind |-> "delete", who |-> {u}]
  <2>2. e \in Event /\ wire \in Seq(Event) /\ wire' = Append(wire, e) /\ e.n = 0
    BY <1>4 DEF SayFarewell, Event, Kind, TypeOK
  <2>3. /\ Len(wire) \in Nat /\ wire'[Len(wire) + 1] = e
        /\ \A i \in 1..Len(wire) : wire'[i] = wire[i]
        /\ DOMAIN wire = 1..Len(wire) /\ DOMAIN wire' = 1..Len(wire) + 1
    BY <2>2, AppendProperties
  <2>4. ASSUME NEW n \in 1..Len(log)
        PROVE  (OnWire(n)' <=> OnWire(n)) /\ (InFetch(n)' <=> InFetch(n))
    <3>1. e.n # n
      BY <2>2, Lengths
    <3>2. /\ \A i \in 1..Len(wire) : i \in 1..Len(wire) + 1
          /\ \A i \in 1..Len(wire) + 1 : i \in 1..Len(wire) \/ i = Len(wire) + 1
      BY <2>3
    <3> QED
      BY <2>1, <2>3, <3>1, <3>2 DEF OnWire, InFetch
  <2> QED
    BY <2>1, <2>4, HearKept DEF Healthy
<1> QED
  BY <1>1, <1>2, <1>3, <1>4 DEF Database

LEMMA HearLink ==
  ASSUME TypeOK, TypeOK', HearInv, Execute \/ Drop
  PROVE  HearInv'
<1>1. CASE Execute
  <2>1. UNCHANGED <<log, member, heard, wire, fetching, asof, since, topic, bus, troubled>>
    BY <1>1 DEF Execute, db, pgbus, subs
  <2> QED
    BY <2>1 DEF HearInv, ReadInv, Removals, EvictedIsOut, ExactlyOnce, OnWire, InFetch
<1>2. CASE Drop
  <2>1. troubled' /\ UNCHANGED <<log, member, asof>>
    BY <1>2 DEF Drop, db
  <2> QED
    BY <2>1 DEF HearInv, ReadInv, Removals, EvictedIsOut, ExactlyOnce
<1> QED
  BY <1>1, <1>2

LEMMA HearStep ==
  ASSUME TypeOK, TypeOK', BusInv, BusInv', OrderInv, HearInv, [Next]_vars
  PROVE  HearInv'
<1>1. CASE UNCHANGED vars
  BY <1>1 DEF vars, db, pgbus, subs, HearInv, ReadInv, Removals, EvictedIsOut, ExactlyOnce, OnWire, InFetch
<1> QED
  BY <1>1, HearJoin, HearLeave, HearTimer, HearDatabase, HearLink, HearDeliver DEF Next

-----------------------------------------------------------------------------
(* The theorems. *)

IInv == TypeOK /\ CallInv /\ BusInv /\ OrderInv /\ HearInv

(* The inductive invariant of the topic, in the layers above. *)
THEOREM Invariance == Spec => []IInv
<1>1. Init => IInv
  BY InitTypes, InitBus, InitOrder, InitHear DEF IInv
<1>2. IInv /\ [Next]_vars => IInv'
  <2> SUFFICES ASSUME IInv, [Next]_vars
               PROVE  IInv'
    OBVIOUS
  <2>1. TypeOK /\ CallInv /\ BusInv /\ OrderInv /\ HearInv
    BY DEF IInv
  <2>2. TypeOK' /\ CallInv'
    BY <2>1, TypeStep
  <2>3. BusInv'
    BY <2>1, BusStep
  <2>4. OrderInv'
    BY <2>1, OrderStep
  <2>5. HearInv'
    BY <2>1, <2>2, <2>3, HearStep
  <2> QED
    BY <2>2, <2>3, <2>4, <2>5 DEF IInv
<1> QED
  BY <1>1, <1>2, PTL DEF Spec

(* Every variable of the bus and the subscriptions keeps its type; the     *)
(* driver is never asked to take back a callback it does not have.          *)
THEOREM TypeCorrect == Spec => []TypeOK
<1>1. IInv => TypeOK
  BY DEF IInv
<1> QED
  BY <1>1, Invariance, PTL

(* Each event exactly once, until trouble (bus.ts dispatch, subscriptions.ts add). *)
THEOREM ExactlyOnceHolds == Spec => []ExactlyOnce
<1>1. IInv => ExactlyOnce
  BY DEF IInv, HearInv
<1> QED
  BY <1>1, Invariance, PTL

(* Events with their body are dispatched in the order of their commits,    *)
(* whatever happens (bus.ts dispatch).                                      *)
THEOREM SmallInOrderHolds == Spec => []SmallInOrder
<1>1. IInv => SmallInOrder
  <2> SUFFICES ASSUME TypeOK, InOrder
               PROVE  SmallInOrder
    BY DEF IInv, OrderInv
  <2> QED
    BY Lengths DEF InOrder, SmallInOrder
<1> QED
  BY <1>1, Invariance, PTL

(* Who was removed leaves the topic with the event that says so, unless    *)
(* the join used an older membership (subscriptions.ts dropConversation).   *)
THEOREM EvictedIsOutHolds == Spec => []EvictedIsOut
<1>1. IInv => EvictedIsOut
  BY DEF IInv, HearInv
<1> QED
  BY <1>1, Invariance, PTL

(* No LISTEN outlives its last session for good, until trouble             *)
(* (subscriptions.ts remove, bus.ts unsubscribe).                           *)
THEOREM IdleIsTemporaryHolds == Spec => []IdleIsTemporary
<1>1. IInv => IdleIsTemporary
  <2> SUFFICES ASSUME TypeOK, QuietInv, GraceInv, ~troubled, listening \/ cmds # <<>>, topic = {},
                      ~grace, ~(stray > 0), ~Waiting
               PROVE  cmds # <<>> /\ cmds[Len(cmds)] = "unlisten"
    BY DEF IInv, BusInv, IdleIsTemporary
  <2>1. bus = "none"
    BY DEF QuietInv, GraceInv, Waiting, TypeOK
  <2>2. ~EndsListening
    BY <2>1 DEF QuietInv
  <2>3. cmds # <<>> /\ cmds[Len(cmds)] # "listen"
    BY <2>2 DEF EndsListening
  <2>4. cmds[Len(cmds)] \in {"listen", "unlisten"}
    <3>1. cmds \in Seq({"listen", "unlisten"})
      BY DEF TypeOK
    <3>2. Len(cmds) \in Nat \ {0}
      BY <2>3, <3>1, EmptySeq
    <3>3. Len(cmds) \in 1..Len(cmds)
      BY <3>2
    <3> QED
      BY <3>1, <3>3
  <2> QED
    BY <2>3, <2>4
<1> QED
  BY <1>1, Invariance, PTL
=============================================================================
