--------------------------- MODULE Presence_proofs ---------------------------
(***************************************************************************)
(* Type correctness of presence, for every set of connections, gateways    *)
(* and devices, and what ageing out rests on.  TypeOK is inductive: what   *)
(* it says of a gateway that is down, that nothing names it, holds because *)
(* every statement of a connection is its gateway's, and an end leaves the *)
(* rows, and the upserts still to run, to an id no gateway has again.      *)
(***************************************************************************)
EXTENDS Presence, TLAPS

PlainTypes ==
  /\ at \in [Conn -> Place]
  /\ node \in [Conn -> Node]
  /\ device \in [Conn -> Device]
  /\ deaf \in SUBSET Conn
  /\ up \in [Node -> BOOLEAN]
  /\ local \in [Node -> SUBSET Device]
  /\ row \in [Device -> {NoRow} \cup [node : Node \cup {Former}, fresh : BOOLEAN]]
  /\ status \in {"online", "offline"}
  /\ refreshing \in SUBSET SUBSET Device
  /\ late \in SUBSET ({"inserting", "deleting"} \X Device)
  /\ sweeping \in BOOLEAN

DeafPlaces == \A c \in deaf : at[c] \in Handshake \cup Leaving \cup {"leaked"}

DownIsEmpty ==
  \A n \in Node : ~up[n] =>
    /\ local[n] = {}
    /\ \A d \in Device : row[d] # NoRow => row[d].node # n
    /\ \A c \in Conn : at[c] # "idle" => node[c] # n

LEMMA AnyTypes ==
  ASSUME TRUE
  PROVE  AnyNode \in Node /\ AnyDevice \in Device
BY NonEmptyAssumption DEF AnyNode, AnyDevice

(* The gateway of a connection runs.                                       *)
LEMMA RunsOn ==
  ASSUME TypeOK, NEW c \in Conn, at[c] # "idle"
  PROVE  up[node[c]] /\ node[c] \in Node /\ device[c] \in Device
BY DEF TypeOK

LEMMA InitTypes ==
  ASSUME Init
  PROVE  TypeOK
<1>1. PlainTypes
  BY AnyTypes DEF Init, PlainTypes, Place
<1>2. DeafPlaces /\ DownIsEmpty
  BY DEF Init, DeafPlaces, DownIsEmpty
<1> QED
  BY <1>1, <1>2 DEF TypeOK, PlainTypes, DeafPlaces, DownIsEmpty

-----------------------------------------------------------------------------
(* A connection's steps.                                                   *)

(* One that moves on, on the gateway it is on.                             *)
LEMMA Moves ==
  ASSUME TypeOK, NEW c \in Conn, at[c] # "idle", NEW place \in Place, Goes(c, place),
         deaf' \in SUBSET (deaf \cup {c}),
         c \in deaf' => place \in Handshake \cup Leaving \cup {"leaked"},
         UNCHANGED up, local' \in [Node -> SUBSET Device],
         \A n \in Node : ~up[n] => local'[n] = {},
         row' = row \/ \E f \in BOOLEAN : row' = [row EXCEPT ![device[c]] = Row(node[c], f)]
                    \/ row' = [row EXCEPT ![device[c]] = NoRow],
         status' \in {"online", "offline"}, UNCHANGED <<sent, sweeping>>
  PROVE  TypeOK'
<1>1. node[c] \in Node /\ up[node[c]] /\ device[c] \in Device
  BY RunsOn
<1>2. row' \in [Device -> {NoRow} \cup [node : Node \cup {Former}, fresh : BOOLEAN]]
  BY <1>1 DEF TypeOK, Row
<1>3. PlainTypes'
  BY <1>2 DEF TypeOK, PlainTypes, Goes, sent
<1>4. DeafPlaces'
  BY DEF TypeOK, DeafPlaces, Goes
<1>5. \A d \in Device : row'[d] # NoRow => row'[d] = row[d] \/ row'[d].node = node[c]
  BY <1>1 DEF TypeOK, Row
<1>6. DownIsEmpty'
  <2> SUFFICES ASSUME NEW n \in Node, ~up[n]
               PROVE  /\ local'[n] = {}
                      /\ \A d \in Device : row'[d] # NoRow => row'[d].node # n
                      /\ \A o \in Conn : at'[o] # "idle" => node'[o] # n
    BY DEF DownIsEmpty
  <2>1. \A d \in Device : row'[d] # NoRow => row'[d].node # n
    BY <1>1, <1>5 DEF TypeOK
  <2>2. \A o \in Conn : at'[o] # "idle" => node'[o] # n
    BY <1>1 DEF TypeOK, Goes
  <2> QED
    BY <2>1, <2>2
<1> QED
  BY <1>3, <1>4, <1>6 DEF TypeOK, PlainTypes, DeafPlaces, DownIsEmpty

(* One that ends, with fewer devices on the maps.                          *)
LEMMA GoesIdle ==
  ASSUME TypeOK, NEW c \in Conn, Idle(c), UNCHANGED <<up, local, row, sent, sweeping>>,
         status' \in {"online", "offline"}
  PROVE  TypeOK'
<1>1. PlainTypes'
  BY AnyTypes DEF TypeOK, PlainTypes, Idle, Place, sent
<1>2. DeafPlaces'
  BY DEF TypeOK, DeafPlaces, Idle
<1>3. DownIsEmpty'
  BY DEF TypeOK, DownIsEmpty, Idle
<1> QED
  BY <1>1, <1>2, <1>3 DEF TypeOK, PlainTypes, DeafPlaces, DownIsEmpty

LEMMA IdentifyStep ==
  ASSUME TypeOK, NEW c \in Conn, NEW n \in Node, NEW d \in Device, Identify(c, n, d)
  PROVE  TypeOK'
<1>1. PlainTypes'
  BY DEF TypeOK, PlainTypes, Identify, gateways, tables, sent, Place, Handshake
<1>2. DeafPlaces'
  BY DEF TypeOK, DeafPlaces, Identify, Handshake
<1>3. DownIsEmpty'
  BY DEF TypeOK, DownIsEmpty, Identify, gateways, tables
<1> QED
  BY <1>1, <1>2, <1>3 DEF TypeOK, PlainTypes, DeafPlaces, DownIsEmpty

(* A device comes on its gateway's map, or leaves it.                      *)
LEMMA Maps ==
  ASSUME TypeOK, NEW c \in Conn, at[c] # "idle", NEW S \in SUBSET Device,
         local' = [local EXCEPT ![node[c]] = S]
  PROVE  local' \in [Node -> SUBSET Device] /\ \A n \in Node : ~up[n] => local'[n] = {}
BY RunsOn DEF TypeOK

LEMMA DisconnectTypes ==
  ASSUME TypeOK, NEW c \in Conn, at[c] # "idle", Disconnect(c), deaf' \in {deaf, deaf \cup {c}},
         UNCHANGED <<up, tables, sent, sweeping>>
  PROVE  TypeOK'
<1>1. local[node[c]] \ {device[c]} \in SUBSET Device
  BY RunsOn DEF TypeOK
<1>2. local' \in [Node -> SUBSET Device] /\ \A n \in Node : ~up[n] => local'[n] = {}
  BY <1>1, Maps DEF Disconnect
<1>3. deaf' \in SUBSET (deaf \cup {c}) /\ "deleting" \in Place /\ "deleting" \in Leaving
  BY DEF Place, Leaving
<1>4. Goes(c, "deleting") /\ row' = row /\ status' \in {"online", "offline"}
  BY DEF Disconnect, tables, TypeOK
<1> QED
  BY <1>2, <1>3, <1>4, Moves

LEMMA ConnStep ==
  ASSUME TypeOK, NEW c \in Conn,
         \/ TakeOver(c) \/ Connect(c) \/ Insert(c) \/ Mark(c) \/ Ready(c) \/ Fail(c)
         \/ CloseEarly(c) \/ Close(c) \/ Delete(c) \/ Count(c) \/ Clear(c)
  PROVE  TypeOK'
<1> USE DEF Place, Handshake, Leaving
<1>1. at[c] # "idle"
  BY DEF TakeOver, Connect, Insert, Mark, Ready, Fail, CloseEarly, Close, Delete, Count, Clear
<1>2. /\ local \in [Node -> SUBSET Device] /\ \A n \in Node : ~up[n] => local[n] = {}
      /\ status \in {"online", "offline"} /\ deaf \in SUBSET (deaf \cup {c})
      /\ local[node[c]] \cup {device[c]} \in SUBSET Device
  BY <1>1, RunsOn DEF TypeOK
<1>3. CASE TakeOver(c)
  <2>1. local' \in [Node -> SUBSET Device] /\ \A n \in Node : ~up[n] => local'[n] = {}
    BY <1>1, <1>2, <1>3, Maps DEF TakeOver
  <2> QED
    BY <1>1, <1>2, <1>3, <2>1, Moves DEF TakeOver, tables
<1>4. CASE Connect(c)
  <2>1. local' \in [Node -> SUBSET Device] /\ \A n \in Node : ~up[n] => local'[n] = {}
    BY <1>1, <1>2, <1>4, Maps DEF Connect
  <2> QED
    BY <1>1, <1>2, <1>4, <2>1, Moves DEF Connect, tables
<1>5. CASE Insert(c)
  BY <1>1, <1>2, <1>5, Moves DEF Insert, gateways
<1>6. CASE Mark(c)
  BY <1>1, <1>2, <1>6, Moves DEF Mark, gateways
<1>7. CASE Ready(c)
  BY <1>1, <1>2, <1>7, Moves DEF Ready, gateways, tables
<1>8. CASE Fail(c)
  BY <1>1, <1>2, <1>8, GoesIdle, DisconnectTypes DEF Fail, NothingToDo, tables
<1>9. CASE CloseEarly(c)
  <2>1. PlainTypes' /\ DeafPlaces'
    BY <1>9 DEF TypeOK, PlainTypes, DeafPlaces, CloseEarly, gateways, tables, sent
  <2>2. DownIsEmpty'
    BY <1>9 DEF TypeOK, DownIsEmpty, CloseEarly, gateways, tables
  <2> QED
    BY <2>1, <2>2 DEF TypeOK, PlainTypes, DeafPlaces, DownIsEmpty
<1>10. CASE Close(c)
  BY <1>1, <1>2, <1>10, GoesIdle, DisconnectTypes DEF Close, NothingToDo, tables
<1>11. CASE Delete(c)
  <2>1. CASE Goes(c, "counting")
    BY <1>1, <1>2, <1>11, <2>1, Moves DEF Delete, gateways, Idle
  <2>2. CASE Idle(c) /\ UNCHANGED row
    BY <1>2, <1>11, <2>2, GoesIdle DEF Delete, gateways
  <2> QED
    BY <1>11, <2>1, <2>2 DEF Delete
<1>12. CASE Count(c)
  BY <1>1, <1>2, <1>12, Moves, GoesIdle DEF Count, gateways, tables
<1>13. CASE Clear(c)
  BY <1>2, <1>13, GoesIdle DEF Clear, gateways
<1> QED
  BY <1>3, <1>4, <1>5, <1>6, <1>7, <1>8, <1>9, <1>10, <1>11, <1>12, <1>13

-----------------------------------------------------------------------------
(* Rows, sweeps and gateways.                                              *)

(* A row that changes keeps its node, goes, or is left to a former one.    *)
LEMMA RowsChange ==
  ASSUME TypeOK, UNCHANGED <<connections, gateways>>,
         row' \in [Device -> {NoRow} \cup [node : Node \cup {Former}, fresh : BOOLEAN]],
         \A d \in Device : row'[d] # NoRow => \/ row'[d].node = Former
                                              \/ row[d] # NoRow /\ row'[d].node = row[d].node,
         status' \in {"online", "offline"}, sweeping' \in BOOLEAN,
         refreshing' \in SUBSET SUBSET Device,
         late' \in SUBSET ({"inserting", "deleting"} \X Device)
  PROVE  TypeOK'
<1>1. PlainTypes' /\ DeafPlaces'
  BY DEF TypeOK, PlainTypes, DeafPlaces, connections, gateways
<1>2. DownIsEmpty'
  BY FormerAssumption DEF TypeOK, DownIsEmpty, connections, gateways
<1> QED
  BY <1>1, <1>2 DEF TypeOK, PlainTypes, DeafPlaces, DownIsEmpty

LEMMA RowStep ==
  ASSUME TypeOK, \/ SweepRows \/ SweepUser \/ WriteStatus
                 \/ \E n \in Node : Refresh(n)
                 \/ \E D \in refreshing : RunRefresh(D)
                 \/ \E s \in late : RunLate(s)
                 \/ \E d \in Device : Expire(d)
  PROVE  TypeOK'
<1>1. CASE SweepRows
  BY <1>1, RowsChange DEF TypeOK, SweepRows, sent
<1>2. CASE SweepUser \/ WriteStatus
  BY <1>2, RowsChange DEF TypeOK, SweepUser, WriteStatus, sent
<1>3. ASSUME NEW D \in refreshing, RunRefresh(D)
      PROVE  TypeOK'
  <2>1. \A d \in Device : row'[d] = row[d] \/ (row[d] # NoRow /\ row'[d] = [row[d] EXCEPT !.fresh = TRUE])
    BY <1>3 DEF RunRefresh
  <2>2. \A d \in Device : row[d] # NoRow =>
          /\ [row[d] EXCEPT !.fresh = TRUE] \in [node : Node \cup {Former}, fresh : BOOLEAN]
          /\ [row[d] EXCEPT !.fresh = TRUE].node = row[d].node
    <3> SUFFICES ASSUME NEW d \in Device, row[d] # NoRow
                 PROVE  /\ [row[d] EXCEPT !.fresh = TRUE] \in [node : Node \cup {Former}, fresh : BOOLEAN]
                        /\ [row[d] EXCEPT !.fresh = TRUE].node = row[d].node
      OBVIOUS
    <3>1. row[d] \in [node : Node \cup {Former}, fresh : BOOLEAN]
      BY DEF TypeOK
    <3> QED
      BY <3>1
  <2>3. row' \in [Device -> {NoRow} \cup [node : Node \cup {Former}, fresh : BOOLEAN]]
    BY <1>3, <2>1, <2>2 DEF TypeOK, RunRefresh
  <2>4. \A d \in Device : row'[d] # NoRow => row[d] # NoRow /\ row'[d].node = row[d].node
    BY <2>1, <2>2
  <2> QED
    BY <1>3, <2>3, <2>4, RowsChange DEF TypeOK, RunRefresh
<1>4. ASSUME NEW d \in Device, Expire(d)
      PROVE  TypeOK'
  <2>1. row[d] \in [node : Node \cup {Former}, fresh : BOOLEAN]
    BY <1>4 DEF TypeOK, Expire
  <2>2. row' = [row EXCEPT ![d] = [row[d] EXCEPT !.fresh = FALSE]]
    BY <1>4 DEF Expire
  <2>3. /\ [row[d] EXCEPT !.fresh = FALSE] \in [node : Node \cup {Former}, fresh : BOOLEAN]
        /\ [row[d] EXCEPT !.fresh = FALSE].node = row[d].node
    BY <2>1
  <2>4. row' \in [Device -> {NoRow} \cup [node : Node \cup {Former}, fresh : BOOLEAN]]
    BY <2>2, <2>3 DEF TypeOK
  <2>5. \A e \in Device : row'[e] # NoRow => row[e] # NoRow /\ row'[e].node = row[e].node
    BY <1>4, <2>2, <2>3 DEF TypeOK, Expire
  <2> QED
    BY <1>4, <2>4, <2>5, RowsChange DEF TypeOK, Expire, sent
<1>5. ASSUME NEW n \in Node, Refresh(n)
      PROVE  TypeOK'
  BY <1>5, RowsChange DEF TypeOK, Refresh, tables
<1>6. ASSUME NEW s \in late, RunLate(s)
      PROVE  TypeOK'
  <2>1. PICK d \in Device : d = s[2]
    BY DEF TypeOK
  <2>2. Row(Former, TRUE) \in [node : Node \cup {Former}, fresh : BOOLEAN] /\ Row(Former, TRUE).node = Former
    BY DEF Row
  <2>3. row' \in [Device -> {NoRow} \cup [node : Node \cup {Former}, fresh : BOOLEAN]]
    BY <1>6, <2>1, <2>2 DEF TypeOK, RunLate
  <2>4. \A e \in Device : row'[e] = row[e] \/ row'[e] = NoRow \/ row'[e] = Row(Former, TRUE)
    BY <1>6, <2>1 DEF TypeOK, RunLate
  <2> QED
    BY <1>6, <2>2, <2>3, <2>4, RowsChange DEF TypeOK, RunLate
<1> QED
  BY <1>1, <1>2, <1>3, <1>4, <1>5, <1>6

(* What goes down takes its connections and its map with it.               *)
LEMMA DownTypes ==
  ASSUME TypeOK, NEW n \in Node, Down(n),
         row' \in [Device -> {NoRow} \cup [node : Node \cup {Former}, fresh : BOOLEAN]],
         \A d \in Device : row'[d] # NoRow => /\ row'[d].node # n
                                              /\ row'[d].node = Former \/ row'[d] = row[d],
         status' \in {"online", "offline"}, UNCHANGED sweeping
  PROVE  TypeOK'
<1>1. PlainTypes'
  <2>1. at' \in [Conn -> Place] /\ node' \in [Conn -> Node] /\ device' \in [Conn -> Device]
    BY AnyTypes DEF TypeOK, Down, Place
  <2>2. up' \in [Node -> BOOLEAN] /\ local' \in [Node -> SUBSET Device] /\ deaf' \in SUBSET Conn
    BY DEF TypeOK, Down
  <2>3. Pending(n) \in SUBSET ({"inserting", "deleting"} \X Device)
    BY DEF TypeOK, Pending
  <2>4. refreshing' = refreshing /\ late' \in SUBSET ({"inserting", "deleting"} \X Device)
    BY <2>3 DEF TypeOK, Down
  <2> QED
    BY <2>1, <2>2, <2>4 DEF TypeOK, PlainTypes
<1>2. DeafPlaces'
  BY DEF TypeOK, DeafPlaces, Down
<1>3. DownIsEmpty'
  <2> SUFFICES ASSUME NEW k \in Node, ~up'[k]
               PROVE  /\ local'[k] = {}
                      /\ \A d \in Device : row'[d] # NoRow => row'[d].node # k
                      /\ \A c \in Conn : at'[c] # "idle" => node'[c] # k
    BY DEF DownIsEmpty
  <2>1. k = n \/ ~up[k]
    BY DEF TypeOK, Down
  <2>2. local'[k] = {}
    BY <2>1 DEF TypeOK, Down
  <2>3. \A d \in Device : row'[d] # NoRow => row'[d].node # k
    BY <2>1, FormerAssumption DEF TypeOK
  <2>4. \A c \in Conn : at'[c] # "idle" => node'[c] # k
    BY <2>1 DEF TypeOK, Down
  <2> QED
    BY <2>2, <2>3, <2>4
<1> QED
  BY <1>1, <1>2, <1>3 DEF TypeOK, PlainTypes, DeafPlaces, DownIsEmpty

LEMMA GatewayStep ==
  ASSUME TypeOK, NEW n \in Node, Stop(n) \/ Crash(n) \/ Start(n)
  PROVE  TypeOK'
<1>1. CASE Stop(n)
  <2>1. /\ row' \in [Device -> {NoRow} \cup [node : Node \cup {Former}, fresh : BOOLEAN]]
        /\ \A d \in Device : row'[d] # NoRow => row'[d] = row[d] /\ row[d].node # n
    BY <1>1 DEF TypeOK, Stop, Swept
  <2> QED
    BY <1>1, <2>1, DownTypes DEF TypeOK, Stop
<1>2. CASE Crash(n)
  <2>1. \A d \in Device : row[d] # NoRow =>
          /\ [row[d] EXCEPT !.node = Former] \in [node : Node \cup {Former}, fresh : BOOLEAN]
          /\ [row[d] EXCEPT !.node = Former].node = Former
    BY DEF TypeOK
  <2>2. \A d \in Device : IF row[d] # NoRow /\ row[d].node = n
                          THEN row'[d] = [row[d] EXCEPT !.node = Former]
                          ELSE row'[d] = row[d]
    BY <1>2 DEF Crash
  <2>3. row' \in [Device -> {NoRow} \cup [node : Node \cup {Former}, fresh : BOOLEAN]]
    BY <1>2, <2>1, <2>2 DEF TypeOK, Crash
  <2>4. \A d \in Device : row'[d] # NoRow => /\ row'[d].node # n
                                             /\ row'[d].node = Former \/ row'[d] = row[d]
    BY <2>1, <2>2, FormerAssumption
  <2> QED
    BY <1>2, <2>3, <2>4, DownTypes DEF TypeOK, Crash
<1>3. CASE Start(n)
  <2>1. PlainTypes' /\ DeafPlaces'
    BY <1>3 DEF TypeOK, PlainTypes, DeafPlaces, Start, connections, sent
  <2>2. DownIsEmpty'
    BY <1>3 DEF TypeOK, DownIsEmpty, Start, connections
  <2> QED
    BY <2>1, <2>2 DEF TypeOK, PlainTypes, DeafPlaces, DownIsEmpty
<1> QED
  BY <1>1, <1>2, <1>3

(* Connections, maps and rows keep their types; nothing is left of a       *)
(* gateway that is down but rows of a former process, and a socket that    *)
(* closed is in a handshake, on its way out or leaked.                     *)
THEOREM TypeCorrect == Spec => []TypeOK
<1>1. Init => TypeOK
  BY InitTypes
<1>2. TypeOK /\ [Next]_vars => TypeOK'
  <2> SUFFICES ASSUME TypeOK, [Next]_vars
               PROVE  TypeOK'
    OBVIOUS
  <2>1. CASE Next
    BY <2>1, IdentifyStep, ConnStep, RowStep, GatewayStep DEF Next
  <2>2. CASE UNCHANGED vars
    BY <2>2 DEF TypeOK, vars, connections, gateways, tables, sent
  <2> QED
    BY <2>1, <2>2
<1> QED
  BY <1>1, <1>2, PTL DEF Spec

-----------------------------------------------------------------------------
(* What ageing out rests on.                                               *)

(* The step leaves the row of a device no better than it was.              *)
NoBetter(d) == /\ row[d] = NoRow => row'[d] = NoRow
               /\ Fresh(d)' => Fresh(d)

LEMMA RowKept ==
  ASSUME NEW d \in Device, row'[d] = row[d]
  PROVE  NoBetter(d)
BY DEF NoBetter, Fresh

LEMMA RowRemoved ==
  ASSUME NEW d \in Device, row'[d] = NoRow
  PROVE  NoBetter(d)
BY DEF NoBetter, Fresh

(* The upsert touches the row of the device the connection inserts.        *)
LEMMA ConnNoBetter ==
  ASSUME TypeOK, NEW c \in Conn, NEW d \in Device, ~Attended(d),
         \/ \E n \in Node, e \in Device : Identify(c, n, e)
         \/ TakeOver(c) \/ Connect(c) \/ Insert(c) \/ Mark(c) \/ Ready(c) \/ Fail(c)
         \/ CloseEarly(c) \/ Close(c) \/ Delete(c) \/ Count(c) \/ Clear(c)
  PROVE  NoBetter(d)
<1>1. CASE Insert(c)
  <2>1. device[c] # d
    BY <1>1 DEF Insert, Attended
  <2>2. row'[d] = row[d]
    BY <1>1, <2>1 DEF TypeOK, Insert
  <2> QED
    BY <2>2, RowKept
<1>2. CASE Delete(c)
  <2>1. row'[d] = row[d] \/ row'[d] = NoRow
    BY <1>2 DEF TypeOK, Delete
  <2> QED
    BY <2>1, RowKept, RowRemoved
<1>3. CASE UNCHANGED row
  BY <1>3, RowKept
<1> QED
  BY <1>1, <1>2, <1>3
     DEF Identify, TakeOver, Connect, Mark, Ready, Fail, CloseEarly, Close, Count, Clear, tables

(* A refresh touches the devices it names; no other step of a gateway, of  *)
(* time or of the worker makes a row fresh.                                *)
LEMMA GatewayNoBetter ==
  ASSUME TypeOK, NEW n \in Node, NEW d \in Device, ~Attended(d),
         Refresh(n) \/ Stop(n) \/ Crash(n) \/ Start(n)
  PROVE  NoBetter(d)
<1>1. CASE Refresh(n)
  BY <1>1, RowKept DEF Refresh, tables
<1>2. CASE Stop(n)
  <2>1. row'[d] = row[d] \/ row'[d] = NoRow
    BY <1>2 DEF Stop, Swept
  <2> QED
    BY <2>1, RowKept, RowRemoved
<1>3. CASE Crash(n)
  <2>1. CASE row[d] # NoRow /\ row[d].node = n
    <3>1. row[d] \in [node : Node \cup {Former}, fresh : BOOLEAN]
      BY <2>1 DEF TypeOK
    <3>2. row'[d] = [row[d] EXCEPT !.node = Former]
      BY <1>3, <2>1 DEF Crash
    <3>3. row'[d].fresh = row[d].fresh
      BY <3>1, <3>2
    <3> QED
      BY <2>1, <3>3 DEF NoBetter, Fresh
  <2>2. CASE ~(row[d] # NoRow /\ row[d].node = n)
    <3>1. row'[d] = row[d]
      BY <1>3, <2>2 DEF Crash
    <3> QED
      BY <3>1, RowKept
  <2> QED
    BY <2>1, <2>2
<1>4. CASE Start(n)
  BY <1>4, RowKept DEF Start
<1> QED
  BY <1>1, <1>2, <1>3, <1>4

LEMMA TimeNoBetter ==
  ASSUME TypeOK, NEW d \in Device,
         (\E e \in Device : Expire(e)) \/ SweepRows \/ SweepUser \/ WriteStatus
  PROVE  NoBetter(d)
<1>1. ASSUME NEW e \in Device, Expire(e)
      PROVE  NoBetter(d)
  <2>1. CASE d = e
    <3>1. row[d] # NoRow /\ row[d].fresh
      BY <1>1, <2>1 DEF Expire
    <3> QED
      BY <3>1 DEF NoBetter, Fresh
  <2>2. CASE d # e
    <3>1. row'[d] = row[d]
      BY <1>1, <2>2 DEF TypeOK, Expire
    <3> QED
      BY <3>1, RowKept
  <2> QED
    BY <2>1, <2>2
<1>2. CASE SweepRows
  <2>1. row'[d] = row[d] \/ row'[d] = NoRow
    BY <1>2 DEF SweepRows
  <2> QED
    BY <2>1, RowKept, RowRemoved
<1>3. CASE SweepUser \/ WriteStatus
  BY <1>3, RowKept DEF SweepUser, WriteStatus
<1> QED
  BY <1>1, <1>2, <1>3

(* A statement that was left behind touches the devices it is about.       *)
LEMMA SentNoBetter ==
  ASSUME TypeOK, NEW d \in Device, ~Attended(d),
         (\E D \in refreshing : RunRefresh(D)) \/ (\E s \in late : RunLate(s))
  PROVE  NoBetter(d)
<1>1. ASSUME NEW D \in refreshing, RunRefresh(D)
      PROVE  NoBetter(d)
  <2>1. d \notin D
    BY DEF Attended
  <2>2. row'[d] = row[d]
    BY <1>1, <2>1 DEF RunRefresh
  <2> QED
    BY <2>2, RowKept
<1>2. ASSUME NEW s \in late, RunLate(s)
      PROVE  NoBetter(d)
  <2>1. CASE s[2] = d
    <3>1. s[1] # "inserting"
      BY <2>1 DEF Attended, TypeOK
    <3>2. row'[d] = NoRow
      BY <1>2, <2>1, <3>1 DEF RunLate, TypeOK
    <3> QED
      BY <3>2, RowRemoved
  <2>2. CASE s[2] # d
    <3>1. row'[d] = row[d]
      BY <1>2, <2>2 DEF RunLate, TypeOK
    <3> QED
      BY <3>1, RowKept
  <2> QED
    BY <2>1, <2>2
<1> QED
  BY <1>1, <1>2

(* Who makes a device attended. *)
Arrives(d) == \E c \in Conn : device[c] = d /\ (Connect(c) \/ TakeOver(c))

(* What makes a device attended stays away: the map, an upsert under way,  *)
(* a refresh, an upsert of a gateway that is down.                         *)
LEMMA StaysUnattended ==
  ASSUME NEW d \in Device, Unheld(d)', ~(\E c \in Conn : at[c] = "inserting" /\ device[c] = d)',
         ~(\E D \in refreshing : d \in D)', <<"inserting", d>> \notin late'
  PROVE  ~Attended(d)'
BY DEF Attended

LEMMA ConnUnattended ==
  ASSUME TypeOK, NEW c \in Conn, NEW d \in Device, ~Attended(d),
         \/ \E n \in Node, e \in Device : Identify(c, n, e)
         \/ TakeOver(c) \/ Connect(c) \/ Insert(c) \/ Mark(c) \/ Ready(c) \/ Fail(c)
         \/ CloseEarly(c) \/ Close(c) \/ Delete(c) \/ Count(c) \/ Clear(c)
  PROVE  Attended(d)' => Arrives(d)
<1>1. CASE TakeOver(c) \/ Connect(c)
  <2>1. CASE device[c] = d
    BY <1>1, <2>1 DEF Arrives
  <2>2. CASE device[c] # d
    <3>1. Unheld(d)'
      BY <1>1, <2>2 DEF TakeOver, Connect, Attended, Unheld, TypeOK
    <3>2. ~(\E o \in Conn : at[o] = "inserting" /\ device[o] = d)'
      BY <1>1, <2>2 DEF TakeOver, Connect, Goes, Attended, TypeOK
    <3>3. UNCHANGED sent
      BY <1>1 DEF TakeOver, Connect
    <3> QED
      BY <3>1, <3>2, <3>3, StaysUnattended DEF sent, Attended
  <2> QED
    BY <2>1, <2>2
<1>2. ASSUME ~(TakeOver(c) \/ Connect(c))
      PROVE  ~Attended(d)'
  <2>1. UNCHANGED sent
    BY <1>2 DEF Identify, Insert, Mark, Ready, Fail, CloseEarly, Close, Delete, Count, Clear
  <2>2. Unheld(d)'
    <3>1. local' = local \/ local' = [local EXCEPT ![node[c]] = @ \ {device[c]}]
      BY <1>2 DEF Identify, Insert, Mark, Ready, Fail, CloseEarly, Close, Delete, Count, Clear,
                  gateways, Disconnect, NothingToDo
    <3> QED
      BY <3>1 DEF Attended, Unheld, TypeOK
  <2>3. ~(\E o \in Conn : at[o] = "inserting" /\ device[o] = d)'
    <3>1. CASE Idle(c)
      BY <3>1 DEF Idle, Attended, TypeOK
    <3>2. ASSUME NEW place \in Place \ {"inserting"}, Goes(c, place)
          PROVE  ~(\E o \in Conn : at[o] = "inserting" /\ device[o] = d)'
      BY <3>2 DEF Goes, Attended, TypeOK
    <3>3. CASE UNCHANGED <<at, device>>
      BY <3>3 DEF Attended
    <3>4. \/ \E n \in Node, e \in Device : Identify(c, n, e)
          \/ Idle(c) \/ UNCHANGED <<at, device>>
          \/ \E place \in Place \ {"inserting"} : Goes(c, place)
      BY <1>2 DEF Insert, Mark, Ready, Fail, CloseEarly, Close, Delete, Count, Clear,
                  Disconnect, NothingToDo, Place, Handshake, Leaving
    <3>5. ASSUME NEW n \in Node, NEW e \in Device, Identify(c, n, e)
          PROVE  ~(\E o \in Conn : at[o] = "inserting" /\ device[o] = d)'
      BY <3>5 DEF Identify, Attended, TypeOK
    <3> QED
      BY <3>1, <3>2, <3>3, <3>4, <3>5
  <2> QED
    BY <2>1, <2>2, <2>3, StaysUnattended DEF sent, Attended
<1> QED
  BY <1>1, <1>2

LEMMA GatewayUnattended ==
  ASSUME TypeOK, NEW n \in Node, NEW d \in Device, ~Attended(d),
         Refresh(n) \/ Stop(n) \/ Crash(n) \/ Start(n)
  PROVE  ~Attended(d)'
<1>1. CASE Refresh(n)
  BY <1>1, StaysUnattended DEF Refresh, connections, gateways, Attended, Unheld
<1>2. CASE Stop(n) \/ Crash(n)
  <2>1. Down(n)
    BY <1>2 DEF Stop, Crash
  <2>2. Unheld(d)'
    BY <2>1 DEF Down, Attended, Unheld, TypeOK
  <2>3. ~(\E c \in Conn : at[c] = "inserting" /\ device[c] = d)'
    BY <2>1 DEF Down, Attended, TypeOK
  <2>4. <<"inserting", d>> \notin Pending(n)
    BY DEF Attended, Pending
  <2> QED
    BY <2>1, <2>2, <2>3, <2>4, StaysUnattended DEF Down, Attended
<1>3. CASE Start(n)
  BY <1>3, StaysUnattended DEF Start, connections, sent, Attended, Unheld
<1> QED
  BY <1>1, <1>2, <1>3

LEMMA TimeUnattended ==
  ASSUME NEW d \in Device, ~Attended(d),
         \/ (\E e \in Device : Expire(e)) \/ SweepRows \/ SweepUser \/ WriteStatus
         \/ (\E D \in refreshing : RunRefresh(D)) \/ (\E s \in late : RunLate(s))
  PROVE  ~Attended(d)'
<1>1. UNCHANGED <<connections, gateways>> /\ refreshing' \subseteq refreshing /\ late' \subseteq late
  BY DEF Expire, SweepRows, SweepUser, WriteStatus, RunRefresh, RunLate, sent
<1> QED
  BY <1>1, StaysUnattended DEF connections, gateways, Attended, Unheld

(* The row of a device that no gateway holds, and about which no upsert or *)
(* refresh is under way, never comes, and is never fresh, again: however   *)
(* deletions, sweeps, crashes, restarts and statements of gateways that    *)
(* are gone follow each other, only a new connection brings the device     *)
(* back.  With the worker's schedule this is why the users of a gateway    *)
(* that died age out.                                                      *)
THEOREM GoneStaysGoneHolds == Spec => GoneStaysGone
<1>1. TypeOK /\ [Next]_vars =>
        [\A d \in Device : ~Attended(d) =>
           /\ row[d] = NoRow => row'[d] = NoRow
           /\ Fresh(d)' => Fresh(d)
           /\ Attended(d)' => \E c \in Conn : device[c] = d /\ (Connect(c) \/ TakeOver(c))]_vars
  <2> SUFFICES ASSUME TypeOK, Next, NEW d \in Device, ~Attended(d)
               PROVE  NoBetter(d) /\ (Attended(d)' => Arrives(d))
    BY DEF NoBetter, Arrives
  <2>1. ASSUME NEW c \in Conn,
               \/ \E n \in Node, e \in Device : Identify(c, n, e)
               \/ TakeOver(c) \/ Connect(c) \/ Insert(c) \/ Mark(c) \/ Ready(c) \/ Fail(c)
               \/ CloseEarly(c) \/ Close(c) \/ Delete(c) \/ Count(c) \/ Clear(c)
        PROVE  NoBetter(d) /\ (Attended(d)' => Arrives(d))
    BY <2>1, ConnNoBetter, ConnUnattended
  <2>2. ASSUME NEW n \in Node, Refresh(n) \/ Stop(n) \/ Crash(n) \/ Start(n)
        PROVE  NoBetter(d) /\ ~Attended(d)'
    BY <2>2, GatewayNoBetter, GatewayUnattended
  <2>3. ASSUME \/ (\E e \in Device : Expire(e)) \/ SweepRows \/ SweepUser \/ WriteStatus
               \/ (\E D \in refreshing : RunRefresh(D)) \/ (\E s \in late : RunLate(s))
        PROVE  NoBetter(d) /\ ~Attended(d)'
    BY <2>3, TimeNoBetter, SentNoBetter, TimeUnattended
  <2> QED
    BY <2>1, <2>2, <2>3 DEF Next
<1> QED
  BY <1>1, TypeCorrect, PTL DEF Spec, GoneStaysGone
=============================================================================
