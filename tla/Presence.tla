------------------------------ MODULE Presence ------------------------------
(***************************************************************************)
(* Who is shown as online: the presence rows of one user's devices, the    *)
(* map each gateway keeps of the devices it holds                          *)
(* (apps/gateway/src/presence.ts, called from server.ts), the sweep of the *)
(* worker (packages/db/sql/0003_functions.sql, apps/worker/src/jobs/       *)
(* maintenance.ts) and users.presence_status.                              *)
(*                                                                         *)
(* A connection is one socket that identifies or resumes; presence is kept *)
(* per device, and several connections of a device may be open, closing or *)
(* half open at once, on one gateway or on several.  Each SQL statement is *)
(* a step, and each may fail; one that a gateway has sent may still run    *)
(* when the device it names is gone from the gateway, or the gateway is    *)
(* down.  The rooms a device looks at are left out.                        *)
(***************************************************************************)
EXTENDS Naturals

CONSTANTS Conn,     \* sockets that may be around at once
          Node,     \* gateways
          Device,   \* the user's devices
          Former,   \* the id of every gateway process that has ended
          NoRow     \* the device has no presence row

ASSUME FormerAssumption   == Former \notin Node
ASSUME NonEmptyAssumption == Node # {} /\ Device # {}

VARIABLES
  at,        \* where the handler of each connection is
  node,      \* the gateway it is on
  device,    \* the device it belongs to
  deaf,      \* connections whose socket has closed
  up,        \* gateways that run
  local,     \* PresenceTracker.local of each gateway
  row,       \* the presence row of each device
  refreshing,\* refreshes sent that have not run, each the devices it names
  late,      \* statements of connections that a gateway had sent when it went down
  status,    \* users.presence_status, "online" for each but "offline"
  sweeping   \* the worker's sweep has found no row of the user

connections == <<at, node, device, deaf>>
gateways    == <<up, local>>
tables      == <<row, status>>
sent        == <<refreshing, late>>
vars        == <<connections, gateways, tables, sent, sweeping>>

Handshake == {"registered", "inserting", "marking", "finishing"}
Leaving   == {"deleting", "counting", "clearing"}
Place     == {"idle", "open", "leaked"} \cup Handshake \cup Leaving

(* Where a connection that is not there is kept: no action looks. *)
AnyNode   == CHOOSE n \in Node : TRUE
AnyDevice == CHOOSE d \in Device : TRUE

Row(n, f) == [node |-> n, fresh |-> f]
NoRows    == \A d \in Device : row[d] = NoRow

(* No row carries the id of a process that is down, which holds no device, *)
(* and no connection is on it.                                              *)
TypeOK ==
  /\ at \in [Conn -> Place]
  /\ node \in [Conn -> Node]
  /\ device \in [Conn -> Device]
  /\ deaf \in SUBSET Conn
  /\ up \in [Node -> BOOLEAN]
  /\ local \in [Node -> SUBSET Device]
  /\ row \in [Device -> {NoRow} \cup [node : Node \cup {Former}, fresh : BOOLEAN]]
  /\ status \in {"online", "offline"}
  /\ refreshing \in SUBSET SUBSET Device
  /\ late \in SUBSET ({"inserting", "deleting"} \X Device)
  /\ sweeping \in BOOLEAN
  /\ \A c \in deaf : at[c] \in Handshake \cup Leaving \cup {"leaked"}
  /\ \A n \in Node : ~up[n] =>
       /\ local[n] = {}
       /\ \A d \in Device : row[d] # NoRow => row[d].node # n
       /\ \A c \in Conn : at[c] # "idle" => node[c] # n

Init ==
  /\ at = [c \in Conn |-> "idle"]
  /\ node = [c \in Conn |-> AnyNode]
  /\ device = [c \in Conn |-> AnyDevice]
  /\ deaf = {}
  /\ up = [n \in Node |-> TRUE]
  /\ local = [n \in Node |-> {}]
  /\ row = [d \in Device |-> NoRow]
  /\ status = "offline"
  /\ refreshing = {} /\ late = {}
  /\ sweeping = FALSE

-----------------------------------------------------------------------------
(* A connection comes. *)

(* Session.isConnected: the session is registered and its socket is open. *)
Connected(c) == at[c] # "idle" /\ c \notin deaf

Goes(c, place) ==
  /\ at' = [at EXCEPT ![c] = place]
  /\ UNCHANGED <<node, device>>

Idle(c) ==
  /\ at' = [at EXCEPT ![c] = "idle"]
  /\ node' = [node EXCEPT ![c] = AnyNode]
  /\ device' = [device EXCEPT ![c] = AnyDevice]
  /\ deaf' = deaf \ {c}

(* handleIdentify registers the session; the subscriptions follow.  A      *)
(* resume of a parked session is the same, without them.                   *)
Identify(c, n, d) ==
  /\ at[c] = "idle"
  /\ up[n]
  /\ at' = [at EXCEPT ![c] = "registered"]
  /\ node' = [node EXCEPT ![c] = n]
  /\ device' = [device EXCEPT ![c] = d]
  /\ UNCHANGED <<deaf, gateways, tables, sent, sweeping>>

(* connect puts the device on the map before its first statement. *)
Connect(c) ==
  /\ at[c] = "registered"
  /\ Goes(c, "inserting")
  /\ local' = [local EXCEPT ![node[c]] = @ \cup {device[c]}]
  /\ UNCHANGED <<deaf, up, tables, sent, sweeping>>

(* handleResume: the session's old socket, half open or lost without a     *)
(* trace, is terminated, and its close event ignored.  The handler and the *)
(* connection it keeps are the new socket's.                               *)
TakeOver(c) ==
  /\ at[c] \in {"open", "leaked"}
  /\ Goes(c, "inserting")
  /\ deaf' = deaf \ {c}
  /\ local' = [local EXCEPT ![node[c]] = @ \cup {device[c]}]
  /\ UNCHANGED <<up, tables, sent, sweeping>>

(* The upsert of the row, and its failure, which connect only logs. *)
Insert(c) ==
  /\ at[c] = "inserting"
  /\ Goes(c, "marking")
  /\ row' \in {row, [row EXCEPT ![device[c]] = Row(node[c], TRUE)]}
  /\ UNCHANGED <<deaf, gateways, status, sent, sweeping>>

(* The user's status, where it says offline, becomes that of the session. *)
Mark(c) ==
  /\ at[c] = "marking"
  /\ Goes(c, "finishing")
  /\ status' \in {status, "online"}
  /\ UNCHANGED <<deaf, gateways, row, sent, sweeping>>

(* READY or RESUMED.  Only now does the closure of the socket know the     *)
(* session: a socket that closed before is never noticed.                  *)
Ready(c) ==
  /\ at[c] = "finishing"
  /\ Goes(c, IF c \in deaf THEN "leaked" ELSE "open")
  /\ UNCHANGED <<deaf, gateways, tables, sent, sweeping>>

-----------------------------------------------------------------------------
(* A connection goes. *)

(* disconnect: nothing for a device that is not on the map, which loses it *)
(* before the first statement.                                              *)
Disconnect(c) ==
  /\ device[c] \in local[node[c]]
  /\ local' = [local EXCEPT ![node[c]] = @ \ {device[c]}]
  /\ Goes(c, "deleting")

NothingToDo(c) ==
  /\ device[c] \notin local[node[c]]
  /\ Idle(c)
  /\ UNCHANGED local

(* The close event before the handler has returned does nothing. *)
CloseEarly(c) ==
  /\ at[c] \in Handshake
  /\ deaf' = deaf \cup {c}
  /\ UNCHANGED <<at, node, device, gateways, tables, sent, sweeping>>

(* Another connected session of the device on this gateway keeps the row. *)
Sibling(c) ==
  \E o \in Conn \ {c} :
    Connected(o) /\ node[o] = node[c] /\ device[o] = device[c]

(* onDisconnect *)
Close(c) ==
  /\ at[c] = "open"
  /\ \/ Sibling(c) /\ Idle(c) /\ UNCHANGED local
     \/ ~Sibling(c) /\ NothingToDo(c)
     \/ ~Sibling(c) /\ Disconnect(c) /\ deaf' = deaf \cup {c}
  /\ UNCHANGED <<up, tables, sent, sweeping>>

(* An exception in handleIdentify or handleResume: disconnect without a    *)
(* look at other sessions.  The socket is closed after it.                 *)
Fail(c) ==
  /\ at[c] \in {"registered", "finishing"}
  /\ \/ NothingToDo(c)
     \/ Disconnect(c) /\ UNCHANGED deaf
  /\ UNCHANGED <<up, tables, sent, sweeping>>

(* disconnect's three statements; one that fails ends it. *)
Delete(c) ==
  /\ at[c] = "deleting"
  /\ \/ /\ row' = [row EXCEPT ![device[c]] = NoRow]
        /\ Goes(c, "counting") /\ UNCHANGED deaf
     \/ Idle(c) /\ UNCHANGED row
  /\ UNCHANGED <<gateways, status, sent, sweeping>>

Count(c) ==
  /\ at[c] = "counting"
  /\ \/ /\ \A d \in Device : row[d] # NoRow => ~row[d].fresh
        /\ Goes(c, "clearing") /\ UNCHANGED deaf
     \/ Idle(c)
  /\ UNCHANGED <<gateways, tables, sent, sweeping>>

Clear(c) ==
  /\ at[c] = "clearing"
  /\ status' \in {status, "offline"}
  /\ Idle(c)
  /\ UNCHANGED <<gateways, row, sent, sweeping>>

-----------------------------------------------------------------------------
(* The status a person chooses. *)

(* The PresenceUpdate command and PUT /me/presence.  The statement of the   *)
(* command may come after its socket closed, and that of the request needs   *)
(* no socket.                                                                *)
WriteStatus ==
  /\ status' \in {"online", "offline"}
  /\ UNCHANGED <<connections, gateways, row, sent, sweeping>>

-----------------------------------------------------------------------------
(* Time to live, and the sweeps. *)

Unheld(d) == \A n \in Node : d \notin local[n]

(* refresh takes the keys of the map and sends its statement, ... *)
Refresh(n) ==
  /\ local[n] # {}
  /\ refreshing' = refreshing \cup {local[n]}
  /\ UNCHANGED <<connections, gateways, tables, late, sweeping>>

(* ... which runs later, if it does not fail: the rows there are of the     *)
(* devices it names, whoever holds them now; none is inserted.              *)
RunRefresh(D) ==
  /\ D \in refreshing
  /\ refreshing' = refreshing \ {D}
  /\ row' \in {row, [d \in Device |-> IF d \in D /\ row[d] # NoRow
                                       THEN [row[d] EXCEPT !.fresh = TRUE] ELSE row[d]]}
  /\ UNCHANGED <<connections, gateways, status, late, sweeping>>

(* Ninety seconds without a refresh.  A gateway that stalls, or whose       *)
(* refreshes fail, lets the rows of devices it holds expire.                *)
Expire(d) ==
  /\ row[d] # NoRow /\ row[d].fresh
  /\ row' = [row EXCEPT ![d].fresh = FALSE]
  /\ UNCHANGED <<connections, gateways, status, sent, sweeping>>

(* Mutant: the users are looked at only when a row has been removed. *)
SweepRowsFound ==
  /\ ~sweeping
  /\ row' = [d \in Device |-> IF row[d] # NoRow /\ row[d].fresh THEN row[d] ELSE NoRow]
  /\ sweeping' = (row' # row /\ \A d \in Device : row'[d] = NoRow)
  /\ UNCHANGED <<connections, gateways, status, sent>>

(* sweep_presence() of the worker: the expired rows, and then the user, if *)
(* the snapshot of the second statement has no row left.                    *)
SweepRows ==
  /\ ~sweeping
  /\ row' = [d \in Device |-> IF row[d] # NoRow /\ row[d].fresh THEN row[d] ELSE NoRow]
  /\ sweeping' = \A d \in Device : row'[d] = NoRow
  /\ UNCHANGED <<connections, gateways, status, sent>>

SweepUser ==
  /\ sweeping
  /\ status' = "offline"
  /\ sweeping' = FALSE
  /\ UNCHANGED <<connections, gateways, row, sent>>

-----------------------------------------------------------------------------
(* Gateways come and go. *)

(* The upserts and deletions that the connections of n wait for. *)
Pending(n) ==
  {<<at[c], device[c]>> : c \in {o \in Conn : node[o] = n /\ at[o] \in {"inserting", "deleting"}}}

(* What ends with the process.  A statement it has sent may still run: one  *)
(* of a row stays in late; WriteStatus stands for one of the status.        *)
Down(n) ==
  /\ up[n]
  /\ up' = [up EXCEPT ![n] = FALSE]
  /\ local' = [local EXCEPT ![n] = {}]
  /\ late' = late \cup Pending(n)
  /\ at' = [c \in Conn |-> IF node[c] = n THEN "idle" ELSE at[c]]
  /\ node' = [c \in Conn |-> IF node[c] = n THEN AnyNode ELSE node[c]]
  /\ device' = [c \in Conn |-> IF node[c] = n THEN AnyDevice ELSE device[c]]
  /\ deaf' = {c \in deaf : node[c] # n}
  /\ UNCHANGED refreshing

(* A statement of a gateway that is down runs. *)
RunLate(s) ==
  /\ s \in late
  /\ late' = late \ {s}
  /\ row' = [row EXCEPT ![s[2]] = IF s[1] = "inserting" THEN Row(Former, TRUE) ELSE NoRow]
  /\ UNCHANGED <<connections, gateways, status, refreshing, sweeping>>

Swept(n, rows) == [d \in Device |-> IF rows[d] # NoRow /\ rows[d].node = n THEN NoRow ELSE rows[d]]

(* Mutant: a clean stop that leaves its rows. *)
StopUnswept(n) == Down(n) /\ UNCHANGED <<tables, sweeping>>

(* stop: sweep_presence(NODE_ID), unless it fails. *)
Stop(n) ==
  /\ Down(n)
  /\ row' = Swept(n, row)
  /\ status' = IF \A d \in Device : row'[d] = NoRow THEN "offline" ELSE status
  /\ UNCHANGED sweeping

(* A kill, a crash, or a stop whose sweep fails.  NODE_ID holds the process *)
(* id and the time of the start, so no later process has the id again.       *)
Crash(n) ==
  /\ Down(n)
  /\ row' = [d \in Device |-> IF row[d] # NoRow /\ row[d].node = n
                              THEN [row[d] EXCEPT !.node = Former] ELSE row[d]]
  /\ UNCHANGED <<status, sweeping>>

(* start: sweep_presence(NODE_ID) with an id that no row has. *)
Start(n) ==
  /\ ~up[n]
  /\ up' = [up EXCEPT ![n] = TRUE]
  /\ status' \in {status, IF NoRows THEN "offline" ELSE status}
  /\ UNCHANGED <<connections, local, row, sent, sweeping>>

-----------------------------------------------------------------------------
Next ==
  \/ \E c \in Conn :
       \/ \E n \in Node, d \in Device : Identify(c, n, d)
       \/ TakeOver(c) \/ Connect(c) \/ Insert(c) \/ Mark(c) \/ Ready(c) \/ Fail(c)
       \/ CloseEarly(c) \/ Close(c) \/ Delete(c) \/ Count(c) \/ Clear(c)
  \/ \E n \in Node : Refresh(n) \/ Stop(n) \/ Crash(n) \/ Start(n)
  \/ \E D \in refreshing : RunRefresh(D)
  \/ \E s \in late : RunLate(s)
  \/ \E d \in Device : Expire(d)
  \/ SweepRows \/ SweepUser
  \/ WriteStatus

Spec == Init /\ [][Next]_vars

(* Time passes for a row nobody refreshes, and the worker's schedule runs. *)
(* No gateway, client or connection has to do anything, and a statement     *)
(* under way need not run.                                                  *)
Fairness ==
  /\ \A d \in Device : WF_vars(Unheld(d) /\ Expire(d))
  /\ WF_vars(SweepRows) /\ WF_vars(SweepUser)

FairSpec == Spec /\ Fairness

-----------------------------------------------------------------------------
(* What ageing out rests on.  A device is attended while a gateway holds it *)
(* or a statement that can insert or refresh its row is under way, of a      *)
(* connection, of a refresh sent before the device left the map, or of a     *)
(* gateway that is down.                                                     *)
Fresh(d) == row[d] # NoRow /\ row[d].fresh
Attended(d) == \/ ~Unheld(d)
               \/ \E c \in Conn : at[c] = "inserting" /\ device[c] = d
               \/ \E D \in refreshing : d \in D
               \/ <<"inserting", d>> \in late

(* Of a device that is not attended, deletions, expiry, sweeps, stops and    *)
(* crashes in any order leave ever less, and it stays so until the device    *)
(* connects again: nothing that was left behind brings it back.              *)
GoneStaysGone ==
  [][\A d \in Device : ~Attended(d) =>
       /\ row[d] = NoRow => row'[d] = NoRow
       /\ Fresh(d)' => Fresh(d)
       /\ Attended(d)' => \E c \in Conn : device[c] = d /\ (Connect(c) \/ TakeOver(c))]_vars

(* Once no gateway holds a device of the user, whatever statements are      *)
(* still under way, failed, or never ran because a process died, the user   *)
(* is offline and without rows in the end (or is held again): "A node that   *)
(* dies stops refreshing and its users age out" (presence.ts:10).            *)
Quiet  == \A d \in Device : Unheld(d)
Gone   == NoRows /\ status = "offline"
AgesOut == Quiet ~> (Gone \/ ~Quiet)
=============================================================================
