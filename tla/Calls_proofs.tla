---------------------------- MODULE Calls_proofs ----------------------------
(***************************************************************************)
(* Theorems about a call, for every finite set of members and every bound. *)
(*                                                                         *)
(* Before a call is written nothing of it exists (BornInv).  A running     *)
(* reconciliation that has heard the roster of the room finds everybody in *)
(* it who never left since, and its ghosts are none of those (GhostInv).   *)
(***************************************************************************)
EXTENDS Calls, TLAPS

BornInv ==
  call.state = "none" => req = [u \in User |-> Idle] /\ sweep = Resting

GhostInv ==
  /\ sweep.step = "joined" => steady \subseteq sweep.roster
  /\ sweep.ghosts \cap steady = {}

IInv == TypeOK /\ BornInv /\ GhostInv

CallRow  == [state : {"none", "ringing", "active", "ended"}, started : BOOLEAN]
PartRows == [User -> {"none", "ringing", "joining", "joined", "left", "declined", "missed"}]

-----------------------------------------------------------------------------
(* Requests.                                                               *)

LEMMA InitInv ==
  ASSUME Init
  PROVE  IInv
<1>1. req \in [User -> Request \cup {Idle}] /\ sweep = Resting
  BY DEF Init
<1>2. TypeOK
  <2>1. sweep \in [step : {"idle", "joined", "clear", "empty"}, ghosts : SUBSET User, roster : SUBSET User]
    BY <1>1 DEF Resting
  <2>2. call \in CallRow /\ part \in PartRows
    BY DEF Init, CallRow, PartRows
  <2>3. /\ issued \in 0..MaxRequests /\ crashes \in 0..MaxCrashes
        /\ timer = "none" /\ part = [u \in User |-> "none"] /\ summaries \subseteq Outcome
        /\ room \subseteq User /\ token \subseteq User /\ steady \subseteq User
    BY BoundsAssumption DEF Init
  <2>4. aged \in BOOLEAN
    BY DEF Init
  <2> HIDE DEF Init
  <2> QED
    BY <1>1, <2>1, <2>2, <2>3, <2>4 DEF TypeOK, CallRow, PartRows
<1>3. BornInv /\ GhostInv
  BY DEF Init, BornInv, GhostInv, Resting
<1> QED
  BY <1>2, <1>3 DEF IInv

(* The types, one by one.                                                  *)
LEMMA Types ==
  ASSUME TypeOK
  PROVE  /\ call \in CallRow /\ part \in PartRows /\ aged \in BOOLEAN /\ summaries \subseteq Outcome
         /\ issued \in 0..MaxRequests /\ timer \in {"none", "armed", "running", "done"}
         /\ room \subseteq User /\ token \subseteq User /\ steady \subseteq User
BY DEF TypeOK, CallRow, PartRows

(* A request that is served has been accepted after the call was written.  *)
LEMMA Serving ==
  ASSUME IInv, NEW u \in User, req[u] # Idle
  PROVE  req[u] \in Request /\ call.state # "none"
BY DEF IInv, TypeOK, BornInv

(* What a handler may do to its own request.                               *)
LEMMA Requests ==
  ASSUME TypeOK, NEW u \in User, NEW r \in Request \cup {Idle}, req' = [req EXCEPT ![u] = r]
  PROVE  req' \in [User -> Request \cup {Idle}]
BY DEF TypeOK

LEMMA Places ==
  ASSUME NEW step \in Step, NEW reason \in Reason \cup {"none"},
         NEW ringing \in BOOLEAN, NEW started \in BOOLEAN
  PROVE  [step |-> step, reason |-> reason, ringing |-> ringing, started |-> started] \in Request
BY DEF Request

LEMMA StartStep ==
  ASSUME IInv, Start
  PROVE  IInv'
<1>1. [step |-> "enqueue", reason |-> "none", ringing |-> FALSE, started |-> FALSE] \in Request
  BY DEF Request, Step
<1>2. req' \in [User -> Request \cup {Idle}]
  BY <1>1, UserAssumption DEF IInv, TypeOK, Start, To
<1>3. call' = [state |-> "ringing", started |-> call.started]
  BY DEF IInv, TypeOK, Start
<1>4. part' \in PartRows
  BY DEF Start, PartRows
<1>5. TypeOK'
  BY <1>2, <1>3, <1>4 DEF IInv, TypeOK, Start, worker, PartRows
<1> QED
  BY <1>3, <1>5 DEF IInv, BornInv, GhostInv, Start, worker

(* A step that concerns one request and the row of its member.             *)
LEMMA Handles ==
  ASSUME IInv, NEW u \in User, NEW r \in Request \cup {Idle}, req' = [req EXCEPT ![u] = r],
         call.state # "none", call'.state # "none",
         call' \in CallRow,
         part' \in PartRows,
         aged' \in BOOLEAN, summaries' \subseteq Outcome, issued' \in 0..MaxRequests,
         timer' \in {"none", "armed", "running", "done"}, UNCHANGED <<crashes, sweep>>,
         room' \subseteq User, token' \subseteq User, steady' \subseteq steady
  PROVE  IInv'
<1>1. req' \in [User -> Request \cup {Idle}]
  BY Requests DEF IInv
<1>2. TypeOK'
  BY <1>1 DEF IInv, TypeOK, CallRow, PartRows
<1> QED
  BY <1>2 DEF IInv, BornInv, GhostInv

LEMMA AskStep ==
  ASSUME IInv, NEW u \in User, Ask(u)
  PROVE  IInv'
<1>1. Accept(u) => issued' \in 0..MaxRequests
  BY BoundsAssumption DEF IInv, TypeOK, Accept
<1>2. part[u] # "none" => call.state # "none"
  BY DEF IInv, TypeOK
<1>3. CASE Join(u)
  <2>1. PICK r \in Request : req' = [req EXCEPT ![u] = r]
    <3>1. [step |-> "join", reason |-> "none", ringing |-> call.state = "ringing", started |-> FALSE]
            \in Request
      BY DEF Request, Step
    <3> QED
      BY <1>3, <3>1 DEF Join
  <2>2. /\ call.state # "none" /\ Accept(u)
        /\ UNCHANGED <<call, part, aged, summaries, timer, crashes, sweep, room, token, steady>>
    BY <1>3 DEF Join, record, worker, media
  <2> QED
    BY <1>1, <2>1, <2>2, Types, Handles DEF IInv
<1>4. CASE Decline(u)
  <2>1. PICK r \in Request : req' = [req EXCEPT ![u] = r]
    <3>1. [step |-> "remaining", reason |-> "none", ringing |-> FALSE, started |-> FALSE] \in Request
      BY DEF Request, Step
    <3> QED
      BY <1>4, <3>1 DEF Decline, To
  <2> QED
    <3>1. part' \in PartRows
      BY <1>4 DEF IInv, TypeOK, Decline, PartRows
    <3> QED
      BY <1>1, <1>4, <2>1, <3>1, Types, Handles DEF IInv, Decline, worker, media
<1>5. CASE Leave(u)
  <2>1. PICK r \in Request : req' = [req EXCEPT ![u] = r]
    <3>1. [step |-> "active", reason |-> "none", ringing |-> FALSE, started |-> FALSE] \in Request
      BY DEF Request, Step
    <3> QED
      BY <1>5, <3>1 DEF Leave, To
  <2> QED
    <3>1. part' \in PartRows
      BY <1>5 DEF IInv, TypeOK, Leave, PartRows
    <3> QED
      BY <1>1, <1>2, <1>5, <2>1, <3>1, Types, Handles DEF IInv, Leave, worker
<1>6. CASE End(u)
  <2>1. PICK r \in Request : req' = [req EXCEPT ![u] = r]
    <3>1. [step |-> "read", reason |-> "ended_by_host", ringing |-> FALSE, started |-> FALSE] \in Request
      BY DEF Request, Step, Reason
    <3> QED
      BY <1>6, <3>1 DEF End, EndCall
  <2> QED
    BY <1>1, <1>6, <2>1, Types, Handles DEF IInv, End, record, worker, media
<1> QED
  BY <1>3, <1>4, <1>5, <1>6 DEF Ask

LEMMA ServeStep ==
  ASSUME IInv, NEW u \in User, Serve(u) \/ Fail(u)
  PROVE  IInv'
<1>1. req[u] # Idle
  BY DEF Serve, Fail, Enqueue, JoinWrite, JoinEnsure, DeclineCount, LeaveCount, EndRead, EndWrite,
     Close, At
<1>2. req[u] \in Request /\ call.state # "none"
  BY <1>1, Serving
<1>3. \A v \in User, step \in Step, reason \in Reason \cup {"none"} :
        [step |-> step, reason |-> reason, ringing |-> FALSE, started |-> FALSE] \in Request
  BY DEF Request
<1>4. Answer(u) => \E r \in Request \cup {Idle} : req' = [req EXCEPT ![u] = r]
  BY DEF Answer
<1>5. \A reason \in Reason : EndCall(u, reason) => \E r \in Request \cup {Idle} : req' = [req EXCEPT ![u] = r]
  BY <1>3 DEF EndCall, Step
<1>6. Over \in PartRows
  BY DEF IInv, TypeOK, Over, PartRows
<1>7. ASSUME \E r \in Request \cup {Idle} : req' = [req EXCEPT ![u] = r],
             UNCHANGED <<record, issued, timer, crashes, sweep>>,
             room' \subseteq User, token' \subseteq User, steady' \subseteq steady
      PROVE  IInv'
  BY <1>2, <1>7, Types, Handles DEF IInv, record
<1>8. CASE Enqueue(u)
  BY <1>2, <1>4, <1>8, Types, Handles DEF IInv, Enqueue, record
<1>9. CASE JoinWrite(u)
  <2>1. PICK r \in Request \cup {Idle} : req' = [req EXCEPT ![u] = r]
    BY <1>3, <1>9 DEF JoinWrite, To, Step
  <2>2. /\ call' \in CallRow
        /\ call'.state # "none" /\ aged' \in BOOLEAN
    <3>1. CASE req[u].ringing
      <4>1. call' = [call EXCEPT !.state = "active", !.started = TRUE] /\ aged' = FALSE
        BY <1>9, <3>1 DEF JoinWrite
      <4>2. call' = [state |-> "active", started |-> TRUE]
        BY <4>1 DEF IInv, TypeOK
      <4> QED
        BY <4>1, <4>2 DEF CallRow
    <3>2. CASE ~req[u].ringing
      BY <1>2, <1>9, <3>2, Types DEF IInv, JoinWrite
    <3> QED
      BY <3>1, <3>2
  <2>3. part' \in PartRows
    BY <1>9 DEF IInv, TypeOK, JoinWrite, PartRows
  <2> QED
    BY <1>2, <1>9, <2>1, <2>2, <2>3, Types, Handles DEF IInv, JoinWrite, worker, media
<1>10. CASE JoinEnsure(u)
  BY <1>4, <1>7, <1>10, Types DEF IInv, JoinEnsure, worker
<1>11. CASE DeclineCount(u)
  BY <1>4, <1>5, <1>7, <1>11, Types DEF IInv, DeclineCount, worker, media, Reason
<1>12. CASE LeaveCount(u)
  BY <1>4, <1>5, <1>7, <1>12, Types DEF IInv, LeaveCount, worker, media, Reason
<1>13. CASE EndRead(u)
  <2>1. \E r \in Request \cup {Idle} : req' = [req EXCEPT ![u] = r]
    <3>1. [req[u] EXCEPT !.step = "end", !.started = call.started] \in Request
      BY <1>2 DEF IInv, TypeOK, Request, Step
    <3> QED
      BY <1>4, <1>13, <3>1 DEF IInv, TypeOK, EndRead
  <2> QED
    BY <1>7, <1>13, <2>1, Types DEF IInv, EndRead, worker, media
<1>14. CASE EndWrite(u)
  <2>1. PICK r \in Request \cup {Idle} : req' = [req EXCEPT ![u] = r]
    <3>1. [req[u] EXCEPT !.step = "close"] \in Request
      BY <1>2 DEF Request, Step
    <3> QED
      BY <1>14, <3>1 DEF IInv, TypeOK, EndWrite
  <2>2. /\ call' \in CallRow
        /\ call'.state # "none"
    BY <1>14 DEF IInv, TypeOK, EndWrite, CallRow
  <2>3. summaries' \subseteq Outcome
    BY <1>14 DEF IInv, TypeOK, EndWrite, OutcomeOf, Outcome
  <2> QED
    BY <1>2, <1>6, <1>14, <2>1, <2>2, <2>3, Types, Handles DEF IInv, EndWrite, worker, media
<1>15. CASE Close(u)
  BY <1>4, <1>7, <1>15, Types DEF IInv, Close, worker
<1>16. CASE Fail(u)
  BY <1>4, <1>7, <1>16, Types DEF IInv, Fail, worker, media
<1> QED
  BY <1>8, <1>9, <1>10, <1>11, <1>12, <1>13, <1>14, <1>15, <1>16 DEF Serve

-----------------------------------------------------------------------------
(* The worker, time and the room.                                          *)

(* A step that leaves the requests alone.                                  *)
LEMMA Besides ==
  ASSUME IInv, UNCHANGED req, call.state # "none", call'.state # "none",
         call' \in CallRow, part' \in PartRows, aged' \in BOOLEAN, summaries' \subseteq Outcome,
         issued' \in 0..MaxRequests, crashes' \in 0..MaxCrashes,
         timer' \in {"none", "armed", "running", "done"},
         NEW step \in {"idle", "joined", "clear", "empty"},
         NEW ghosts \in SUBSET User, NEW roster \in SUBSET User,
         sweep' = [step |-> step, ghosts |-> ghosts, roster |-> roster],
         room' \subseteq User, token' \subseteq User, steady' \subseteq User,
         step = "joined" => steady' \subseteq roster,
         ghosts \cap steady' = {}
  PROVE  IInv'
<1>1. TypeOK'
  BY DEF IInv, TypeOK, CallRow, PartRows
<1>2. BornInv' /\ GhostInv'
  BY DEF BornInv, GhostInv
<1> QED
  BY <1>1, <1>2 DEF IInv

(* The sweep as it is, and as it rests.                                    *)
LEMMA Sweeps ==
  ASSUME IInv
  PROVE  /\ sweep = [step |-> sweep.step, ghosts |-> sweep.ghosts, roster |-> sweep.roster]
         /\ sweep.step \in {"idle", "joined", "clear", "empty"}
         /\ sweep.ghosts \in SUBSET User /\ sweep.roster \in SUBSET User
         /\ sweep.step = "joined" => steady \subseteq sweep.roster
         /\ sweep.ghosts \cap steady = {}
BY DEF IInv, TypeOK, GhostInv

LEMMA Unborn ==
  ASSUME IInv, call.state = "none"
  PROVE  /\ sweep.step = "idle" /\ timer = "none"
         /\ \A u \in User : part[u] = "none"
BY DEF IInv, TypeOK, BornInv, Resting

(* What a step that does not touch the sweep needs to keep.                *)
LEMMA SweepApart ==
  ASSUME IInv, UNCHANGED <<req, sweep>>, call.state # "none", call'.state # "none",
         call' \in CallRow, part' \in PartRows, aged' \in BOOLEAN, summaries' \subseteq Outcome,
         issued' \in 0..MaxRequests, crashes' \in 0..MaxCrashes,
         timer' \in {"none", "armed", "running", "done"},
         room' \subseteq User, token' \subseteq User, steady' \subseteq steady
  PROVE  IInv'
<1>1. sweep' = sweep /\ sweep'.ghosts \cap steady' = {} /\ steady' \subseteq User
  BY Sweeps DEF IInv, TypeOK
<1> QED
  BY <1>1, Sweeps, Besides

LEMMA TimeoutStep ==
  ASSUME IInv, Timeout
  PROVE  IInv'
<1>1. call.state # "none"
  BY Unborn DEF Timeout, TimeoutRead, TimeoutWrite
<1>2. crashes \in 0..MaxCrashes
  BY DEF IInv, TypeOK
<1>3. CASE TimeoutRead
  BY <1>1, <1>2, <1>3, Types, SweepApart DEF IInv, TimeoutRead, record, api, media
<1>4. CASE TimeoutWrite
  <2>1. Over \in PartRows
    BY DEF IInv, TypeOK, Over, PartRows
  <2>2. call' \in CallRow /\ call'.state # "none"
    <3>1. [call EXCEPT !.state = "ended"] \in CallRow /\ [call EXCEPT !.state = "ended"].state = "ended"
      BY DEF IInv, TypeOK, CallRow
    <3> QED
      BY <1>1, <1>4, <3>1, Types DEF IInv, TimeoutWrite
  <2>3. summaries' \subseteq Outcome
    BY <1>4 DEF IInv, TypeOK, TimeoutWrite, Outcome
  <2> QED
    BY <1>1, <1>2, <1>4, <2>1, <2>2, <2>3, Types, SweepApart DEF IInv, TimeoutWrite, api, media
<1> QED
  BY <1>3, <1>4 DEF Timeout

LEMMA SweepStep ==
  ASSUME IInv, Reconcile \/ SweepForce \/ SweepRoster \/ SweepBlind \/ WorkerCrash
  PROVE  IInv'
<1>1. call.state # "none"
  BY Unborn DEF Reconcile, SweepForce, SweepRoster, SweepBlind, SweepJoined, SweepClear, SweepEmpty,
     WorkerCrash
<1>2. crashes \in 0..MaxCrashes
  BY DEF IInv, TypeOK
<1>3. [call EXCEPT !.state = "ended"] \in CallRow /\ [call EXCEPT !.state = "ended"].state = "ended"
  BY DEF IInv, TypeOK, CallRow
<1>4. {} \in SUBSET User /\ {} \cap steady' = {}
  OBVIOUS
<1>5. CASE SweepForce
  BY <1>1, <1>2, <1>3, <1>5, Types, SweepApart DEF IInv, SweepForce, api, worker, media
<1>6. CASE SweepRoster
  BY <1>1, <1>2, <1>4, <1>6, Types, Besides DEF IInv, SweepRoster, record, api
<1>7. CASE SweepBlind
  <2>1. sweep' = [step |-> "empty", ghosts |-> {}, roster |-> {}]
    BY <1>7 DEF SweepBlind, Resting
  <2> QED
    BY <1>1, <1>2, <1>4, <1>7, <2>1, Types, Besides DEF IInv, SweepBlind, record, api
<1>8. CASE SweepJoined
  <2> DEFINE ghosts == {u \in User \ sweep.roster : part[u] = "joined"}
  <2>1. sweep' = [step |-> "clear", ghosts |-> ghosts, roster |-> sweep.roster]
    BY <1>8, Sweeps DEF SweepJoined
  <2>2. ghosts \in SUBSET User /\ ghosts \cap steady = {}
    BY <1>8, Sweeps DEF SweepJoined
  <2> HIDE DEF ghosts
  <2> QED
    BY <1>1, <1>2, <1>8, <2>1, <2>2, Sweeps, Types, Besides DEF IInv, SweepJoined, record, api, media
<1>9. CASE SweepClear
  <2>1. part' \in PartRows
    BY <1>9 DEF IInv, TypeOK, SweepClear, PartRows
  <2>2. ASSUME NEW u \in sweep.ghosts, sweep' = [sweep EXCEPT !.ghosts = @ \ {u}]
        PROVE  IInv'
    <3>1. sweep' = [step |-> sweep.step, ghosts |-> sweep.ghosts \ {u}, roster |-> sweep.roster]
      BY <2>2, Sweeps
    <3>2. sweep.ghosts \ {u} \in SUBSET User /\ (sweep.ghosts \ {u}) \cap steady = {}
      BY Sweeps
    <3> QED
      BY <1>1, <1>2, <1>9, <2>1, <3>1, <3>2, Sweeps, Types, Besides DEF IInv, SweepClear, api, media
  <2>3. CASE sweep' = [Resting EXCEPT !.step = "empty"]
    <3>1. sweep' = [step |-> "empty", ghosts |-> {}, roster |-> {}]
      BY <2>3 DEF Resting
    <3> QED
      BY <1>1, <1>2, <1>4, <1>9, <2>1, <3>1, Types, Besides DEF IInv, SweepClear, api, media
  <2> QED
    BY <1>9, <2>2, <2>3 DEF SweepClear
<1>10. CASE SweepEmpty
  BY <1>1, <1>2, <1>3, <1>4, <1>10, Types, Besides DEF IInv, SweepEmpty, api, media, Resting
<1>11. CASE WorkerCrash
  <2>1. crashes' \in 0..MaxCrashes
    BY <1>11, BoundsAssumption DEF IInv, TypeOK, WorkerCrash
  <2> QED
    BY <1>1, <1>4, <1>11, <2>1, Types, Besides DEF IInv, WorkerCrash, record, api, media, Resting
<1> QED
  BY <1>5, <1>6, <1>7, <1>8, <1>9, <1>10, <1>11 DEF Reconcile

LEMMA ClientStep ==
  ASSUME IInv, NEW u \in User, Settle(u) \/ Connect(u) \/ Lose(u)
  PROVE  IInv'
<1>1. CASE Settle(u)
  <2>1. call.state # "none"
    BY <1>1, Unborn DEF Settle
  <2>2. part' \in PartRows
    BY <1>1 DEF IInv, TypeOK, Settle, PartRows
  <2>3. crashes \in 0..MaxCrashes
    BY DEF IInv, TypeOK
  <2> QED
    BY <1>1, <2>1, <2>2, <2>3, Types, SweepApart DEF IInv, Settle, api, worker, media
<1>2. CASE Connect(u) \/ Lose(u)
  <2>1. /\ room' \subseteq User /\ token' \subseteq User /\ steady' \subseteq steady
        /\ UNCHANGED <<record, api, worker>>
    BY <1>2, Types DEF IInv, Connect, Lose
  <2>2. TypeOK'
    BY <2>1 DEF IInv, TypeOK, record, api, worker
  <2> QED
    BY <2>1, <2>2 DEF IInv, BornInv, GhostInv, record, api, worker
<1> QED
  BY <1>1, <1>2

LEMMA AgeStep ==
  ASSUME IInv, Age
  PROVE  IInv'
<1>1. TypeOK'
  BY DEF IInv, TypeOK, Age, api, worker, media
<1> QED
  BY <1>1 DEF IInv, BornInv, GhostInv, Age, api, worker, media

-----------------------------------------------------------------------------

LEMMA NextStep ==
  ASSUME IInv, Next
  PROVE  IInv'
BY StartStep, AskStep, ServeStep, TimeoutStep, SweepStep, ClientStep, AgeStep DEF Next

LEMMA StutterStep ==
  ASSUME IInv, UNCHANGED vars
  PROVE  IInv'
<1> USE DEF vars, record, api, worker, media
<1>1. TypeOK'
  BY DEF IInv, TypeOK
<1> QED
  BY <1>1 DEF IInv, BornInv, GhostInv

(* The inductive invariant holds.                                          *)
THEOREM Invariance == Spec => []IInv
<1>1. Init => IInv
  BY InitInv
<1>2. IInv /\ [Next]_vars => IInv'
  BY NextStep, StutterStep
<1> QED
  BY <1>1, <1>2, PTL DEF Spec

(* Rows, requests, jobs and rooms keep their types, and nothing exists of  *)
(* a call before its row.                                                  *)
THEOREM TypeCorrect == Spec => []TypeOK
<1>1. IInv => TypeOK
  BY DEF IInv
<1> QED
  BY <1>1, Invariance, PTL

(* The ring timeout never ends an answered call.                           *)
THEOREM TimeoutSparesAnsweredHolds == Spec => TimeoutSparesAnswered
<1>1. [Next]_vars => [timer' # timer /\ call.state = "active" => call'.state = "active"]_vars
  <2> SUFFICES ASSUME Next, timer' # timer, call.state = "active"
               PROVE  call'.state = "active"
    OBVIOUS
  <2>1. ASSUME NEW u \in User, Ask(u) \/ Serve(u) \/ Fail(u)
        PROVE  call'.state = "active"
    BY <2>1 DEF Ask, Serve, Fail, Join, Decline, Leave, End, Enqueue, JoinWrite, JoinEnsure,
       DeclineCount, LeaveCount, EndRead, EndWrite, Close, record, worker
  <2>2. CASE Timeout \/ WorkerCrash
    BY <2>2 DEF Timeout, TimeoutRead, TimeoutWrite, WorkerCrash, record
  <2>3. CASE SweepForce \/ SweepRoster \/ SweepBlind \/ Reconcile \/ Age \/ Start
    BY <2>3 DEF SweepForce, SweepRoster, SweepBlind, Reconcile, SweepJoined, SweepClear, SweepEmpty,
       Age, Start, worker
  <2>4. ASSUME NEW u \in User, Settle(u) \/ Connect(u) \/ Lose(u)
        PROVE  call'.state = "active"
    BY <2>4 DEF Settle, Connect, Lose, worker
  <2> QED
    BY <2>1, <2>2, <2>3, <2>4 DEF Next
<1> QED
  BY <1>1, PTL DEF Spec, TimeoutSparesAnswered

(* Whoever stayed in the room is no ghost.                                 *)
LEMMA Spared ==
  ASSUME IInv, Next, sweep' # sweep, NEW u \in steady, u \in joined
  PROVE  /\ part'[u] \in {"joining", "joined"}
         /\ call.state = "active" => call'.state = "active"
<1>1. part[u] \in {"joining", "joined"} /\ u \in User
  BY DEF joined
<1>2. CASE SweepRoster \/ SweepBlind \/ SweepJoined \/ WorkerCrash
  BY <1>1, <1>2 DEF SweepRoster, SweepBlind, SweepJoined, WorkerCrash, record
<1>3. CASE SweepClear
  <2>1. u \notin sweep.ghosts
    BY DEF IInv, GhostInv
  <2> QED
    BY <1>1, <1>3, <2>1 DEF IInv, TypeOK, SweepClear
<1>4. CASE SweepEmpty
  BY <1>1, <1>4 DEF SweepEmpty
<1>5. ~(SweepForce \/ Age \/ Start \/ Timeout)
  BY DEF SweepForce, Age, Start, Timeout, TimeoutRead, TimeoutWrite, worker
<1>6. ASSUME NEW v \in User, Ask(v) \/ Serve(v) \/ Fail(v) \/ Settle(v) \/ Connect(v) \/ Lose(v)
      PROVE  FALSE
  BY <1>6 DEF Ask, Serve, Fail, Join, Decline, Leave, End, Enqueue, JoinWrite, JoinEnsure,
     DeclineCount, LeaveCount, EndRead, EndWrite, Close, Settle, Connect, Lose, worker
<1> QED
  BY <1>2, <1>3, <1>4, <1>5, <1>6 DEF Next, Reconcile

(* The reconciliation neither marks as gone nor hangs up on anybody who    *)
(* stayed in the room since it began.                                      *)
THEOREM HealthySparedHolds == Spec => HealthySpared
<1>1. IInv /\ [Next]_vars =>
        [sweep' # sweep =>
           \A u \in steady : u \in joined =>
             /\ part'[u] \in {"joining", "joined"}
             /\ call.state = "active" => call'.state = "active"]_vars
  BY Spared
<1> QED
  BY <1>1, Invariance, PTL DEF Spec, HealthySpared

(* How one step of anybody may move the call once it was answered or over. *)
Revival ==
  /\ call.state = "ended" /\ call'.state # "ended" =>
       /\ call' = [state |-> "active", started |-> TRUE]
       /\ \E u \in User : At(u, "join") /\ req[u].ringing /\ ~At(u, "join")' /\ part'[u] = "joining"
  /\ call.state \in {"active", "ended"} => call'.state \in {"active", "ended"}

LEMMA Answering ==
  ASSUME IInv, NEW u \in User, JoinWrite(u)
  PROVE  Revival
<1>1. call \in CallRow /\ part \in PartRows
  BY Types DEF IInv
<1>2. part'[u] = "joining"
  BY <1>1 DEF JoinWrite, PartRows
<1>3. ~At(u, "join")'
  <2>1. req'[u].step = "ensure"
    BY DEF JoinWrite, To, IInv, TypeOK
  <2> QED
    BY <2>1 DEF At
<1>4. CASE req[u].ringing
  <2>1. call' = [call EXCEPT !.state = "active", !.started = TRUE]
    BY <1>4 DEF JoinWrite
  <2>2. call' = [state |-> "active", started |-> TRUE]
    BY <1>1, <2>1 DEF CallRow
  <2> QED
    BY <1>2, <1>3, <1>4, <2>2 DEF JoinWrite, Revival
<1>5. CASE ~req[u].ringing
  BY <1>5 DEF JoinWrite, Revival
<1> QED
  BY <1>4, <1>5

(* A call that ended is live again only through an answer that was decided *)
(* while it still rang, and no call rings twice.                           *)
THEOREM OnlyALateAnswerRevivesHolds == Spec => OnlyALateAnswerRevives
<1>1. IInv /\ [Next]_vars => [Revival]_vars
  <2> SUFFICES ASSUME IInv, Next PROVE Revival
    OBVIOUS
  <2>1. call \in CallRow
    BY Types DEF IInv
  <2>2. ASSUME call' = call \/ (call.state # "none" /\ call' = [call EXCEPT !.state = "ended"])
        PROVE  Revival
    BY <2>1, <2>2 DEF Revival, CallRow
  <2>3. ASSUME NEW u \in User, Serve(u), ~JoinWrite(u)
        PROVE  Revival
    <3>1. req[u] # Idle
      BY <2>3 DEF Serve, Enqueue, JoinEnsure, DeclineCount, LeaveCount, EndRead, EndWrite, Close, At
    <3>2. call.state # "none"
      BY <3>1, Serving
    <3> QED
      BY <2>2, <2>3, <3>2 DEF Serve, Enqueue, JoinEnsure, DeclineCount, LeaveCount, EndRead,
         EndWrite, Close, record
  <2>4. ASSUME NEW u \in User, Ask(u) \/ Fail(u) \/ Settle(u) \/ Connect(u) \/ Lose(u)
        PROVE  Revival
    BY <2>2, <2>4 DEF Ask, Join, Decline, Leave, End, Fail, Settle, Connect, Lose, record
  <2>5. CASE Timeout \/ WorkerCrash
    BY <2>2, <2>5, Unborn DEF Timeout, TimeoutRead, TimeoutWrite, WorkerCrash, record
  <2>6. CASE SweepForce \/ SweepRoster \/ SweepBlind \/ Reconcile \/ Age
    BY <2>2, <2>6, Unborn DEF SweepForce, SweepRoster, SweepBlind, Reconcile, SweepJoined, SweepClear,
       SweepEmpty, Age, record
  <2>7. CASE Start
    BY <2>7 DEF Start, Revival
  <2> QED
    BY <2>3, <2>4, <2>5, <2>6, <2>7, Answering DEF Next
<1> QED
  BY <1>1, Invariance, PTL DEF Spec, OnlyALateAnswerRevives, Revival
=============================================================================
