-------------------------------- MODULE Calls --------------------------------
(***************************************************************************)
(* One call of a conversation: the API handlers that start, join, decline, *)
(* leave and end it (apps/api/src/routes/calls.ts), the worker's ring      *)
(* timeout and its reconciliation with the media server                    *)
(* (apps/worker/src/jobs/calls.ts), and the clients in the LiveKit room.   *)
(*                                                                         *)
(* A handler is a chain of steps: each query and each transaction is one   *)
(* action, but for the three queries of a join before its transaction,     *)
(* which are one, and any other process may run between two of them.  A    *)
(* transaction is atomic: its statements lock the rows they write, and     *)
(* where two transactions would interleave PostgreSQL aborts one of them,  *)
(* which is Fail here.                                                     *)
(*                                                                         *)
(* Time is abstract: "joined 90 seconds ago" and "started two minutes ago" *)
(* become true by an action of their own, ring_expires_at has passed when  *)
(* the delayed job runs, and the six-hour sweep may come at any moment.    *)
(***************************************************************************)
EXTENDS Naturals, FiniteSets

CONSTANTS User,         \* the members of the conversation
          Initiator,    \* the member who calls
          MayEnd,       \* members with END_CALL_FOR_ALL
          Capacity,     \* max_participants
          MaxRequests,  \* bound of the model: requests after the start
          MaxCrashes    \* bound of the model: crashes of the worker

ASSUME UserAssumption == Initiator \in User /\ MayEnd \subseteq User /\ IsFiniteSet(User)
ASSUME BoundsAssumption == Capacity \in Nat /\ MaxRequests \in Nat /\ MaxCrashes \in Nat

VARIABLES
  call,      \* the row of calls: its state and whether started_at is set
  part,      \* call_participants.state of each member; a member who joined
             \* less than 90 seconds ago is "joining"
  aged,      \* started_at is more than two minutes old
  summaries, \* outcomes of the summary messages written
  req,       \* the request of each member that the API is serving
  issued,    \* requests so far, bounded by MaxRequests
  timer,     \* the call.ring_timeout job
  crashes,   \* worker crashes so far, bounded by MaxCrashes
  sweep,     \* the running reconcileStaleCalls
  room,      \* who is connected to the LiveKit room of the call
  token,     \* who holds a join token and wants to be connected
  steady     \* who never left the room since the reconciliation began

record  == <<call, part, aged, summaries>>
api     == <<req, issued>>
worker  == <<timer, crashes, sweep>>
media   == <<room, token, steady>>
vars    == <<record, api, worker, media>>

Reason  == {"declined", "hangup", "ended_by_host"}
Outcome == {"completed", "declined", "missed", "cancelled"}
Step    == {"enqueue", "join", "ensure", "remaining", "active",
            "read", "end", "close"}

Idle    == [step |-> "idle"]
(* What a handler has read and goes by: whether the call rang, whether it  *)
(* had started; and why it ends the call.                                  *)
Request == [step : Step, reason : Reason \cup {"none"},
            ringing : BOOLEAN, started : BOOLEAN]
Resting == [step |-> "idle", ghosts |-> {}, roster |-> {}]

joined == {u \in User : part[u] \in {"joining", "joined"}}

(* Types, and nothing exists of a call before its row does.                *)
TypeOK ==
  /\ call \in [state : {"none", "ringing", "active", "ended"}, started : BOOLEAN]
  /\ part \in [User -> {"none", "ringing", "joining", "joined",
                       "left", "declined", "missed"}]
  /\ aged \in BOOLEAN
  /\ summaries \subseteq Outcome
  /\ req \in [User -> Request \cup {Idle}]
  /\ issued \in 0..MaxRequests
  /\ timer \in {"none", "armed", "running", "done"}
  /\ crashes \in 0..MaxCrashes
  /\ sweep \in [step : {"idle", "joined", "clear", "empty"}, ghosts : SUBSET User,
                roster : SUBSET User]
  /\ room \subseteq User /\ token \subseteq User /\ steady \subseteq User
  /\ call.state = "none" => timer = "none" /\ part = [u \in User |-> "none"]

Init ==
  /\ call = [state |-> "none", started |-> FALSE]
  /\ part = [u \in User |-> "none"]
  /\ aged = FALSE
  /\ summaries = {}
  /\ req = [u \in User |-> Idle]
  /\ issued = 0
  /\ timer = "none" /\ crashes = 0
  /\ sweep = Resting
  /\ room = {} /\ token = {} /\ steady = {}

-----------------------------------------------------------------------------
(* Requests *)

Accept(u) == req[u] = Idle /\ issued < MaxRequests /\ issued' = issued + 1

To(u, step) == req' = [req EXCEPT ![u] = [step |-> step, reason |-> "none",
                                          ringing |-> FALSE, started |-> FALSE]]

(* The first thing endCall does is to read the call again. *)
EndCall(u, reason) == req' = [req EXCEPT ![u] = [step |-> "read", reason |-> reason,
                                                 ringing |-> FALSE, started |-> FALSE]]

Answer(u) == req' = [req EXCEPT ![u] = Idle]

At(u, step) == req[u] # Idle /\ req[u].step = step

(* Mutant: the job is scheduled before the call is written. *)
StartEnqueuingFirst ==
  /\ call.state = "none" /\ req[Initiator] = Idle
  /\ timer' = "armed"
  /\ UNCHANGED <<record, api, crashes, sweep, room, token, steady>>

(* POST /: the room first, then the call and a row for every member. *)
Start ==
  /\ call.state = "none" /\ req[Initiator] = Idle
  /\ call' = [call EXCEPT !.state = "ringing"]
  /\ part' = [u \in User |-> IF u = Initiator THEN "joining" ELSE "ringing"]
  /\ To(Initiator, "enqueue")
  /\ UNCHANGED <<aged, summaries, issued, worker, room, token, steady>>

(* The delayed job; an enqueue that fails is logged and forgotten. *)
Enqueue(u) ==
  /\ At(u, "enqueue")
  /\ timer' \in {"armed", timer}
  /\ token' = token \cup {u}
  /\ Answer(u)
  /\ UNCHANGED <<record, issued, crashes, sweep, room, steady>>

(* The checks of POST /:id/join; nobody holds the call until JoinWrite. *)
Join(u) ==
  /\ Accept(u)
  /\ call.state \in {"ringing", "active"}
  /\ Cardinality(joined) < Capacity
  /\ req' = [req EXCEPT ![u] = [step |-> "join", reason |-> "none",
                                ringing |-> call.state = "ringing", started |-> FALSE]]
  /\ UNCHANGED <<record, worker, media>>

JoinWrite(u) ==
  /\ At(u, "join")
  /\ part' = [part EXCEPT ![u] = "joining"]
  /\ IF req[u].ringing
     THEN call' = [call EXCEPT !.state = "active", !.started = TRUE] /\ aged' = FALSE
     ELSE UNCHANGED <<call, aged>>
  /\ To(u, "ensure")
  /\ UNCHANGED <<summaries, issued, worker, media>>

(* ensureRoom, should LiveKit have collected the room, and the token. *)
JoinEnsure(u) ==
  /\ At(u, "ensure")
  /\ token' = token \cup {u}
  /\ Answer(u)
  /\ UNCHANGED <<record, issued, worker, room, steady>>

(* Who declines may be ringing, in the call or long gone: nothing asks. *)
Decline(u) ==
  /\ Accept(u)
  /\ call.state # "none"
  /\ part' = [part EXCEPT ![u] = "declined"]
  /\ To(u, "remaining")
  /\ UNCHANGED <<call, aged, summaries, worker, media>>

DeclineCount(u) ==
  /\ At(u, "remaining")
  /\ IF \E v \in User \ {Initiator} : part[v] = "ringing" \/ v \in joined
     THEN Answer(u) ELSE EndCall(u, "declined")
  /\ UNCHANGED <<record, issued, worker, media>>

(* The app hangs up its media as it calls POST /:id/leave. *)
Leave(u) ==
  /\ Accept(u)
  /\ part[u] # "none"
  /\ part' = [part EXCEPT ![u] = "left"]
  /\ To(u, "active")
  /\ room' = room \ {u} /\ token' = token \ {u} /\ steady' = steady \ {u}
  /\ UNCHANGED <<call, aged, summaries, worker>>

LeaveCount(u) ==
  /\ At(u, "active")
  /\ IF joined # {} THEN Answer(u) ELSE EndCall(u, "hangup")
  /\ UNCHANGED <<record, issued, worker, media>>

End(u) ==
  /\ Accept(u)
  /\ call.state # "none"
  /\ u \in MayEnd \cup {Initiator}
  /\ EndCall(u, "ended_by_host")
  /\ UNCHANGED <<record, worker, media>>

EndRead(u) ==
  /\ At(u, "read")
  /\ IF call.state = "ended" THEN Answer(u)
     ELSE req' = [req EXCEPT ![u].step = "end", ![u].started = call.started]
  /\ UNCHANGED <<record, issued, worker, media>>

(* Participants of a call that is over: those still rung missed it. *)
Over == [u \in User |-> CASE part[u] = "ringing" -> "missed"
                          [] u \in joined        -> "left"
                          [] OTHER               -> part[u]]

(* The outcome on the summary card.  A call that lasted under half a       *)
(* second counts as not started; the model has none.                       *)
OutcomeOf(reason, started) ==
  CASE started             -> "completed"
    [] reason = "declined" -> "declined"
    [] OTHER               -> "cancelled"

(* The transaction of endCall does not look at the state again. *)
EndWrite(u) ==
  /\ At(u, "end")
  /\ call' = [call EXCEPT !.state = "ended"]
  /\ part' = Over
  /\ summaries' = summaries \cup {OutcomeOf(req[u].reason, req[u].started)}
  /\ req' = [req EXCEPT ![u].step = "close"]
  /\ UNCHANGED <<aged, issued, worker, media>>

(* closeRoom throws everybody out; when LiveKit is down nothing happens. *)
Close(u) ==
  /\ At(u, "close")
  /\ \/ room' = {} /\ steady' = {}
     \/ UNCHANGED <<room, steady>>
  /\ Answer(u)
  /\ UNCHANGED <<record, issued, worker, token>>

(* The API process dies, or a query of the handler fails. *)
Fail(u) ==
  /\ req[u] # Idle
  /\ Answer(u)
  /\ UNCHANGED <<record, issued, worker, media>>

-----------------------------------------------------------------------------
(* The ring timeout *)

TimeoutRead ==
  /\ timer = "armed"
  /\ timer' = IF call.state = "ringing" THEN "running" ELSE "done"
  /\ UNCHANGED <<record, api, crashes, sweep, media>>

(* Mutant: the UPDATE of the timeout trusts what the job has read. *)
TimeoutWriteUnconditional ==
  /\ timer = "running"
  /\ timer' = "done"
  /\ call' = [call EXCEPT !.state = "ended"]
  /\ part' = Over
  /\ summaries' = summaries \cup {"missed"}
  /\ UNCHANGED <<aged, api, crashes, sweep, media>>

(* Only the UPDATE of calls asks again whether the call still rings. *)
TimeoutWrite ==
  /\ timer = "running"
  /\ timer' = "done"
  /\ IF call.state = "ringing"
     THEN call' = [call EXCEPT !.state = "ended"]
     ELSE UNCHANGED call
  /\ part' = Over
  /\ summaries' = summaries \cup {"missed"}
  /\ UNCHANGED <<aged, api, crashes, sweep, media>>

(* Mutant: a job that a dead worker had taken is not given to another. *)
WorkerCrashLosing ==
  /\ crashes < MaxCrashes
  /\ timer = "running" \/ sweep.step # "idle"
  /\ crashes' = crashes + 1
  /\ timer' = IF timer = "running" THEN "done" ELSE timer
  /\ sweep' = Resting
  /\ UNCHANGED <<record, api, media>>

(* The queue gives the job of a dead worker to the next one. *)
WorkerCrash ==
  /\ crashes < MaxCrashes
  /\ timer = "running" \/ sweep.step # "idle"
  /\ crashes' = crashes + 1
  /\ timer' = IF timer = "running" THEN "armed" ELSE timer
  /\ sweep' = Resting
  /\ UNCHANGED <<record, api, media>>

-----------------------------------------------------------------------------
(* The reconciliation *)

(* Six hours after its creation. *)
SweepForce ==
  /\ sweep.step = "idle"
  /\ call.state \in {"ringing", "active"}
  /\ call' = [call EXCEPT !.state = "ended"]
  /\ UNCHANGED <<part, aged, summaries, api, worker, media>>

SweepRoster ==
  /\ sweep.step = "idle"
  /\ call.state = "active" /\ aged
  /\ sweep' = [step |-> "joined", ghosts |-> {}, roster |-> room]
  /\ steady' = room
  /\ UNCHANGED <<record, api, timer, crashes, room, token>>

(* Mutant: a media server that does not answer is taken for an empty room. *)
SweepBlindAsEmpty ==
  /\ sweep.step = "idle"
  /\ call.state = "active" /\ aged
  /\ sweep' = [Resting EXCEPT !.step = "joined"]
  /\ steady' = room
  /\ UNCHANGED <<record, api, timer, crashes, room, token>>

(* No verdict: LiveKit does not answer. *)
SweepBlind ==
  /\ sweep.step = "idle"
  /\ call.state = "active" /\ aged
  /\ sweep' = [Resting EXCEPT !.step = "empty"]
  /\ steady' = room
  /\ UNCHANGED <<record, api, timer, crashes, room, token>>

(* Mutant: ghosts are found but their rows stay. *)
SweepJoinedOnly ==
  /\ sweep.step = "joined"
  /\ sweep' = [Resting EXCEPT !.step = "empty"]
  /\ UNCHANGED <<record, api, timer, crashes, media>>

SweepJoined ==
  /\ sweep.step = "joined"
  /\ sweep' = [sweep EXCEPT !.step = "clear",
                            !.ghosts = {u \in User \ sweep.roster : part[u] = "joined"}]
  /\ UNCHANGED <<record, api, timer, crashes, media>>

(* One UPDATE per ghost, then on to the calls nobody is in. *)
SweepClear ==
  /\ sweep.step = "clear"
  /\ \/ \E u \in sweep.ghosts :
          /\ part' = IF u \in joined THEN [part EXCEPT ![u] = "left"] ELSE part
          /\ sweep' = [sweep EXCEPT !.ghosts = @ \ {u}]
     \/ /\ sweep.ghosts = {}
        /\ sweep' = [Resting EXCEPT !.step = "empty"]
        /\ UNCHANGED part
  /\ UNCHANGED <<call, aged, summaries, api, timer, crashes, media>>

SweepEmpty ==
  /\ sweep.step = "empty"
  /\ IF call.state = "active" /\ aged /\ joined = {}
     THEN call' = [call EXCEPT !.state = "ended"]
     ELSE UNCHANGED call
  /\ sweep' = Resting
  /\ UNCHANGED <<part, aged, summaries, api, timer, crashes, media>>

-----------------------------------------------------------------------------
(* Time, the clients and the media server *)

Settle(u) ==
  /\ part[u] = "joining"
  /\ part' = [part EXCEPT ![u] = "joined"]
  /\ UNCHANGED <<call, aged, summaries, api, worker, media>>

Age ==
  /\ call.started /\ ~aged
  /\ aged' = TRUE
  /\ UNCHANGED <<call, part, summaries, api, worker, media>>

Connect(u) ==
  /\ u \in token \ room
  /\ room' = room \cup {u}
  /\ UNCHANGED <<record, api, worker, token, steady>>

(* The network or the app goes; an app that lives connects again.  Whether *)
(* LiveKit still has the room is left out: a join creates it anew.         *)
Lose(u) ==
  /\ u \in token
  /\ room' = room \ {u} /\ steady' = steady \ {u}
  /\ token' \in {token, token \ {u}}
  /\ UNCHANGED <<record, api, worker>>

-----------------------------------------------------------------------------
Serve(u) ==
  \/ Enqueue(u) \/ JoinWrite(u) \/ JoinEnsure(u)
  \/ DeclineCount(u) \/ LeaveCount(u)
  \/ EndRead(u) \/ EndWrite(u) \/ Close(u)

Ask(u) == Join(u) \/ Decline(u) \/ Leave(u) \/ End(u)

Timeout == TimeoutRead \/ TimeoutWrite

Reconcile == SweepJoined \/ SweepClear \/ SweepEmpty

Next ==
  \/ Start
  \/ \E u \in User : Ask(u) \/ Serve(u) \/ Fail(u)
  \/ Timeout \/ WorkerCrash
  \/ SweepForce \/ SweepRoster \/ SweepBlind \/ Reconcile
  \/ \E u \in User : Settle(u) \/ Connect(u) \/ Lose(u)
  \/ Age

(* The API serves what it accepted, time passes, pg-boss runs its jobs and *)
(* LiveKit answers again and again.  Nobody has to call, answer, hang up   *)
(* or connect, and the six-hour sweep is not counted upon.                 *)
Fairness ==
  /\ \A u \in User : WF_vars(Serve(u)) /\ WF_vars(Settle(u))
  /\ WF_vars(Age)
  /\ WF_vars(Timeout)
  /\ WF_vars(Reconcile) /\ SF_vars(SweepRoster)

Spec == Init /\ [][Next]_vars /\ Fairness

-----------------------------------------------------------------------------
(* Properties *)

(* "Ending calls on missing evidence would hang up on healthy people"      *)
(* (worker/src/jobs/calls.ts): whoever stayed in the room since the        *)
(* reconciliation began keeps the row that says so, and it does not end    *)
(* the call such a person is in.                                           *)
HealthySpared ==
  [][sweep' # sweep =>
       \A u \in steady : u \in joined =>
         /\ part'[u] \in {"joining", "joined"}
         /\ call.state = "active" => call'.state = "active"]_vars

(* The ring timeout may read "ringing" just before somebody answers; it    *)
(* must not end the call that was answered (handleRingTimeout, "Somebody   *)
(* answered - nothing to do").                                             *)
TimeoutSparesAnswered ==
  [][timer' # timer /\ call.state = "active" => call'.state = "active"]_vars

(* A call that is over becomes live again in one way: somebody answers who *)
(* read "ringing" before it ended, and whose write does not ask again.     *)
(* Whatever else runs meanwhile, it never rings a second time.             *)
OnlyALateAnswerRevives ==
  [][/\ call.state = "ended" /\ call'.state # "ended" =>
          /\ call' = [state |-> "active", started |-> TRUE]
          /\ \E u \in User : At(u, "join") /\ req[u].ringing /\ ~At(u, "join")' /\ part'[u] = "joining"
     /\ call.state \in {"active", "ended"} => call'.state \in {"active", "ended"}]_vars

(* Once the timeout is scheduled a call does not ring for ever, though     *)
(* callers and callees may be gone and workers crash.                      *)
RingStops == (timer = "armed" /\ call.state = "ringing") ~> call.state # "ringing"

(* When all apps died without a word the call ends all the same: rows that *)
(* stay "joined" must not keep it active (reconcileStaleCalls, "every      *)
(* later call in that conversation silently rejoin[s] a corpse").          *)
CorpseCleared == <>[](room = {}) => <>[](call.state # "active")
=============================================================================
