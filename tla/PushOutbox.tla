----------------------------- MODULE PushOutbox -----------------------------
(***************************************************************************)
(* The notifications of one user: the fan-out job a message leaves behind  *)
(* (apps/api/src/services/messages.ts, plugins/services.ts), the outbox    *)
(* row it writes, the drains that claim rows and talk to the push          *)
(* services (apps/worker/src/jobs/push.ts, main.ts), and the push tokens   *)
(* of the user's devices (apps/api/src/routes/devices.ts).                 *)
(*                                                                         *)
(* A drain is one call of deliverPending; several run at once, in one      *)
(* worker or in several.  Its steps are its statements and its sends.      *)
(* Who is to be notified (mutes, levels, quiet hours) is left out but for  *)
(* presence: a user who is connected gets no push.                         *)
(***************************************************************************)
EXTENDS Naturals, FiniteSets

CONSTANTS Message,     \* messages that notify the user
          Drain,       \* calls of deliverPending that may overlap
          Device,      \* the user's devices
          GiveUp,      \* attempts after which a row is given up (5 in the code)
          RetryLimit,  \* retries of a fan-out job (5 in the code)
          MaxTokens,   \* bound of the model: push tokens a device ever has
          MaxFaults    \* bound of the model: sends that throw or lose an answer, crashes

ASSUME GiveUpAssumption == GiveUp \in Nat \ {0}
ASSUME BoundAssumption  == RetryLimit \in Nat /\ MaxTokens \in Nat \ {0} /\ MaxFaults \in Nat

VARIABLES
  job,        \* the fan-out job of each message
  tries,      \* retries of that job
  offline,    \* fan-outs whose query found the user offline
  row,        \* the row of push_outbox: absent, pending, sent or failed
  attempts,   \* its attempts
  lease,      \* its claimed_at: none, under a minute ago, longer ago
  expired,    \* rows whose expires_at has passed
  token,      \* push_token of each device, 0 for none
  valid,      \* the token the push service accepts for it
  at,         \* where each drain is
  batch,      \* the rows it claimed
  final,      \* those of them on their last attempt
  target,     \* the devices and tokens it read
  left,       \* rows it still has to send
  ok,         \* settledOk
  bad,        \* settledFailed
  dead,       \* deadPushTokens
  pushes,     \* history: times a row was delivered to some device
  doubtful,   \* history: rows whose drain was too slow, threw, crashed or missed an answer
  bare,       \* history: rows for which a drain found no device
  faults

queue  == <<job, tries, offline>>
outbox == <<row, attempts, lease, expired>>
phones == <<token, valid>>
drains == <<at, batch, final, target, left, ok, bad, dead>>
past   == <<pushes, doubtful, bare, faults>>
vars   == <<queue, outbox, phones, drains, past>>

Token == Device \X (1..MaxTokens)

TypeOK ==
  /\ job \in [Message -> {"none", "queued", "running", "inserted", "over"}]
  /\ tries \in [Message -> 0..RetryLimit]
  /\ offline \in SUBSET Message
  /\ row \in [Message -> {"absent", "pending", "sent", "failed"}]
  /\ attempts \in [Message -> Nat]
  /\ lease \in [Message -> {"none", "fresh", "over"}]
  /\ expired \in SUBSET Message
  /\ token \in [Device -> 0..MaxTokens]
  /\ valid \in [Device -> 1..MaxTokens]
  /\ at \in [Drain -> {"idle", "claimed", "sending", "settling", "clearing"}]
  /\ batch \in [Drain -> SUBSET Message]
  /\ final \in [Drain -> SUBSET Message]
  /\ target \in [Drain -> SUBSET Token]
  /\ left \in [Drain -> SUBSET Message]
  /\ ok \in [Drain -> SUBSET Message]
  /\ bad \in [Drain -> SUBSET Message]
  /\ dead \in [Drain -> SUBSET Token]
  /\ pushes \in [Message -> Nat]
  /\ doubtful \in SUBSET Message
  /\ bare \in SUBSET Message
  /\ faults \in 0..MaxFaults

Init ==
  /\ job = [m \in Message |-> "none"]
  /\ tries = [m \in Message |-> 0]
  /\ offline = {}
  /\ row = [m \in Message |-> "absent"]
  /\ attempts = [m \in Message |-> 0]
  /\ lease = [m \in Message |-> "none"]
  /\ expired = {}
  /\ token = [d \in Device |-> 1]
  /\ valid = [d \in Device |-> 1]
  /\ at = [w \in Drain |-> "idle"]
  /\ batch = [w \in Drain |-> {}]
  /\ final = [w \in Drain |-> {}]
  /\ target = [w \in Drain |-> {}]
  /\ left = [w \in Drain |-> {}]
  /\ ok = [w \in Drain |-> {}]
  /\ bad = [w \in Drain |-> {}]
  /\ dead = [w \in Drain |-> {}]
  /\ pushes = [m \in Message |-> 0]
  /\ doubtful = {}
  /\ bare = {}
  /\ faults = 0

-----------------------------------------------------------------------------
(* The job queue and the fan-out. *)

(* The message is committed before the job is sent; a failure to send it is *)
(* logged and forgotten.                                                    *)
Enqueue(m) ==
  /\ job[m] = "none"
  /\ \E fate \in {"queued", "over"} : job' = [job EXCEPT ![m] = fate]
  /\ UNCHANGED <<tries, offline, outbox, phones, drains, past>>

(* handleMessageFanout: one query decides who gets a row: nobody who is *)
(* connected as it runs ...                                              *)
FanoutQuery(m) ==
  /\ job[m] = "queued"
  /\ job' = [job EXCEPT ![m] = "running"]
  /\ offline' \in {offline \ {m}, offline \cup {m}}
  /\ UNCHANGED <<tries, outbox, phones, drains, past>>

(* ... and one insert writes it, unless the dedupe key is there already. *)
FanoutInsert(m) ==
  /\ job[m] = "running"
  /\ job' = [job EXCEPT ![m] = "inserted"]
  /\ row' = IF m \in offline /\ row[m] = "absent" THEN [row EXCEPT ![m] = "pending"] ELSE row
  /\ offline' = offline \ {m}
  /\ UNCHANGED <<tries, attempts, lease, expired, phones, drains, past>>

(* The batch of jobs returns after its drain. *)
FanoutDone(m) ==
  /\ job[m] = "inserted"
  /\ job' = [job EXCEPT ![m] = "over"]
  /\ tries' = [tries EXCEPT ![m] = 0]
  /\ UNCHANGED <<offline, outbox, phones, drains, past>>

(* Mutant: the queue counts its retries one too far. *)
FanoutFailsOnceMore(m) ==
  /\ job[m] \in {"running", "inserted"}
  /\ IF tries[m] <= RetryLimit
     THEN job' = [job EXCEPT ![m] = "queued"] /\ tries' = [tries EXCEPT ![m] = @ + 1]
     ELSE job' = [job EXCEPT ![m] = "over"] /\ tries' = [tries EXCEPT ![m] = 0]
  /\ offline' = offline \ {m}
  /\ UNCHANGED <<outbox, phones, drains, past>>

(* The worker dies, or another job of the batch throws: the queue tries *)
(* again, a limited number of times.                                    *)
FanoutFails(m) ==
  /\ job[m] \in {"running", "inserted"}
  /\ IF tries[m] < RetryLimit
     THEN job' = [job EXCEPT ![m] = "queued"] /\ tries' = [tries EXCEPT ![m] = @ + 1]
     ELSE job' = [job EXCEPT ![m] = "over"] /\ tries' = [tries EXCEPT ![m] = 0]
  /\ offline' = offline \ {m}
  /\ UNCHANGED <<outbox, phones, drains, past>>

-----------------------------------------------------------------------------
(* Time: a claim grows older than a minute, a row outlives its use. *)

Holds(w, m) == m \in batch[w]

LeaseEnds(m) ==
  /\ row[m] = "pending"
  /\ lease[m] = "fresh"
  /\ lease' = [lease EXCEPT ![m] = "over"]
  /\ doubtful' = IF \E w \in Drain : Holds(w, m) THEN doubtful \cup {m} ELSE doubtful
  /\ UNCHANGED <<queue, row, attempts, expired, phones, drains, pushes, bare, faults>>

Expire(m) ==
  /\ row[m] = "pending"
  /\ m \notin expired
  /\ expired' = expired \cup {m}
  /\ UNCHANGED <<queue, row, attempts, lease, phones, drains, past>>

-----------------------------------------------------------------------------
(* The devices. *)

(* PUT /me/push, with the token the push service gave. *)
Register(d) ==
  /\ token[d] # valid[d]
  /\ token' = [token EXCEPT ![d] = valid[d]]
  /\ UNCHANGED <<queue, outbox, valid, drains, past>>

(* DELETE /me/push. *)
Unregister(d) ==
  /\ token[d] # 0
  /\ token' = [token EXCEPT ![d] = 0]
  /\ UNCHANGED <<queue, outbox, valid, drains, past>>

(* The push service replaces a token. *)
Rotate(d) ==
  /\ valid[d] < MaxTokens
  /\ valid' = [valid EXCEPT ![d] = @ + 1]
  /\ UNCHANGED <<queue, outbox, token, drains, past>>

-----------------------------------------------------------------------------
(* deliverPending. *)

Pending == {m \in Message : row[m] = "pending" /\ m \notin expired}

Take(w, S) ==
  /\ at[w] = "idle"
  /\ S # {}
  /\ attempts' = [m \in Message |-> IF m \in S THEN attempts[m] + 1 ELSE attempts[m]]
  /\ lease' = [m \in Message |-> IF m \in S THEN "fresh" ELSE lease[m]]
  /\ at' = [at EXCEPT ![w] = "claimed"]
  /\ batch' = [batch EXCEPT ![w] = S]
  /\ final' = [final EXCEPT ![w] = {m \in S : attempts[m] + 1 >= GiveUp}]
  /\ UNCHANGED <<queue, row, expired, phones, target, left, ok, bad, dead, past>>

(* Mutant: a claim does not outlive its statement. *)
ClaimLocked(w) == Take(w, Pending)

(* Mutant: a row is claimed once and for all. *)
ClaimOnce(w) == Take(w, {m \in Pending : lease[m] = "none"})

(* One statement claims what is pending and not claimed within a minute. *)
Claim(w) == Take(w, {m \in Pending : lease[m] # "fresh"})

ReadDevices(w) ==
  /\ at[w] = "claimed"
  /\ at' = [at EXCEPT ![w] = "sending"]
  /\ target' = [target EXCEPT ![w] = {t \in Token : token[t[1]] = t[2]}]
  /\ left' = [left EXCEPT ![w] = batch[w]]
  /\ UNCHANGED <<queue, outbox, phones, batch, final, ok, bad, dead, past>>

(* The variables of a call go with it. *)
Return(w) ==
  /\ at' = [at EXCEPT ![w] = "idle"]
  /\ batch' = [batch EXCEPT ![w] = {}]
  /\ final' = [final EXCEPT ![w] = {}]
  /\ target' = [target EXCEPT ![w] = {}]
  /\ left' = [left EXCEPT ![w] = {}]
  /\ ok' = [ok EXCEPT ![w] = {}]
  /\ bad' = [bad EXCEPT ![w] = {}]
  /\ dead' = [dead EXCEPT ![w] = {}]

Live(S) == {t \in S : valid[t[1]] = t[2]}

(* What the devices got of one round of a row, and whether the drain knows; *)
(* lost answers are bounded with the other faults.                          *)
Reaches(m, answered, lost) ==
  /\ pushes' = IF answered \cup lost # {} THEN [pushes EXCEPT ![m] = @ + 1] ELSE pushes
  /\ doubtful' = IF answered = {} /\ lost # {} THEN doubtful \cup {m} ELSE doubtful
  /\ lost # {} => faults < MaxFaults
  /\ faults' = IF lost = {} THEN faults ELSE faults + 1

(* Mutant: a row that no device took is settled at once. *)
SendOnce(w, m) ==
  /\ at[w] = "sending"
  /\ m \in left[w]
  /\ left' = [left EXCEPT ![w] = @ \ {m}]
  /\ \E reached \in SUBSET target[w] : \E lost \in SUBSET (Live(target[w]) \ reached) :
       /\ ok' = IF Live(reached) # {} THEN [ok EXCEPT ![w] = @ \cup {m}] ELSE ok
       /\ bad' = IF Live(reached) = {} THEN [bad EXCEPT ![w] = @ \cup {m}] ELSE bad
       /\ dead' = [dead EXCEPT ![w] = @ \cup (reached \ Live(reached))]
       /\ Reaches(m, Live(reached), lost)
  /\ bare' = IF target[w] = {} THEN bare \cup {m} ELSE bare
  /\ UNCHANGED <<queue, outbox, phones, at, batch, final, target>>

(* One row goes to every device; the service answers for those it reaches.  *)
(* It may take a push and not answer: an error of the request or ten         *)
(* seconds are a failure like any other.                                     *)
Send(w, m) ==
  /\ at[w] = "sending"
  /\ m \in left[w]
  /\ left' = [left EXCEPT ![w] = @ \ {m}]
  /\ \E reached \in SUBSET target[w] : \E lost \in SUBSET (Live(target[w]) \ reached) :
       /\ ok' = IF Live(reached) # {} THEN [ok EXCEPT ![w] = @ \cup {m}] ELSE ok
       /\ bad' = IF Live(reached) = {} /\ (m \in final[w] \/ target[w] = {})
                 THEN [bad EXCEPT ![w] = @ \cup {m}] ELSE bad
       /\ dead' = [dead EXCEPT ![w] = @ \cup (reached \ Live(reached))]
       /\ Reaches(m, Live(reached), lost)
  /\ bare' = IF target[w] = {} THEN bare \cup {m} ELSE bare
  /\ UNCHANGED <<queue, outbox, phones, at, batch, final, target>>

(* A send rejects; other devices of the row may have been reached. *)
SendThrows(w, m) ==
  /\ at[w] = "sending"
  /\ m \in left[w]
  /\ target[w] # {}
  /\ faults < MaxFaults
  /\ faults' = faults + 1
  /\ left' = [left EXCEPT ![w] = @ \ {m}]
  /\ \E n \in IF Live(target[w]) = {} THEN {0} ELSE {0, 1} : pushes' = [pushes EXCEPT ![m] = @ + n]
  /\ doubtful' = doubtful \cup {m}
  /\ UNCHANGED <<queue, outbox, phones, at, batch, final, target, ok, bad, dead, bare>>

SettleOk(w) ==
  /\ at[w] = "sending"
  /\ left[w] = {}
  /\ at' = [at EXCEPT ![w] = "settling"]
  /\ row' = [m \in Message |-> IF m \in ok[w] THEN "sent" ELSE row[m]]
  /\ UNCHANGED <<queue, attempts, lease, expired, phones, batch, final, target, left, ok, bad, dead, past>>

SettleFailed(w) ==
  /\ at[w] = "settling"
  /\ at' = [at EXCEPT ![w] = "clearing"]
  /\ row' = [m \in Message |-> IF m \in bad[w] THEN "failed" ELSE row[m]]
  /\ UNCHANGED <<queue, attempts, lease, expired, phones, batch, final, target, left, ok, bad, dead, past>>

(* Mutant: a dead token clears the device it was read from. *)
ClearDevices(w) ==
  /\ at[w] = "clearing"
  /\ Return(w)
  /\ token' = [d \in Device |-> IF \E t \in dead[w] : t[1] = d THEN 0 ELSE token[d]]
  /\ UNCHANGED <<queue, outbox, valid, past>>

(* Dead tokens are cleared where they still are. *)
ClearTokens(w) ==
  /\ at[w] = "clearing"
  /\ Return(w)
  /\ token' = [d \in Device |-> IF <<d, token[d]>> \in dead[w] THEN 0 ELSE token[d]]
  /\ UNCHANGED <<queue, outbox, valid, past>>

(* The worker dies, or a statement fails. *)
Crash(w) ==
  /\ at[w] # "idle"
  /\ faults < MaxFaults
  /\ faults' = faults + 1
  /\ Return(w)
  /\ doubtful' = doubtful \cup batch[w]
  /\ UNCHANGED <<queue, outbox, phones, pushes, bare>>

-----------------------------------------------------------------------------

Fanout(m)  == Enqueue(m) \/ FanoutQuery(m) \/ FanoutInsert(m) \/ FanoutDone(m) \/ FanoutFails(m)
Phone(d)   == Register(d) \/ Unregister(d) \/ Rotate(d)
Deliver(w) == \/ Claim(w) \/ ReadDevices(w) \/ SettleOk(w) \/ SettleFailed(w) \/ ClearTokens(w)
              \/ \E m \in Message : Send(w, m)
Fault(w)   == Crash(w) \/ \E m \in Message : SendThrows(w, m)

Next == \/ \E m \in Message : Fanout(m) \/ LeaseEnds(m) \/ Expire(m)
        \/ \E d \in Device : Phone(d)
        \/ \E w \in Drain : Deliver(w) \/ Fault(w)

(* The cron starts a drain every minute, some drain that can go on does,   *)
(* and time passes.  A drain that hangs for ever is allowed for.           *)
Fairness == /\ WF_vars(\E w \in Drain : Deliver(w))
            /\ \A m \in Message : WF_vars(LeaseEnds(m))

Spec == Init /\ [][Next]_vars /\ Fairness

-----------------------------------------------------------------------------
(* Properties. *)

(* A notification goes out to the user's devices in one round only, unless *)
(* a drain held its row for over a minute, threw or crashed, or the push   *)
(* service took it and its answer was lost: whatever drains overlap, and   *)
(* however often the fan-out is repeated (push.ts deliverPending's claim,  *)
(* handleMessageFanout's dedupe key).                                      *)
PushedOnce == \A m \in Message \ doubtful : pushes[m] <= 1

(* A row is settled only when some device took it, when GiveUp attempts    *)
(* have been made, or when a drain found no device with a token; also when *)
(* two drains with old claims settle it after each other (push.ts          *)
(* deliverPending).                                                        *)
NothingDropped ==
  \A m \in Message : row[m] \in {"sent", "failed"} =>
    pushes[m] > 0 \/ attempts[m] >= GiveUp \/ m \in bare

(* What the outbox says of a row is what happened: a sent row was pushed,  *)
(* and, unless a drain was too slow, threw, crashed or missed an answer,   *)
(* it was pushed once and a failed row not at all (push.ts deliverPending, *)
(* settledOk and settledFailed).                                           *)
HonestVerdicts ==
  \A m \in Message :
    /\ row[m] = "sent" => pushes[m] > 0
    /\ row[m] = "sent" /\ m \notin doubtful => pushes[m] = 1
    /\ row[m] = "failed" /\ m \notin doubtful => pushes[m] = 0

(* A settled row is never pending again; only a drain with an old claim    *)
(* may still turn one verdict into the other.                              *)
SettledForGood ==
  [][\A m \in Message : row[m] \in {"sent", "failed"} =>
       /\ row'[m] \in {"sent", "failed"}
       /\ m \notin doubtful => row'[m] = row[m]]_vars

(* A token the push service accepts is lost only when its device gives it  *)
(* up: a drain that learns of a dead token clears that token, not the one  *)
(* the device has registered since (push.ts deliverPending).               *)
LiveTokenKept ==
  [][\A d \in Device : token[d] = valid[d] /\ token'[d] # token[d] => Unregister(d)]_vars

(* Every row is settled or expires, after drains that fail, throw or crash *)
(* (push.ts deliverPending, main.ts cron.push_drain).                      *)
EverySettles == \A m \in Message : row[m] = "pending" ~> row[m] # "pending" \/ m \in expired

=============================================================================
