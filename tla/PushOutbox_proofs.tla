-------------------------- MODULE PushOutbox_proofs --------------------------
(***************************************************************************)
(* Theorems about the push outbox, for every set of messages, drains and   *)
(* devices and every bound.                                                *)
(*                                                                         *)
(* The properties rest on three relations.  What a drain says of a row it  *)
(* settles was true of the row (VerdictInv).  A token on a drain's list is *)
(* not newer than the one the push service accepts, and one on its dead    *)
(* list is older (TokenInv).  A row about which nothing went wrong is held *)
(* by one drain at most, which finds it pending and not yet pushed         *)
(* (HolderInv, BatchInv, OnceInv).  What the row says in the end is true   *)
(* because its drain's lists are (TruthInv).                               *)
(***************************************************************************)
EXTENDS PushOutbox, TLAPS

VerdictInv ==
  \A w \in Drain, m \in Message :
    /\ m \in ok[w] => pushes[m] > 0
    /\ m \in final[w] => attempts[m] >= GiveUp
    /\ m \in bad[w] => attempts[m] >= GiveUp \/ m \in bare

TokenInv ==
  /\ \A d \in Device : token[d] <= valid[d]
  /\ \A w \in Drain : \A t \in target[w] : t[2] <= valid[t[1]]
  /\ \A w \in Drain : \A t \in dead[w] : t[2] < valid[t[1]]

BatchInv ==
  \A w \in Drain :
    /\ ok[w] \subseteq batch[w] /\ bad[w] \subseteq batch[w] /\ left[w] \subseteq batch[w]
    /\ ok[w] \cap left[w] = {}
    /\ at[w] = "idle" => batch[w] = {}
    /\ at[w] = "claimed" => ok[w] = {} /\ bad[w] = {} /\ left[w] = {}
    /\ \A m \in batch[w] : row[m] # "absent"

HolderInv ==
  \A m \in Message \ doubtful : \A w \in Drain :
    m \in batch[w] =>
      /\ \A v \in Drain : m \in batch[v] => v = w
      /\ row[m] = "pending" => lease[m] = "fresh"
      /\ at[w] \in {"claimed", "sending"} => row[m] = "pending"

OnceInv ==
  \A m \in Message \ doubtful :
    /\ pushes[m] <= 1
    /\ pushes[m] = 1 => \/ row[m] \in {"sent", "failed"}
                        \/ \E w \in Drain : at[w] = "sending" /\ m \in ok[w]

IInv == /\ TypeOK /\ NothingDropped
        /\ VerdictInv /\ TokenInv /\ BatchInv /\ HolderInv /\ OnceInv

-----------------------------------------------------------------------------
(* The queue and the fan-out.                                              *)

LEMMA InitInv ==
  ASSUME Init
  PROVE  IInv
<1>1. TypeOK
  BY BoundAssumption DEF Init, TypeOK
<1>2. NothingDropped /\ VerdictInv /\ TokenInv
  BY DEF Init, NothingDropped, VerdictInv, TokenInv
<1>3. BatchInv /\ HolderInv /\ OnceInv
  BY DEF Init, BatchInv, HolderInv, OnceInv
<1> QED
  BY <1>1, <1>2, <1>3 DEF IInv

(* What touches neither rows, tokens nor drains.                           *)
LEMMA Apart ==
  ASSUME IInv, TypeOK', UNCHANGED <<row, attempts, lease, phones, drains, past>>
  PROVE  IInv'
<1>1. NothingDropped' /\ VerdictInv' /\ TokenInv'
  BY DEF IInv, NothingDropped, VerdictInv, TokenInv, phones, drains, past
<1>2. BatchInv' /\ HolderInv' /\ OnceInv'
  BY DEF IInv, BatchInv, HolderInv, OnceInv, drains, past
<1> QED
  BY <1>1, <1>2 DEF IInv

LEMMA QueueStep ==
  ASSUME IInv, NEW m \in Message,
         Enqueue(m) \/ FanoutQuery(m) \/ FanoutDone(m) \/ FanoutFails(m) \/ Expire(m)
  PROVE  IInv'
<1>1. TypeOK'
  <2>1. CASE Enqueue(m)
    BY <2>1 DEF IInv, TypeOK, Enqueue, outbox, phones, drains, past
  <2>2. CASE FanoutQuery(m)
    BY <2>2 DEF IInv, TypeOK, FanoutQuery, outbox, phones, drains, past
  <2>3. CASE FanoutDone(m)
    BY <2>3, BoundAssumption DEF IInv, TypeOK, FanoutDone, outbox, phones, drains, past
  <2>4. CASE FanoutFails(m)
    <3>1. job' \in [Message -> {"none", "queued", "running", "inserted", "over"}]
      BY SMTT(30), <2>4 DEF IInv, TypeOK, FanoutFails
    <3>2. tries' \in [Message -> 0..RetryLimit]
      BY <2>4, BoundAssumption DEF IInv, TypeOK, FanoutFails
    <3> QED
      BY <2>4, <3>1, <3>2 DEF IInv, TypeOK, FanoutFails, outbox, phones, drains, past
  <2>5. CASE Expire(m)
    BY <2>5 DEF IInv, TypeOK, Expire, queue, phones, drains, past
  <2> QED
    BY <2>1, <2>2, <2>3, <2>4, <2>5
<1>2. UNCHANGED <<row, attempts, lease, phones, drains, past>>
  BY DEF Enqueue, FanoutQuery, FanoutDone, FanoutFails, Expire, outbox, queue
<1> QED
  BY <1>1, <1>2, Apart

(* A row that appears is one no drain holds and nobody has pushed.         *)
LEMMA FanoutInsertStep ==
  ASSUME IInv, NEW m \in Message, FanoutInsert(m)
  PROVE  IInv'
<1>1. TypeOK'
  BY DEF IInv, TypeOK, FanoutInsert, phones, drains, past
<1>2. \A n \in Message : row'[n] = row[n] \/ (row[n] = "absent" /\ row'[n] = "pending")
  BY DEF IInv, TypeOK, FanoutInsert
<1>3. UNCHANGED <<attempts, lease, phones, drains, past>>
  BY DEF FanoutInsert
<1>4. NothingDropped' /\ VerdictInv' /\ TokenInv'
  BY <1>2, <1>3 DEF IInv, NothingDropped, VerdictInv, TokenInv, phones, drains, past
<1>5. BatchInv'
  BY <1>2, <1>3 DEF IInv, TypeOK, BatchInv, drains
<1>6. HolderInv'
  BY <1>2, <1>3 DEF IInv, TypeOK, BatchInv, HolderInv, drains, past
<1>7. OnceInv'
  <2> SUFFICES ASSUME NEW n \in Message \ doubtful
               PROVE  /\ pushes[n] <= 1
                      /\ pushes[n] = 1 => \/ row'[n] \in {"sent", "failed"}
                                          \/ \E w \in Drain : at[w] = "sending" /\ n \in ok[w]
    BY <1>3 DEF OnceInv, drains, past
  <2> QED
    BY <1>2 DEF IInv, OnceInv
<1> QED
  BY <1>1, <1>4, <1>5, <1>6, <1>7 DEF IInv

(* A claim that grows old puts its row in doubt when a drain still has it. *)
LEMMA LeaseEndsStep ==
  ASSUME IInv, NEW m \in Message, LeaseEnds(m)
  PROVE  IInv'
<1>1. TypeOK'
  BY DEF IInv, TypeOK, LeaseEnds, queue, phones, drains
<1>2. NothingDropped' /\ VerdictInv' /\ TokenInv' /\ BatchInv'
  BY DEF IInv, NothingDropped, VerdictInv, TokenInv, BatchInv, LeaseEnds, phones, drains
<1>3. HolderInv'
  BY DEF IInv, TypeOK, HolderInv, LeaseEnds, Holds, drains
<1>4. OnceInv'
  BY DEF IInv, OnceInv, LeaseEnds, drains
<1> QED
  BY <1>1, <1>2, <1>3, <1>4 DEF IInv

-----------------------------------------------------------------------------
(* The devices.                                                            *)

LEMMA PhoneStep ==
  ASSUME IInv, NEW d \in Device, Phone(d)
  PROVE  IInv'
<1>1. /\ token' \in [Device -> 0..MaxTokens] /\ valid' \in [Device -> 1..MaxTokens]
      /\ \A e \in Device : token'[e] <= valid'[e] /\ valid[e] <= valid'[e]
  <2>1. CASE Register(d)
    BY <2>1, BoundAssumption DEF IInv, TypeOK, TokenInv, Register
  <2>2. CASE Unregister(d)
    BY <2>2, BoundAssumption DEF IInv, TypeOK, TokenInv, Unregister
  <2>3. CASE Rotate(d)
    BY <2>3, BoundAssumption DEF IInv, TypeOK, TokenInv, Rotate
  <2> QED
    BY <2>1, <2>2, <2>3 DEF Phone
<1>2. UNCHANGED <<queue, outbox, drains, past>>
  BY DEF Phone, Register, Unregister, Rotate
<1>3. TypeOK'
  BY <1>1, <1>2 DEF IInv, TypeOK, queue, outbox, drains, past
<1>4. TokenInv'
  <2>1. \A w \in Drain : target[w] \subseteq Token /\ dead[w] \subseteq Token
    BY DEF IInv, TypeOK
  <2>2. \A t \in Token : t[1] \in Device /\ t[2] \in Nat
    BY DEF Token
  <2>3. \A e \in Device : valid[e] \in Nat /\ valid'[e] \in Nat
    BY <1>1, BoundAssumption DEF IInv, TypeOK
  <2>4. \A t \in Token : /\ t[2] <= valid[t[1]] => t[2] <= valid'[t[1]]
                         /\ t[2] < valid[t[1]] => t[2] < valid'[t[1]]
    BY <1>1, <2>2, <2>3
  <2> QED
    BY <1>1, <1>2, <2>1, <2>4 DEF IInv, TokenInv, drains
<1>5. NothingDropped' /\ VerdictInv' /\ BatchInv' /\ HolderInv' /\ OnceInv'
  BY <1>2 DEF IInv, NothingDropped, VerdictInv, BatchInv, HolderInv, OnceInv, outbox, drains, past
<1> QED
  BY <1>3, <1>4, <1>5 DEF IInv

-----------------------------------------------------------------------------
(* The drains.                                                             *)

LEMMA ClaimStep ==
  ASSUME IInv, NEW w \in Drain, Claim(w)
  PROVE  IInv'
<1> DEFINE S == {m \in Pending : lease[m] # "fresh"}
<1>1. /\ at[w] = "idle"
      /\ attempts' = [m \in Message |-> IF m \in S THEN attempts[m] + 1 ELSE attempts[m]]
      /\ lease' = [m \in Message |-> IF m \in S THEN "fresh" ELSE lease[m]]
      /\ at' = [at EXCEPT ![w] = "claimed"]
      /\ batch' = [batch EXCEPT ![w] = S]
      /\ final' = [final EXCEPT ![w] = {m \in S : attempts[m] + 1 >= GiveUp}]
      /\ UNCHANGED <<queue, row, expired, phones, target, left, ok, bad, dead, past>>
  BY DEF Claim, Take
<1>2. \A m \in S : m \in Message /\ row[m] = "pending" /\ lease[m] # "fresh"
  BY DEF Pending
<1> HIDE DEF S
<1>3. \A m \in Message : attempts[m] \in Nat /\ attempts'[m] \in Nat /\ attempts[m] <= attempts'[m]
  BY <1>1 DEF IInv, TypeOK
<1>4. TypeOK'
  BY <1>1, <1>2, <1>3 DEF IInv, TypeOK, queue, phones, past
<1>5. NothingDropped' /\ VerdictInv'
  <2>1. NothingDropped'
    BY <1>1, <1>3, GiveUpAssumption DEF IInv, NothingDropped, past
  <2>2. \A m \in Message : m \in final'[w] => attempts'[m] >= GiveUp
    BY <1>1 DEF IInv, TypeOK
  <2>3. \A v \in Drain, m \in Message : m \in final'[v] => attempts'[m] >= GiveUp
    BY <1>1, <1>3, <2>2, GiveUpAssumption DEF IInv, TypeOK, VerdictInv
  <2>4. \A v \in Drain, m \in Message : m \in bad'[v] => attempts'[m] >= GiveUp \/ m \in bare'
    BY <1>1, <1>3, GiveUpAssumption DEF IInv, VerdictInv, past
  <2> QED
    BY <1>1, <2>1, <2>3, <2>4 DEF IInv, VerdictInv, past
<1>6. TokenInv'
  BY <1>1 DEF IInv, TokenInv, phones
<1>7. BatchInv'
  BY <1>1, <1>2 DEF IInv, TypeOK, BatchInv
<1>8. HolderInv'
  BY <1>1, <1>2 DEF IInv, TypeOK, BatchInv, HolderInv, past
<1>9. OnceInv'
  <2> SUFFICES ASSUME NEW m \in Message \ doubtful
               PROVE  /\ pushes[m] <= 1
                      /\ pushes[m] = 1 => \/ row[m] \in {"sent", "failed"}
                                          \/ \E v \in Drain : at'[v] = "sending" /\ m \in ok[v]
    BY <1>1 DEF OnceInv, past
  <2>1. ASSUME NEW v \in Drain, at[v] = "sending"
        PROVE  at'[v] = "sending"
    BY <1>1, <2>1 DEF IInv, TypeOK
  <2> QED
    BY <2>1 DEF IInv, OnceInv
<1> QED
  BY <1>4, <1>5, <1>6, <1>7, <1>8, <1>9 DEF IInv

LEMMA ReadDevicesStep ==
  ASSUME IInv, NEW w \in Drain, ReadDevices(w)
  PROVE  IInv'
<1> DEFINE T == {t \in Token : token[t[1]] = t[2]}
<1>1. /\ at[w] = "claimed"
      /\ at' = [at EXCEPT ![w] = "sending"]
      /\ target' = [target EXCEPT ![w] = T]
      /\ left' = [left EXCEPT ![w] = batch[w]]
      /\ UNCHANGED <<queue, outbox, phones, batch, final, ok, bad, dead, past>>
  BY DEF ReadDevices
<1>2. T \subseteq Token /\ \A t \in T : t[1] \in Device /\ t[2] = token[t[1]]
  BY DEF Token
<1> HIDE DEF T
<1>3. TypeOK'
  BY <1>1, <1>2 DEF IInv, TypeOK, queue, outbox, phones, past
<1>4. NothingDropped' /\ VerdictInv'
  BY <1>1 DEF IInv, NothingDropped, VerdictInv, outbox, past
<1>5. TokenInv'
  <2>1. \A t \in T : t[2] <= valid[t[1]]
    BY <1>2 DEF IInv, TokenInv
  <2> QED
    BY <1>1, <2>1 DEF IInv, TypeOK, TokenInv, phones
<1>6. BatchInv' /\ HolderInv'
  BY <1>1 DEF IInv, TypeOK, BatchInv, HolderInv, outbox, past
<1>7. OnceInv'
  BY <1>1 DEF IInv, TypeOK, BatchInv, OnceInv, outbox, past
<1> QED
  BY <1>3, <1>4, <1>5, <1>6, <1>7 DEF IInv

(* The drain that pushes a row without doubt is the first to do so.        *)
LEMMA Unpushed ==
  ASSUME IInv, NEW w \in Drain, NEW m \in Message \ doubtful,
         at[w] = "sending", m \in left[w]
  PROVE  pushes[m] = 0
<1>1. m \in batch[w] /\ m \notin ok[w]
  BY DEF IInv, BatchInv
<1>2. row[m] = "pending"
  BY <1>1 DEF IInv, HolderInv
<1>3. \A v \in Drain : m \in ok[v] => v = w
  BY <1>1 DEF IInv, BatchInv, HolderInv
<1>4. pushes[m] # 1
  BY <1>1, <1>2, <1>3 DEF IInv, OnceInv
<1> QED
  BY <1>4 DEF IInv, TypeOK, OnceInv

LEMMA SendStep ==
  ASSUME IInv, NEW w \in Drain, NEW m \in Message, Send(w, m)
  PROVE  IInv'
<1> DEFINE dud(R) == R \ Live(R)
<1>1. PICK reached \in SUBSET target[w], lost \in SUBSET target[w] :
        /\ ok' = IF Live(reached) # {} THEN [ok EXCEPT ![w] = @ \cup {m}] ELSE ok
        /\ bad' = IF Live(reached) = {} /\ (m \in final[w] \/ target[w] = {})
                  THEN [bad EXCEPT ![w] = @ \cup {m}] ELSE bad
        /\ dead' = [dead EXCEPT ![w] = @ \cup dud(reached)]
        /\ pushes' = IF Live(reached) \cup lost # {} THEN [pushes EXCEPT ![m] = @ + 1] ELSE pushes
        /\ doubtful' = IF Live(reached) = {} /\ lost # {} THEN doubtful \cup {m} ELSE doubtful
        /\ faults' \in 0..MaxFaults
  <2>1. PICK reached \in SUBSET target[w], lost \in SUBSET target[w] :
          /\ ok' = IF Live(reached) # {} THEN [ok EXCEPT ![w] = @ \cup {m}] ELSE ok
          /\ bad' = IF Live(reached) = {} /\ (m \in final[w] \/ target[w] = {})
                    THEN [bad EXCEPT ![w] = @ \cup {m}] ELSE bad
          /\ dead' = [dead EXCEPT ![w] = @ \cup dud(reached)]
          /\ Reaches(m, Live(reached), lost)
    BY DEF Send, Live
  <2>2. faults' \in 0..MaxFaults
    BY <2>1, BoundAssumption DEF IInv, TypeOK, Reaches
  <2> QED
    BY <2>1, <2>2 DEF Reaches
<1>2. /\ at[w] = "sending" /\ m \in left[w]
      /\ left' = [left EXCEPT ![w] = @ \ {m}]
      /\ bare' = IF target[w] = {} THEN bare \cup {m} ELSE bare
      /\ UNCHANGED <<queue, outbox, phones, at, batch, final, target>>
  BY DEF Send
<1>3. dud(reached) \subseteq target[w] /\ \A t \in dud(reached) : valid[t[1]] # t[2]
  BY DEF Live
<1> DEFINE D == dud(reached)
<1> HIDE DEF D, dud
<1>4. TypeOK'
  <2>1. ok' \in [Drain -> SUBSET Message] /\ bad' \in [Drain -> SUBSET Message]
    BY <1>1 DEF IInv, TypeOK
  <2>2. dead' \in [Drain -> SUBSET Token]
    BY <1>1, <1>3 DEF IInv, TypeOK
  <2>3. pushes' \in [Message -> Nat] /\ bare' \in SUBSET Message /\ doubtful' \in SUBSET Message
    BY <1>1, <1>2 DEF IInv, TypeOK
  <2> QED
    BY <1>1, <1>2, <2>1, <2>2, <2>3 DEF IInv, TypeOK, queue, outbox, phones
<1>5. \A n \in Message : pushes[n] \in Nat /\ pushes'[n] \in Nat /\ pushes[n] <= pushes'[n]
  BY <1>1 DEF IInv, TypeOK
<1>6. bare \subseteq bare'
  BY <1>2
<1>7. NothingDropped'
  BY <1>2, <1>5, <1>6 DEF IInv, NothingDropped, outbox
<1>8. VerdictInv'
  <2> SUFFICES ASSUME NEW v \in Drain, NEW n \in Message
               PROVE  /\ n \in ok'[v] => pushes'[n] > 0
                      /\ n \in final'[v] => attempts'[n] >= GiveUp
                      /\ n \in bad'[v] => attempts'[n] >= GiveUp \/ n \in bare'
    BY DEF VerdictInv
  <2>1. n \in ok'[v] => n \in ok[v] \/ (n = m /\ Live(reached) # {})
    BY <1>1 DEF IInv, TypeOK
  <2>2. Live(reached) # {} => pushes'[m] > 0
    BY <1>1 DEF IInv, TypeOK
  <2>3. n \in bad'[v] => n \in bad[v] \/ (n = m /\ (m \in final[w] \/ target[w] = {}))
    BY <1>1 DEF IInv, TypeOK
  <2>4. n \in ok[v] => pushes[n] > 0
    BY DEF IInv, VerdictInv
  <2>5. n \in ok'[v] => pushes'[n] > 0
    BY <1>5, <2>1, <2>2, <2>4
  <2>6. n \in bad'[v] => attempts'[n] >= GiveUp \/ n \in bare'
    BY <1>2, <2>3 DEF IInv, VerdictInv, outbox
  <2> QED
    BY <1>2, <2>5, <2>6 DEF IInv, VerdictInv, outbox
<1>9. TokenInv'
  <2>1. \A t \in target[w] : t[2] <= valid[t[1]] /\ t[1] \in Device /\ t[2] \in Nat
    BY DEF IInv, TypeOK, TokenInv, Token
  <2>2. \A d \in Device : valid[d] \in Nat
    BY BoundAssumption DEF IInv, TypeOK
  <2>3. \A t \in dud(reached) : t[2] < valid[t[1]]
    BY <1>3, <2>1, <2>2
  <2> QED
    BY <1>1, <1>2, <2>3 DEF IInv, TypeOK, TokenInv, phones
<1>10. BatchInv'
  BY <1>1, <1>2 DEF IInv, TypeOK, BatchInv, outbox
<1>11. HolderInv'
  BY <1>1, <1>2 DEF IInv, HolderInv, outbox
<1>12. OnceInv'
  <2> SUFFICES ASSUME NEW n \in Message \ doubtful'
               PROVE  /\ pushes'[n] <= 1
                      /\ pushes'[n] = 1 => \/ row[n] \in {"sent", "failed"}
                                           \/ \E v \in Drain : at[v] = "sending" /\ n \in ok'[v]
    BY <1>2 DEF OnceInv, outbox
  <2>1. n \notin doubtful /\ \A v \in Drain : ok[v] \subseteq ok'[v]
    BY <1>1 DEF IInv, TypeOK
  <2>2. CASE n = m /\ Live(reached) # {}
    <3>1. pushes'[n] = 1
      BY <1>1, <1>2, <2>1, <2>2, Unpushed DEF IInv, TypeOK
    <3>2. n \in ok'[w]
      BY <1>1, <2>2 DEF IInv, TypeOK
    <3> QED
      BY <1>2, <3>1, <3>2
  <2>3. CASE ~(n = m /\ Live(reached) # {})
    <3>1. pushes'[n] = pushes[n]
      BY <1>1, <2>3 DEF IInv, TypeOK
    <3> QED
      BY <2>1, <3>1 DEF IInv, OnceInv
  <2> QED
    BY <2>2, <2>3
<1> QED
  BY <1>4, <1>7, <1>8, <1>9, <1>10, <1>11, <1>12 DEF IInv

LEMMA SendThrowsStep ==
  ASSUME IInv, NEW w \in Drain, NEW m \in Message, SendThrows(w, m)
  PROVE  IInv'
<1>1. /\ left' = [left EXCEPT ![w] = @ \ {m}]
      /\ faults < MaxFaults /\ faults' = faults + 1
      /\ doubtful' = doubtful \cup {m}
      /\ UNCHANGED <<queue, outbox, phones, at, batch, final, target, ok, bad, dead, bare>>
  BY DEF SendThrows
<1>2. PICK n \in {0, 1} : pushes' = [pushes EXCEPT ![m] = @ + n]
  BY DEF SendThrows
<1>3. pushes' \in [Message -> Nat] /\ \A k \in Message : pushes[k] \in Nat /\ pushes[k] <= pushes'[k]
  BY <1>2 DEF IInv, TypeOK
<1>4. TypeOK'
  BY <1>1, <1>3, BoundAssumption DEF IInv, TypeOK, queue, outbox, phones
<1>5. NothingDropped' /\ VerdictInv'
  <2>1. NothingDropped'
    BY <1>1, <1>3 DEF IInv, NothingDropped, outbox
  <2>2. \A v \in Drain, k \in Message : k \in ok[v] => pushes'[k] > 0
    BY <1>3 DEF IInv, VerdictInv
  <2> QED
    BY <1>1, <2>1, <2>2 DEF IInv, VerdictInv, outbox
<1>6. TokenInv' /\ BatchInv' /\ HolderInv'
  BY <1>1 DEF IInv, TypeOK, TokenInv, BatchInv, HolderInv, outbox, phones
<1>7. OnceInv'
  <2>1. \A k \in Message \ doubtful' : k \in Message \ doubtful /\ pushes'[k] = pushes[k]
    BY <1>1, <1>2 DEF IInv, TypeOK
  <2> QED
    BY <1>1, <2>1 DEF IInv, OnceInv, outbox
<1> QED
  BY <1>4, <1>5, <1>6, <1>7 DEF IInv

(* Settling: the rows of one list change, and only the drain's own.        *)
LEMMA SettleOkStep ==
  ASSUME IInv, NEW w \in Drain, SettleOk(w)
  PROVE  IInv'
<1>1. /\ at[w] = "sending" /\ left[w] = {}
      /\ at' = [at EXCEPT ![w] = "settling"]
      /\ row' = [m \in Message |-> IF m \in ok[w] THEN "sent" ELSE row[m]]
      /\ UNCHANGED <<queue, attempts, lease, expired, phones, batch, final, target, left, ok, bad, dead, past>>
  BY DEF SettleOk
<1>2. TypeOK'
  BY <1>1 DEF IInv, TypeOK, queue, phones, past
<1>3. NothingDropped' /\ VerdictInv' /\ TokenInv'
  BY <1>1 DEF IInv, NothingDropped, VerdictInv, TokenInv, phones, past
<1>4. BatchInv'
  BY <1>1 DEF IInv, TypeOK, BatchInv
<1>5. HolderInv'
  <2> SUFFICES ASSUME NEW m \in Message \ doubtful, NEW v \in Drain, m \in batch[v]
               PROVE  /\ \A u \in Drain : m \in batch[u] => u = v
                      /\ row'[m] = "pending" => lease[m] = "fresh"
                      /\ at'[v] \in {"claimed", "sending"} => row'[m] = "pending"
    BY <1>1 DEF HolderInv, past
  <2>1. /\ \A u \in Drain : m \in batch[u] => u = v
        /\ row[m] = "pending" => lease[m] = "fresh"
        /\ at[v] \in {"claimed", "sending"} => row[m] = "pending"
    BY DEF IInv, HolderInv
  <2>2. m \in ok[w] => v = w
    BY <2>1 DEF IInv, BatchInv
  <2>3. at'[v] = IF v = w THEN "settling" ELSE at[v]
    BY <1>1 DEF IInv, TypeOK
  <2> QED
    BY <1>1, <2>1, <2>2, <2>3
<1>6. OnceInv'
  <2> SUFFICES ASSUME NEW m \in Message \ doubtful
               PROVE  /\ pushes[m] <= 1
                      /\ pushes[m] = 1 => \/ row'[m] \in {"sent", "failed"}
                                          \/ \E v \in Drain : at'[v] = "sending" /\ m \in ok[v]
    BY <1>1 DEF OnceInv, past
  <2>1. \A v \in Drain : v # w => at'[v] = at[v]
    BY <1>1 DEF IInv, TypeOK
  <2> QED
    BY <1>1, <2>1 DEF IInv, OnceInv
<1> QED
  BY <1>2, <1>3, <1>4, <1>5, <1>6 DEF IInv

LEMMA SettleFailedStep ==
  ASSUME IInv, NEW w \in Drain, SettleFailed(w)
  PROVE  IInv'
<1>1. /\ at[w] = "settling"
      /\ at' = [at EXCEPT ![w] = "clearing"]
      /\ row' = [m \in Message |-> IF m \in bad[w] THEN "failed" ELSE row[m]]
      /\ UNCHANGED <<queue, attempts, lease, expired, phones, batch, final, target, left, ok, bad, dead, past>>
  BY DEF SettleFailed
<1>2. TypeOK'
  BY <1>1 DEF IInv, TypeOK, queue, phones, past
<1>3. NothingDropped' /\ VerdictInv' /\ TokenInv'
  BY <1>1 DEF IInv, NothingDropped, VerdictInv, TokenInv, phones, past
<1>4. BatchInv'
  BY <1>1 DEF IInv, TypeOK, BatchInv
<1>5. HolderInv'
  <2> SUFFICES ASSUME NEW m \in Message \ doubtful, NEW v \in Drain, m \in batch[v]
               PROVE  /\ \A u \in Drain : m \in batch[u] => u = v
                      /\ row'[m] = "pending" => lease[m] = "fresh"
                      /\ at'[v] \in {"claimed", "sending"} => row'[m] = "pending"
    BY <1>1 DEF HolderInv, past
  <2>1. /\ \A u \in Drain : m \in batch[u] => u = v
        /\ row[m] = "pending" => lease[m] = "fresh"
        /\ at[v] \in {"claimed", "sending"} => row[m] = "pending"
    BY DEF IInv, HolderInv
  <2>2. m \in bad[w] => v = w
    BY <2>1 DEF IInv, BatchInv
  <2>3. at'[v] = IF v = w THEN "clearing" ELSE at[v]
    BY <1>1 DEF IInv, TypeOK
  <2> QED
    BY <1>1, <2>1, <2>2, <2>3
<1>6. OnceInv'
  <2> SUFFICES ASSUME NEW m \in Message \ doubtful
               PROVE  /\ pushes[m] <= 1
                      /\ pushes[m] = 1 => \/ row'[m] \in {"sent", "failed"}
                                          \/ \E v \in Drain : at'[v] = "sending" /\ m \in ok[v]
    BY <1>1 DEF OnceInv, past
  <2>1. \A v \in Drain : at[v] = "sending" => at'[v] = "sending"
    BY <1>1 DEF IInv, TypeOK
  <2> QED
    BY <1>1, <2>1 DEF IInv, OnceInv
<1> QED
  BY <1>2, <1>3, <1>4, <1>5, <1>6 DEF IInv

-----------------------------------------------------------------------------
(* The end of a drain.                                                     *)

LEMMA Returns ==
  ASSUME IInv, NEW w \in Drain, Return(w), UNCHANGED <<queue, outbox, valid, pushes, bare>>,
         token' \in [Device -> 0..MaxTokens], \A d \in Device : token'[d] <= valid[d],
         faults' \in 0..MaxFaults, doubtful' \in SUBSET Message, doubtful \subseteq doubtful',
         at[w] = "sending" => batch[w] \subseteq doubtful'
  PROVE  IInv'
<1>1. TypeOK'
  BY DEF IInv, TypeOK, Return, queue, outbox
<1>2. \A v \in Drain : /\ ok'[v] = IF v = w THEN {} ELSE ok[v]
                       /\ bad'[v] = IF v = w THEN {} ELSE bad[v]
                       /\ left'[v] = IF v = w THEN {} ELSE left[v]
                       /\ final'[v] = IF v = w THEN {} ELSE final[v]
                       /\ batch'[v] = IF v = w THEN {} ELSE batch[v]
                       /\ target'[v] = IF v = w THEN {} ELSE target[v]
                       /\ dead'[v] = IF v = w THEN {} ELSE dead[v]
                       /\ at'[v] = IF v = w THEN "idle" ELSE at[v]
  BY DEF IInv, TypeOK, Return
<1>3. NothingDropped' /\ VerdictInv' /\ TokenInv' /\ BatchInv'
  BY <1>2 DEF IInv, NothingDropped, VerdictInv, TokenInv, BatchInv, outbox
<1>4. HolderInv'
  BY <1>2 DEF IInv, HolderInv, outbox
<1>5. OnceInv'
  <2> SUFFICES ASSUME NEW m \in Message \ doubtful'
               PROVE  /\ pushes[m] <= 1
                      /\ pushes[m] = 1 => \/ row[m] \in {"sent", "failed"}
                                          \/ \E v \in Drain : at'[v] = "sending" /\ m \in ok'[v]
    BY DEF OnceInv, outbox
  <2>1. at[w] = "sending" => m \notin ok[w]
    BY DEF IInv, BatchInv
  <2> QED
    BY <1>2, <2>1 DEF IInv, OnceInv
<1> QED
  BY <1>1, <1>3, <1>4, <1>5 DEF IInv

LEMMA ClearTokensStep ==
  ASSUME IInv, NEW w \in Drain, ClearTokens(w)
  PROVE  IInv'
<1>1. \A d \in Device : token'[d] \in {0, token[d]}
  BY DEF ClearTokens
<1>2. token' \in [Device -> 0..MaxTokens] /\ \A d \in Device : token'[d] <= valid[d]
  BY <1>1, BoundAssumption DEF IInv, TypeOK, TokenInv, ClearTokens
<1>3. /\ at[w] # "sending" /\ Return(w)
      /\ UNCHANGED <<queue, outbox, valid, pushes, bare, faults, doubtful>>
  BY DEF ClearTokens, past
<1> QED
  BY <1>2, <1>3, Returns DEF IInv, TypeOK

LEMMA CrashStep ==
  ASSUME IInv, NEW w \in Drain, Crash(w)
  PROVE  IInv'
<1>1. faults' \in 0..MaxFaults /\ doubtful' \in SUBSET Message
  BY BoundAssumption DEF IInv, TypeOK, Crash
<1>2. /\ doubtful \subseteq doubtful' /\ batch[w] \subseteq doubtful'
      /\ Return(w) /\ UNCHANGED <<queue, outbox, token, valid, pushes, bare>>
  BY DEF Crash, phones
<1> QED
  BY <1>1, <1>2, Returns DEF IInv, TypeOK, TokenInv

-----------------------------------------------------------------------------

LEMMA NextStep ==
  ASSUME IInv, Next
  PROVE  IInv'
<1>1. ASSUME NEW m \in Message, Fanout(m) \/ LeaseEnds(m) \/ Expire(m)
      PROVE  IInv'
  BY <1>1, QueueStep, FanoutInsertStep, LeaseEndsStep DEF Fanout
<1>2. ASSUME NEW w \in Drain, Deliver(w) \/ Fault(w)
      PROVE  IInv'
  BY <1>2, ClaimStep, ReadDevicesStep, SendStep, SendThrowsStep, SettleOkStep, SettleFailedStep,
     ClearTokensStep, CrashStep DEF Deliver, Fault
<1> QED
  BY <1>1, <1>2, PhoneStep DEF Next

LEMMA StutterStep ==
  ASSUME IInv, UNCHANGED vars
  PROVE  IInv'
<1>1. TypeOK' /\ UNCHANGED <<row, attempts, lease, phones, drains, past>>
  BY DEF IInv, TypeOK, vars, queue, outbox, phones, drains, past
<1> QED
  BY <1>1, Apart

(* The inductive invariant holds.                                          *)
THEOREM Invariance == Spec => []IInv
<1>1. Init => IInv
  BY InitInv
<1>2. IInv /\ [Next]_vars => IInv'
  BY NextStep, StutterStep
<1> QED
  BY <1>1, <1>2, PTL DEF Spec

(* Jobs, rows, tokens and drains keep their types.                         *)
THEOREM TypeCorrect == Spec => []TypeOK
<1>1. IInv => TypeOK
  BY DEF IInv
<1> QED
  BY <1>1, Invariance, PTL

(* A row about which nothing went wrong is pushed once at most, however    *)
(* many drains and fan-outs run at once.                                   *)
THEOREM PushedOnceHolds == Spec => []PushedOnce
<1>1. IInv => PushedOnce
  BY DEF IInv, OnceInv, PushedOnce
<1> QED
  BY <1>1, Invariance, PTL

(* No row is settled without a push, a last attempt or a user without      *)
(* tokens, also when drains with old claims settle it after each other.    *)
THEOREM NothingDroppedHolds == Spec => []NothingDropped
<1>1. IInv => NothingDropped
  BY DEF IInv
<1> QED
  BY <1>1, Invariance, PTL

(* Only its own device gives up a token the push service accepts.          *)
LEMMA OnlyItself ==
  ASSUME IInv, [Next]_vars
  PROVE  [\A d \in Device : token[d] = valid[d] /\ token'[d] # token[d] => Unregister(d)]_vars
<1> SUFFICES ASSUME Next, NEW d \in Device, token[d] = valid[d], token'[d] # token[d]
             PROVE  Unregister(d)
  OBVIOUS
<1>1. ASSUME NEW m \in Message, Fanout(m) \/ LeaseEnds(m) \/ Expire(m)
      PROVE  FALSE
  BY <1>1 DEF Fanout, Enqueue, FanoutQuery, FanoutInsert, FanoutDone, FanoutFails, LeaseEnds,
     Expire, phones
<1>2. ASSUME NEW e \in Device, Phone(e)
      PROVE  Unregister(d)
  <2>1. ~Rotate(e)
    BY DEF Rotate
  <2>2. ~Register(e)
    BY DEF IInv, TypeOK, Register
  <2>3. Unregister(e) => e = d
    BY DEF IInv, TypeOK, Unregister
  <2> QED
    BY <1>2, <2>1, <2>2, <2>3 DEF Phone
<1>3. ASSUME NEW w \in Drain, ClearTokens(w)
      PROVE  FALSE
  <2>1. <<d, token[d]>> \in dead[w]
    BY <1>3 DEF ClearTokens
  <2>2. token[d] < valid[d]
    BY <2>1 DEF IInv, TokenInv
  <2> QED
    BY <2>2, BoundAssumption DEF IInv, TypeOK
<1>4. ASSUME NEW w \in Drain, Deliver(w) \/ Fault(w)
      PROVE  FALSE
  BY <1>3, <1>4 DEF Deliver, Fault, Claim, Take, ReadDevices, Send, SendThrows, SettleOk,
     SettleFailed, Crash, phones
<1> QED
  BY <1>1, <1>2, <1>4 DEF Next

(* A drain that learns of a dead token never clears one registered since.  *)
THEOREM LiveTokenKeptHolds == Spec => LiveTokenKept
<1>1. IInv /\ [Next]_vars =>
        [\A d \in Device : token[d] = valid[d] /\ token'[d] # token[d] => Unregister(d)]_vars
  BY OnlyItself
<1> QED
  BY <1>1, Invariance, PTL DEF Spec, LiveTokenKept

-----------------------------------------------------------------------------
(* The verdicts. *)

(* A drain's lists are apart; about a row without doubt they say what was  *)
(* done, and its drain finds it as it has left it.                         *)
TruthInv ==
  /\ \A w \in Drain : bad[w] \cap ok[w] = {} /\ bad[w] \cap left[w] = {}
  /\ \A m \in Message : row[m] = "sent" => pushes[m] > 0
  /\ \A m \in Message \ doubtful :
       /\ row[m] = "failed" => pushes[m] = 0
       /\ \A w \in Drain : m \in bad[w] => pushes[m] = 0
       /\ \A w \in Drain : m \in batch[w] /\ at[w] = "settling"
                             => row[m] = IF m \in ok[w] THEN "sent" ELSE "pending"

LEMMA TruthApart ==
  ASSUME IInv, TruthInv, UNCHANGED <<drains, pushes>>, doubtful \subseteq doubtful',
         \A m \in Message : row'[m] = row[m] \/ (row[m] = "absent" /\ row'[m] = "pending")
  PROVE  TruthInv'
<1>1. \A m \in Message, w \in Drain : m \in batch[w] => row'[m] = row[m]
  BY DEF IInv, BatchInv
<1> QED
  BY <1>1 DEF TruthInv, drains

LEMMA TruthSend ==
  ASSUME IInv, TruthInv, NEW w \in Drain, NEW m \in Message, Send(w, m)
  PROVE  TruthInv'
<1>1. PICK reached \in SUBSET target[w], lost \in SUBSET target[w] :
        /\ ok' = IF Live(reached) # {} THEN [ok EXCEPT ![w] = @ \cup {m}] ELSE ok
        /\ bad' = IF Live(reached) = {} /\ (m \in final[w] \/ target[w] = {})
                  THEN [bad EXCEPT ![w] = @ \cup {m}] ELSE bad
        /\ pushes' = IF Live(reached) \cup lost # {} THEN [pushes EXCEPT ![m] = @ + 1] ELSE pushes
        /\ doubtful' = IF Live(reached) = {} /\ lost # {} THEN doubtful \cup {m} ELSE doubtful
  BY DEF Send, Reaches, Live
<1>2. /\ at[w] = "sending" /\ m \in left[w]
      /\ left' = [left EXCEPT ![w] = @ \ {m}]
      /\ UNCHANGED <<outbox, at, batch>>
  BY DEF Send
<1>3. m \in batch[w] /\ m \notin ok[w] /\ m \notin bad[w]
  BY <1>2 DEF IInv, BatchInv, TruthInv
<1>4. m \notin doubtful => /\ row[m] = "pending" /\ pushes[m] = 0
                           /\ \A v \in Drain : m \in batch[v] => v = w
  BY <1>2, <1>3, Unpushed DEF IInv, HolderInv
<1>5. /\ \A n \in Message : pushes[n] \in Nat /\ pushes[n] <= pushes'[n]
      /\ \A n \in Message \ {m} : pushes'[n] = pushes[n]
      /\ doubtful \subseteq doubtful'
      /\ Live(reached) = {} /\ m \notin doubtful' => pushes' = pushes
  BY <1>1 DEF IInv, TypeOK
<1>6. \A v \in Drain : bad'[v] \cap ok'[v] = {} /\ bad'[v] \cap left'[v] = {}
  <2> SUFFICES ASSUME NEW v \in Drain, NEW n \in bad'[v]
               PROVE  n \notin ok'[v] /\ n \notin left'[v]
    OBVIOUS
  <2>1. n \in bad[v] \/ (v = w /\ n = m /\ Live(reached) = {})
    BY <1>1 DEF IInv, TypeOK
  <2>2. n \in ok'[v] => n \in ok[v] \/ (v = w /\ n = m /\ Live(reached) # {})
    BY <1>1 DEF IInv, TypeOK
  <2>3. n \in left'[v] => n \in left[v] /\ ~(v = w /\ n = m)
    BY <1>2 DEF IInv, TypeOK
  <2> QED
    BY <1>3, <2>1, <2>2, <2>3 DEF TruthInv
<1>7. \A n \in Message : row'[n] = "sent" => pushes'[n] > 0
  <2> TAKE n \in Message
  <2>1. row[n] = "sent" => pushes[n] > 0
    BY DEF TruthInv
  <2>2. pushes[n] \in Nat /\ pushes'[n] \in Nat
    BY <1>1 DEF IInv, TypeOK
  <2> QED
    BY <1>2, <1>5, <2>1, <2>2 DEF outbox
<1>8. ASSUME NEW n \in Message \ doubtful'
      PROVE  /\ row'[n] = "failed" => pushes'[n] = 0
             /\ \A v \in Drain : n \in bad'[v] => pushes'[n] = 0
             /\ \A v \in Drain : n \in batch'[v] /\ at'[v] = "settling"
                                   => row'[n] = IF n \in ok'[v] THEN "sent" ELSE "pending"
  <2>1. row' = row /\ batch' = batch /\ at' = at /\ n \notin doubtful
    BY <1>2, <1>5 DEF outbox
  <2>2. CASE n = m
    <3>1. \A v \in Drain : n \in bad'[v] => v = w /\ Live(reached) = {}
      <4> TAKE v \in Drain
      <4>1. n \in bad'[v] => n \in bad[v] \/ (v = w /\ Live(reached) = {})
        BY <1>1 DEF IInv, TypeOK
      <4>2. n \in bad[v] => n \in batch[v]
        BY DEF IInv, BatchInv
      <4> QED
        BY <1>3, <1>4, <2>1, <2>2, <4>1, <4>2
    <3>2. \A v \in Drain : n \in batch[v] => at[v] # "settling"
      BY <1>2, <1>4, <2>1, <2>2
    <3> QED
      BY <1>4, <1>5, <2>1, <2>2, <3>1, <3>2
  <2>3. CASE n # m
    <3>1. \A v \in Drain : (n \in bad'[v] <=> n \in bad[v]) /\ (n \in ok'[v] <=> n \in ok[v])
      BY <1>1, <2>3 DEF IInv, TypeOK
    <3> QED
      BY <1>5, <2>1, <2>3, <3>1 DEF TruthInv
  <2> QED
    BY <2>2, <2>3
<1> QED
  BY <1>6, <1>7, <1>8 DEF TruthInv

LEMMA TruthSettle ==
  ASSUME IInv, TruthInv, NEW w \in Drain, SettleOk(w) \/ SettleFailed(w)
  PROVE  /\ TruthInv'
         /\ \A m \in Message : row[m] \in {"sent", "failed"} =>
              /\ row'[m] \in {"sent", "failed"}
              /\ m \notin doubtful => row'[m] = row[m]
<1>1. UNCHANGED <<batch, left, ok, bad, pushes, doubtful>>
  BY DEF SettleOk, SettleFailed, past
<1>2. ASSUME NEW m \in Message \ doubtful, NEW v \in Drain, m \in batch[v]
      PROVE  m \in batch[w] => v = w
  BY <1>2 DEF IInv, HolderInv
<1>3. ok[w] \subseteq batch[w] /\ bad[w] \subseteq batch[w]
  BY DEF IInv, BatchInv
<1>4. CASE SettleOk(w)
  <2>1. /\ at[w] = "sending" /\ at' = [at EXCEPT ![w] = "settling"]
        /\ row' = [m \in Message |-> IF m \in ok[w] THEN "sent" ELSE row[m]]
    BY <1>4 DEF SettleOk
  <2>2. \A m \in Message : m \in ok[w] => pushes[m] > 0
    BY DEF IInv, VerdictInv
  <2>3. \A m \in Message \ doubtful : m \in batch[w] => row[m] = "pending"
    BY <2>1 DEF IInv, HolderInv
  <2>4. \A m \in Message : row'[m] = "sent" => pushes'[m] > 0
    BY <1>1, <2>1, <2>2 DEF TruthInv
  <2>5. ASSUME NEW m \in Message \ doubtful, NEW v \in Drain, m \in batch[v], at'[v] = "settling"
        PROVE  row'[m] = IF m \in ok[v] THEN "sent" ELSE "pending"
    <3>1. CASE v = w
      BY <2>1, <2>3, <2>5, <3>1
    <3>2. CASE v # w
      <4>1. at[v] = "settling" /\ m \notin ok[w]
        BY <1>2, <1>3, <2>1, <2>5, <3>2 DEF IInv, TypeOK
      <4> QED
        BY <2>1, <2>5, <4>1 DEF TruthInv
    <3> QED
      BY <3>1, <3>2
  <2>6. \A m \in Message : row'[m] = "failed" => row[m] = "failed"
    BY <2>1
  <2>7. TruthInv'
    BY <1>1, <2>4, <2>5, <2>6 DEF TruthInv
  <2> QED
    BY <1>3, <2>1, <2>3, <2>7
<1>5. CASE SettleFailed(w)
  <2>1. /\ at[w] = "settling" /\ at' = [at EXCEPT ![w] = "clearing"]
        /\ row' = [m \in Message |-> IF m \in bad[w] THEN "failed" ELSE row[m]]
    BY <1>5 DEF SettleFailed
  <2>2. \A m \in Message \ doubtful : m \in bad[w] => row[m] = "pending" /\ pushes[m] = 0
    BY <1>3, <2>1 DEF TruthInv
  <2>3. \A v \in Drain : at'[v] = "settling" => v # w /\ at[v] = "settling"
    BY <2>1 DEF IInv, TypeOK
  <2>4. ASSUME NEW m \in Message \ doubtful, NEW v \in Drain, m \in batch[v], at'[v] = "settling"
        PROVE  row'[m] = IF m \in ok[v] THEN "sent" ELSE "pending"
    <3>1. m \notin bad[w]
      BY <1>2, <1>3, <2>3, <2>4
    <3> QED
      BY <2>1, <2>3, <2>4, <3>1 DEF TruthInv
  <2>5. \A m \in Message : row'[m] = "sent" => row[m] = "sent"
    BY <2>1
  <2>6. \A m \in Message \ doubtful : row'[m] = "failed" => pushes[m] = 0
    BY <2>1, <2>2 DEF TruthInv
  <2>7. TruthInv'
    BY <1>1, <2>4, <2>5, <2>6 DEF TruthInv
  <2> QED
    BY <2>1, <2>2, <2>7
<1> QED
  BY <1>4, <1>5

LEMMA TruthReturn ==
  ASSUME IInv, TruthInv, NEW w \in Drain, Return(w), UNCHANGED <<row, pushes>>,
         doubtful \subseteq doubtful'
  PROVE  TruthInv'
<1>1. \A v \in Drain : /\ v = w => ok'[v] = {} /\ bad'[v] = {} /\ left'[v] = {} /\ batch'[v] = {}
                       /\ v # w => /\ ok'[v] = ok[v] /\ bad'[v] = bad[v] /\ left'[v] = left[v]
                                   /\ batch'[v] = batch[v] /\ at'[v] = at[v]
  BY DEF IInv, TypeOK, Return
<1> QED
  BY <1>1 DEF TruthInv

LEMMA TruthStep ==
  ASSUME IInv, TruthInv, [Next]_vars
  PROVE  TruthInv'
<1>1. CASE UNCHANGED vars
  BY <1>1, TruthApart DEF vars, outbox, past
<1>2. ASSUME NEW m \in Message, Fanout(m) \/ LeaseEnds(m) \/ Expire(m)
      PROVE  TruthInv'
  <2>1. UNCHANGED <<drains, pushes>> /\ doubtful \subseteq doubtful'
    BY <1>2 DEF Fanout, Enqueue, FanoutQuery, FanoutInsert, FanoutDone, FanoutFails, LeaseEnds,
       Expire, past
  <2>2. \A n \in Message : row'[n] = row[n] \/ (row[n] = "absent" /\ row'[n] = "pending")
    BY <1>2 DEF Fanout, Enqueue, FanoutQuery, FanoutInsert, FanoutDone, FanoutFails, LeaseEnds,
       Expire, outbox, IInv, TypeOK
  <2> QED
    BY <2>1, <2>2, TruthApart
<1>3. ASSUME NEW d \in Device, Phone(d)
      PROVE  TruthInv'
  BY <1>3, TruthApart DEF Phone, Register, Unregister, Rotate, outbox, past
<1>4. ASSUME NEW w \in Drain, Claim(w)
      PROVE  TruthInv'
  <2>1. /\ at[w] = "idle" /\ at' = [at EXCEPT ![w] = "claimed"]
        /\ \A v \in Drain \ {w} : batch'[v] = batch[v]
        /\ UNCHANGED <<row, left, ok, bad, pushes, doubtful>>
    BY <1>4 DEF Claim, Take, past, IInv, TypeOK
  <2>2. \A v \in Drain : at'[v] = "settling" => v # w /\ at[v] = "settling"
    BY <2>1 DEF IInv, TypeOK
  <2> QED
    BY <2>1, <2>2 DEF TruthInv
<1>5. ASSUME NEW w \in Drain, ReadDevices(w)
      PROVE  TruthInv'
  <2>1. /\ at[w] = "claimed" /\ at' = [at EXCEPT ![w] = "sending"]
        /\ \A v \in Drain \ {w} : left'[v] = left[v]
        /\ UNCHANGED <<row, batch, ok, bad, pushes, doubtful>>
    BY <1>5 DEF ReadDevices, outbox, past, IInv, TypeOK
  <2>2. bad[w] = {}
    BY <2>1 DEF IInv, BatchInv
  <2>3. \A v \in Drain : at'[v] = "settling" => at[v] = "settling"
    BY <2>1 DEF IInv, TypeOK
  <2> QED
    BY <2>1, <2>2, <2>3 DEF TruthInv
<1>6. ASSUME NEW w \in Drain, NEW m \in Message, SendThrows(w, m)
      PROVE  TruthInv'
  <2>1. /\ doubtful' = doubtful \cup {m} /\ UNCHANGED <<row, at, batch, ok, bad>>
        /\ \A v \in Drain : left'[v] \subseteq left[v]
    BY <1>6 DEF SendThrows, outbox, IInv, TypeOK
  <2>2. PICK k \in {0, 1} : pushes' = [pushes EXCEPT ![m] = @ + k]
    BY <1>6 DEF SendThrows
  <2>3. \A n \in Message : /\ pushes[n] \in Nat /\ pushes[n] <= pushes'[n]
                           /\ n # m => pushes'[n] = pushes[n]
    BY <2>2 DEF IInv, TypeOK
  <2>4. \A n \in Message : row'[n] = "sent" => pushes'[n] > 0
    BY <2>1, <2>2 DEF TruthInv, IInv, TypeOK
  <2> QED
    BY <2>1, <2>3, <2>4 DEF TruthInv
<1>7. ASSUME NEW w \in Drain, ClearTokens(w) \/ Crash(w)
      PROVE  TruthInv'
  BY <1>7, TruthReturn DEF ClearTokens, Crash, outbox, past
<1> QED
  BY <1>1, <1>2, <1>3, <1>4, <1>5, <1>6, <1>7, TruthSend, TruthSettle DEF Next, Deliver, Fault

(* The lists of the drains agree with the rows and with what was pushed.   *)
THEOREM Truth == Spec => []TruthInv
<1>1. Init => TruthInv
  BY DEF Init, TruthInv
<1> QED
  BY <1>1, TruthStep, Invariance, PTL DEF Spec

(* A row that says "sent" was pushed; about a row that no drain was slow   *)
(* or broken with, both verdicts are the exact truth.                      *)
THEOREM HonestVerdictsHolds == Spec => []HonestVerdicts
<1>1. IInv /\ TruthInv => HonestVerdicts
  <2> SUFFICES ASSUME IInv, TruthInv, NEW m \in Message
               PROVE  /\ row[m] = "sent" => pushes[m] > 0
                      /\ row[m] = "sent" /\ m \notin doubtful => pushes[m] = 1
                      /\ row[m] = "failed" /\ m \notin doubtful => pushes[m] = 0
    BY DEF HonestVerdicts
  <2>1. pushes[m] \in Nat /\ (m \notin doubtful => pushes[m] <= 1)
    BY DEF IInv, TypeOK, OnceInv
  <2> QED
    BY <2>1 DEF TruthInv
<1> QED
  BY <1>1, Invariance, Truth, PTL

(* No row is pushed for again after its verdict, and the verdict on a row  *)
(* without doubt stands.                                                   *)
THEOREM SettledForGoodHolds == Spec => SettledForGood
<1>1. IInv /\ TruthInv /\ [Next]_vars =>
        [\A m \in Message : row[m] \in {"sent", "failed"} =>
           /\ row'[m] \in {"sent", "failed"}
           /\ m \notin doubtful => row'[m] = row[m]]_vars
  <2> SUFFICES ASSUME IInv, TruthInv, Next, NEW m \in Message, row[m] \in {"sent", "failed"}
               PROVE  /\ row'[m] \in {"sent", "failed"}
                      /\ m \notin doubtful => row'[m] = row[m]
    OBVIOUS
  <2>1. ASSUME NEW n \in Message, Fanout(n) \/ LeaseEnds(n) \/ Expire(n)
        PROVE  row'[m] = row[m]
    BY <2>1 DEF Fanout, Enqueue, FanoutQuery, FanoutInsert, FanoutDone, FanoutFails, LeaseEnds,
       Expire, outbox, IInv, TypeOK
  <2>2. ASSUME NEW d \in Device, Phone(d)
        PROVE  row'[m] = row[m]
    BY <2>2 DEF Phone, Register, Unregister, Rotate, outbox
  <2>3. ASSUME NEW w \in Drain, Deliver(w) \/ Fault(w), ~SettleOk(w), ~SettleFailed(w)
        PROVE  row'[m] = row[m]
    BY <2>3 DEF Deliver, Fault, Claim, Take, ReadDevices, Send, SendThrows, ClearTokens, Crash, outbox
  <2> QED
    BY <2>1, <2>2, <2>3, TruthSettle DEF Next
<1> QED
  BY <1>1, Invariance, Truth, PTL DEF Spec, SettledForGood
=============================================================================
