------------------------- MODULE MessageLog_proofs -------------------------
(***************************************************************************)
(* Type correctness of MessageLog, the gapless log, posting once, no post  *)
(* by a suspended sender, and that the transactions implement              *)
(* ConversationLog.  Then, on top of that invariant, three more, one after *)
(* the other: a message is younger than its root and the row locks are     *)
(* those of the steps (ThreadInv, RowInv), hence what a deadlock looks     *)
(* like; and a thread is finite (FiniteInv), hence no count ahead of its   *)
(* replies.                                                                *)
(***************************************************************************)
EXTENDS MessageLog, SequenceTheorems, FiniteSetTheorems, WellFoundedInduction, TLAPS

USE NoneAssumption DEF InTx, End, Holding

-----------------------------------------------------------------------------
(* Lemmas about the helpers.                                               *)

(* A request that is under way is a record of type Request.                *)
LEMMA Underway ==
  ASSUME TypeOK, NEW p \in Proc, req[p] # Idle
  PROVE  req[p] \in Request
BY DEF TypeOK

(* Moving a request to another step keeps the type of the requests.        *)
LEMMA GotoType ==
  ASSUME TypeOK, NEW p \in Proc, NEW s, req[p].step # "idle",
         s \in {"checked", "read", "ready"} \cup InTx \cup End, Goto(p, s)
  PROVE  req' \in [Proc -> Request \cup {Idle}]
<1>1. req[p] \in Request
  BY Underway DEF Idle
<1>2. [req[p] EXCEPT !.step = s] \in Request
  BY <1>1 DEF Request
<1>3. req' = [req EXCEPT ![p] = [req[p] EXCEPT !.step = s]]
  BY <1>2 DEF Goto, TypeOK
<1> QED
  BY <1>2, <1>3 DEF TypeOK

LEMMA ReleaseType ==
  ASSUME TypeOK, NEW p \in Proc, Release(p)
  PROVE  convLock' \in Proc \cup {None} /\ messageLock' \in [Proc -> Proc \cup {None}]
BY DEF Release, TypeOK

LEMMA PublishType ==
  ASSUME TypeOK, NEW op \in {"create", "update", "delete"}, NEW i \in Proc,
         NEW text \in Proc \cup {None}, Publish(op, i, text)
  PROVE  events' \in Seq([op : {"create", "update", "delete"}, id : Proc, text : Proc \cup {None}])
BY DEF Publish, TypeOK

(* What exists is a record of type Message.                                *)
LEMMA Existing ==
  ASSUME TypeOK, NEW i \in Proc, Live(i)
  PROVE  message[i] \in Message
BY DEF TypeOK, Live, Absent

(* The thread of a message to come is a message, or none.                  *)
LEMMA ThreadType ==
  ASSUME TypeOK, RootInv, NEW r \in Proc \cup {None}, NEW t \in Proc \cup {None},
         r # None => Live(r), t # None => Live(t)
  PROVE  /\ Thread(r, t) \in Proc \cup {None}
         /\ Thread(r, t) # None => Live(Thread(r, t))
<1> USE DEF Thread
<1>1. CASE r = None
  BY <1>1 DEF RootOf
<1>2. CASE r # None
  <2>1. message[r] \in Message
    BY <1>2, Existing
  <2>2. message[r].root \in Proc \cup {None}
    BY <2>1 DEF Message
  <2> QED
    BY <1>2, <2>2 DEF RootOf, RootInv
<1> QED
  BY <1>1, <1>2

-----------------------------------------------------------------------------
(* Every step keeps the types. *)

LEMMA TypeStep ==
  ASSUME TypeOK, KindInv, RootInv, [Next]_vars
  PROVE  TypeOK'
<1>1. CASE UNCHANGED vars
  BY <1>1 DEF TypeOK, vars, rows, conversation, locks
<1>2. ASSUME NEW p \in Proc, NEW u \in User, NEW n \in Nonce, NEW r \in Proc \cup {None},
             NEW t \in Proc \cup {None}, Send(p, u, n, r, t)
      PROVE  TypeOK'
  <2>1. (r # None => Live(r)) /\ (t # None => Live(t))
    BY <1>2 DEF Send, Live
  <2>2. Thread(r, t) \in Proc \cup {None}
    BY <2>1, ThreadType
  <2>3. PICK s : s \in {"checked", "replayed"} /\
             req' = [req EXCEPT ![p] =
               [step |-> s, kind |-> "send", user |-> u, nonce |-> n, target |-> Thread(r, t),
                old |-> None, wasLast |-> FALSE, seq |-> 0]]
    BY <1>2 DEF Send
  <2>4. [step |-> s, kind |-> "send", user |-> u, nonce |-> n, target |-> Thread(r, t),
         old |-> None, wasLast |-> FALSE, seq |-> 0] \in Request
    BY <2>2, <2>3 DEF Request
  <2>5. req' \in [Proc -> Request \cup {Idle}]
    BY <2>3, <2>4 DEF TypeOK
  <2> QED
    BY <1>2, <2>5 DEF Send, TypeOK, rows, conversation, locks
<1>3. ASSUME NEW p \in Proc, NEW u \in User, NEW t \in Proc,
             EditRead(p, u, t) \/ RemoveRead(p, u, t)
      PROVE  TypeOK'
  <2>1. message[t] \in Message
    BY <1>3, Existing DEF EditRead, RemoveRead, Live
  <2>2. PICK k, o :
             /\ k \in {"edit", "remove"} /\ o \in Proc \cup {None}
             /\ req' = [req EXCEPT ![p] =
                  [step |-> "read", kind |-> k, user |-> u, nonce |-> None, target |-> t,
                   old |-> o, wasLast |-> FALSE, seq |-> 0]]
    BY <1>3, <2>1 DEF EditRead, RemoveRead, Message
  <2>3. [step |-> "read", kind |-> k, user |-> u, nonce |-> None, target |-> t,
         old |-> o, wasLast |-> FALSE, seq |-> 0] \in Request
    BY <2>2 DEF Request
  <2>4. req' \in [Proc -> Request \cup {Idle}]
    BY <2>2, <2>3 DEF TypeOK
  <2> QED
    BY <1>3, <2>4 DEF EditRead, RemoveRead, TypeOK, rows, conversation, locks
<1>4. ASSUME NEW p \in Proc, Begin(p)
      PROVE  TypeOK'
  <2>1. req' \in [Proc -> Request \cup {Idle}]
    BY <1>4, GotoType DEF Begin, At
  <2> QED
    BY <1>4, <2>1 DEF Begin, TypeOK, rows, conversation, locks
<1>5. ASSUME NEW p \in Proc, Allocate(p)
      PROVE  TypeOK'
  <2>1. req[p] \in Request
    BY <1>5, Underway DEF Allocate, At, Idle
  <2>2. PICK k \in Nat : k = head + 1
    BY DEF TypeOK
  <2>3. [req[p] EXCEPT !.step = "allocated", !.seq = k] \in Request
    BY <2>1 DEF Request
  <2>5. req' = [req EXCEPT ![p] = [req[p] EXCEPT !.step = "allocated", !.seq = k]]
    BY <1>5, <2>1, <2>2, <2>3 DEF Allocate, TypeOK
  <2>4. req' \in [Proc -> Request \cup {Idle}]
    BY <2>3, <2>5 DEF TypeOK
  <2> QED
    BY <1>5, <2>4 DEF Allocate, TypeOK, rows, conversation
<1>6. ASSUME NEW p \in Proc, Insert(p)
      PROVE  TypeOK'
  <2>1. req' \in [Proc -> Request \cup {Idle}]
    BY <1>6, GotoType DEF Insert, At
  <2>2. messageLock' \in [Proc -> Proc \cup {None}]
    BY <1>6 DEF Insert, TypeOK
  <2> QED
    BY <1>6, <2>1, <2>2 DEF Insert, TypeOK, rows, conversation
<1>7. ASSUME NEW p \in Proc, Conflict(p)
      PROVE  TypeOK'
  <2>1. req' \in [Proc -> Request \cup {Idle}]
    BY <1>7, GotoType DEF Conflict, At
  <2> QED
    BY <1>7, <2>1, ReleaseType DEF Conflict, TypeOK, rows, conversation
<1>8. ASSUME NEW p \in Proc, Commit(p)
      PROVE  TypeOK'
  <2>1. req' \in [Proc -> Request \cup {Idle}]
    BY <1>8, GotoType DEF Commit, At
  <2>2. req[p] \in Request /\ req[p].nonce \in Nonce
    BY <1>8, Underway DEF Commit, At, Idle, KindInv, KindOf, Request
  <2>3. Inserted(p) \in Message
    BY <2>2 DEF Inserted, Message, Request
  <2>4. ASSUME NEW i \in Proc, i = req[p].target
        PROVE  [message[i] EXCEPT !.replies = @ + 1] \in Message
    <3>1. message[i] \in Message
      BY <1>8, <2>4, Existing DEF KindInv, KindOf, Commit, At
    <3>2. message[i].replies \in Nat
      BY <3>1 DEF Message
    <3>3. PICK k \in Nat : k = message[i].replies + 1
      BY <3>2
    <3>4. [message[i] EXCEPT !.replies = k] \in Message
      BY <3>1 DEF Message
    <3> QED
      BY <3>3, <3>4
  <2>5. message' \in [Proc -> Message \cup {Absent}]
    BY <1>8, <2>3, <2>4 DEF Commit, TypeOK
  <2>6. head' \in Nat /\ last' \in Proc \cup {None} /\ preview' \in Proc \cup {None}
    BY <1>8, <2>2 DEF Commit, Request
  <2> QED
    BY <1>8, <2>1, <2>5, <2>6, ReleaseType, PublishType DEF Commit, TypeOK
<1>9. ASSUME NEW p \in Proc, Context(p)
      PROVE  TypeOK'
  <2>1. req[p] \in Request
    BY <1>9, Underway DEF Context, At, Idle
  <2>2. [req[p] EXCEPT !.step = "ready", !.wasLast = (last = req[p].target)] \in Request
    BY <2>1 DEF Request
  <2>3. req' = [req EXCEPT ![p] = [req[p] EXCEPT !.step = "ready", !.wasLast = (last = req[p].target)]]
    BY <1>9, <2>1, <2>2 DEF Context, TypeOK
  <2>4. req' \in [Proc -> Request \cup {Idle}]
    BY <2>2, <2>3 DEF TypeOK
  <2> QED
    BY <1>9, <2>4 DEF Context, TypeOK, rows, conversation, locks
<1>10. ASSUME NEW p \in Proc, Write(p)
       PROVE  TypeOK'
  <2>1. req' \in [Proc -> Request \cup {Idle}]
    BY <1>10, GotoType DEF Write, At
  <2>2. messageLock' \in [Proc -> Proc \cup {None}]
    BY <1>10 DEF Write, TypeOK
  <2> QED
    BY <1>10, <2>1, <2>2 DEF Write, TypeOK, rows, conversation
<1>11. ASSUME NEW p \in Proc, LockRoot(p)
       PROVE  TypeOK'
  <2>1. req' \in [Proc -> Request \cup {Idle}]
    BY <1>11, GotoType DEF LockRoot, At
  <2>2. messageLock' \in [Proc -> Proc \cup {None}]
    BY <1>11 DEF LockRoot, TypeOK
  <2> QED
    BY <1>11, <2>1, <2>2 DEF LockRoot, TypeOK, rows, conversation
<1>12. ASSUME NEW p \in Proc, EditCommit(p)
       PROVE  TypeOK'
  <2>1. req' \in [Proc -> Request \cup {Idle}]
    BY <1>12, GotoType DEF EditCommit, At
  <2>2. PICK t \in Proc : t = req[p].target /\ Live(t)
    BY <1>12, Underway DEF EditCommit, At, Idle, KindInv, KindOf, Request
  <2>3. req[p].old \in Proc
    BY <1>12, Underway DEF EditCommit, At, Idle, KindInv, KindOf, Request
  <2>4. [message[t] EXCEPT !.text = p] \in Message
    <3>1. message[t] \in Message
      BY <2>2, Existing
    <3> QED
      BY <3>1 DEF Message
  <2>5. message' \in [Proc -> Message \cup {Absent}]
    BY <1>12, <2>2, <2>4 DEF EditCommit, TypeOK
  <2>6. revisions' \in SUBSET [id : Proc, text : Proc]
    BY <1>12, <2>2, <2>3 DEF EditCommit, TypeOK
  <2>7. preview' \in Proc \cup {None}
    BY <1>12 DEF EditCommit, StampPreview, TypeOK
  <2> QED
    BY <1>12, <2>1, <2>2, <2>5, <2>6, <2>7, ReleaseType, PublishType DEF EditCommit, TypeOK
<1>13. ASSUME NEW p \in Proc, RemoveCommit(p)
       PROVE  TypeOK'
  <2>1. req' \in [Proc -> Request \cup {Idle}]
    BY <1>13, GotoType DEF RemoveCommit, At
  <2>2. PICK t \in Proc : t = req[p].target /\ Live(t)
    BY <1>13, Underway DEF RemoveCommit, At, Idle, KindInv, KindOf, Request
  <2>3. [message[t] EXCEPT !.deleted = TRUE] \in Message
    <3>1. message[t] \in Message
      BY <2>2, Existing
    <3> QED
      BY <3>1 DEF Message
  <2>4. ASSUME NEW i \in Proc, i = message[t].root
        PROVE  [message[i] EXCEPT !.replies = IF @ = 0 THEN 0 ELSE @ - 1] \in Message
    <3>1. Live(i)
      BY <2>2, <2>4 DEF RootInv
    <3>2. message[i] \in Message
      BY <3>1, Existing
    <3>3. message[i].replies \in Nat
      BY <3>2 DEF Message
    <3>4. PICK k \in Nat : k = IF message[i].replies = 0 THEN 0 ELSE message[i].replies - 1
      BY <3>3
    <3>5. [message[i] EXCEPT !.replies = k] \in Message
      BY <3>2 DEF Message
    <3> QED
      BY <3>4, <3>5
  <2>5. message' \in [Proc -> Message \cup {Absent}]
    BY <1>13, <2>2, <2>3, <2>4 DEF RemoveCommit, TypeOK
  <2>6. preview' \in Proc \cup {None}
    BY <1>13 DEF RemoveCommit, StampPreview, TypeOK
  <2> QED
    BY <1>13, <2>1, <2>2, <2>5, <2>6, ReleaseType, PublishType DEF RemoveCommit, TypeOK
<1>14. ASSUME NEW p \in Proc, Abort(p)
       PROVE  TypeOK'
  <2>1. req' \in [Proc -> Request \cup {Idle}]
    BY <1>14, GotoType DEF Abort
  <2> QED
    BY <1>14, <2>1, ReleaseType DEF Abort, TypeOK, rows, conversation
<1>15. ASSUME NEW u \in User, Suspend(u)
       PROVE  TypeOK'
  BY <1>15 DEF Suspend, TypeOK, rows, conversation, locks
<1> QED
  BY <1>1, <1>2, <1>3, <1>4, <1>5, <1>6, <1>7, <1>8, <1>9, <1>10, <1>11, <1>12, <1>13,
     <1>14, <1>15 DEF Next, Arrive, Step

-----------------------------------------------------------------------------
(* What the steps other than Commit leave alone. *)

(* The fields of a message that identify it and place it. *)
SameMessage(i) ==
  /\ message'[i].exists = message[i].exists
  /\ Live(i) => /\ message'[i].seq = message[i].seq
                /\ message'[i].sender = message[i].sender
                /\ message'[i].nonce = message[i].nonce
                /\ message'[i].root = message[i].root

Quiet == head' = head /\ last' = last /\ \A i \in Proc : SameMessage(i)

LEMMA QuietStep ==
  ASSUME TypeOK, KindInv, RootInv, [Next]_vars, \A p \in Proc : ~Commit(p)
  PROVE  Quiet
<1>1. ASSUME message' = message, head' = head, last' = last
      PROVE  Quiet
  BY <1>1 DEF Quiet, SameMessage
<1>2. CASE UNCHANGED vars
  BY <1>1, <1>2 DEF vars, rows, conversation
<1>3. ASSUME NEW p \in Proc, Arrive(p)
      PROVE  Quiet
  BY <1>1, <1>3 DEF Arrive, Send, EditRead, RemoveRead, rows, conversation
<1>4. ASSUME NEW p \in Proc,
             \/ Begin(p) \/ Allocate(p) \/ Insert(p) \/ Conflict(p)
             \/ Context(p) \/ Write(p) \/ LockRoot(p) \/ Abort(p)
      PROVE  Quiet
  BY <1>1, <1>4 DEF Begin, Allocate, Insert, Conflict, Context, Write, LockRoot, Abort,
                    rows, conversation
<1>5. ASSUME NEW p \in Proc, EditCommit(p)
      PROVE  Quiet
  <2>1. PICK t \in Proc : t = req[p].target /\ Live(t)
    BY <1>5, Underway DEF EditCommit, At, Idle, KindInv, KindOf, Request
  <2>2. message[t] \in Message
    BY <2>1, Existing
  <2>3. message' = [message EXCEPT ![t] = [message[t] EXCEPT !.text = p]]
    BY <1>5, <2>1 DEF EditCommit
  <2>4. \A i \in Proc : SameMessage(i)
    BY <2>2, <2>3 DEF SameMessage, TypeOK, Message
  <2> QED
    BY <1>5, <2>4 DEF EditCommit, Quiet
<1>6. ASSUME NEW p \in Proc, RemoveCommit(p)
      PROVE  Quiet
  <2>1. PICK t \in Proc : t = req[p].target /\ Live(t)
    BY <1>6, Underway DEF RemoveCommit, At, Idle, KindInv, KindOf, Request
  <2>2. message[t] \in Message
    BY <2>1, Existing
  <2>3. ASSUME NEW i \in Proc
        PROVE  SameMessage(i)
    <3>1. CASE i = t
      <4>1. message'[i] = [message[i] EXCEPT !.deleted = TRUE]
        BY <1>6, <2>1, <3>1 DEF RemoveCommit
      <4> QED
        BY <2>2, <3>1, <4>1 DEF SameMessage, Message
    <3>2. CASE i # t /\ i = message[t].root
      <4>1. message[i] \in Message
        BY <2>1, <3>2, Existing DEF RootInv
      <4>2. PICK k : message'[i] = [message[i] EXCEPT !.replies = k]
        BY <1>6, <2>1, <3>2 DEF RemoveCommit
      <4> QED
        BY <4>1, <4>2 DEF SameMessage, Message
    <3>3. CASE i # t /\ i # message[t].root
      BY <1>6, <2>1, <3>3 DEF RemoveCommit, SameMessage
    <3> QED
      BY <3>1, <3>2, <3>3
  <2> QED
    BY <1>6, <2>3 DEF RemoveCommit, Quiet
<1>7. ASSUME NEW u \in User, Suspend(u)
      PROVE  Quiet
  BY <1>1, <1>7 DEF Suspend, rows, conversation
<1> QED
  BY <1>2, <1>3, <1>4, <1>5, <1>6, <1>7 DEF Next, Step

(* A step of a process moves its own request only, and not after its end.  *)
LEMMA Moves ==
  ASSUME TypeOK, NEW p \in Proc, Arrive(p) \/ Step(p) \/ Abort(p)
  PROVE  /\ \A q \in Proc \ {p} : req'[q] = req[q]
         /\ req[p].step \notin End
BY DEF TypeOK, Arrive, Send, EditRead, RemoveRead, Step, Begin, Allocate, Insert, Conflict,
       Commit, Context, Write, LockRoot, EditCommit, RemoveCommit, Abort, At, Goto, Idle

(* What a request keeps when it moves on. *)
SameRequest(p) ==
  /\ req'[p].kind = req[p].kind /\ req'[p].user = req[p].user /\ req'[p].nonce = req[p].nonce
  /\ req'[p].target = req[p].target /\ req'[p].old = req[p].old

LEMMA GotoEffect ==
  ASSUME TypeOK, NEW p \in Proc, NEW s, req[p].step # "idle", Goto(p, s)
  PROVE  req'[p].step = s /\ req'[p].seq = req[p].seq /\ SameRequest(p)
<1>1. req[p] \in Request
  BY Underway DEF Idle
<1>2. req'[p] = [req[p] EXCEPT !.step = s]
  BY DEF Goto, TypeOK
<1> QED
  BY <1>1, <1>2 DEF Request, SameRequest

LEMMA AllocateEffect ==
  ASSUME TypeOK, NEW p \in Proc, Allocate(p)
  PROVE  req'[p].step = "allocated" /\ req'[p].seq = head + 1 /\ SameRequest(p)
<1>1. req[p] \in Request
  BY Underway DEF Allocate, At, Idle
<1>2. req'[p] = [req[p] EXCEPT !.step = "allocated", !.seq = head + 1]
  BY DEF Allocate, TypeOK
<1> QED
  BY <1>1, <1>2 DEF Request, SameRequest

LEMMA ContextEffect ==
  ASSUME TypeOK, NEW p \in Proc, Context(p)
  PROVE  req'[p].step = "ready" /\ SameRequest(p)
<1>1. req[p] \in Request
  BY Underway DEF Context, At, Idle
<1>2. req'[p] = [req[p] EXCEPT !.step = "ready", !.wasLast = (last = req[p].target)]
  BY DEF Context, TypeOK
<1> QED
  BY <1>1, <1>2 DEF Request, SameRequest

(* The steps a request takes after its first one, and where they lead. *)
LEMMA StepEffect ==
  ASSUME TypeOK, NEW p \in Proc, Step(p) \/ Abort(p)
  PROVE  /\ SameRequest(p)
         /\ \/ At(p, "checked") /\ req'[p].step \in {"begun", "refused"}
            \/ At(p, "begun") /\ req'[p].step = "allocated"
            \/ At(p, "allocated") /\ req'[p].step \in {"inserted", "conflict"}
            \/ At(p, "inserted") /\ req'[p].step = "created"
            \/ At(p, "read") /\ req'[p].step = "ready"
            \/ At(p, "ready") /\ req'[p].step \in {"writing", "rooted"}
            \/ At(p, "writing") /\ req'[p].step = "rooted"
            \/ At(p, "rooted") /\ req'[p].step \in {"edited", "removed"}
            \/ req[p].step \in InTx /\ req'[p].step = "failed"
<1>1. CASE Begin(p)
  BY <1>1, GotoEffect DEF Begin, At
<1>2. CASE Allocate(p)
  BY <1>2, AllocateEffect DEF Allocate, At
<1>3. CASE Insert(p) \/ Conflict(p) \/ Commit(p)
  BY <1>3, GotoEffect DEF Insert, Conflict, Commit, At
<1>4. CASE Context(p)
  BY <1>4, ContextEffect DEF Context, At
<1>5. CASE Write(p)
  BY <1>5, GotoEffect DEF Write, At
<1>6. CASE LockRoot(p)
  BY <1>6, GotoEffect DEF LockRoot, At
<1>7. CASE EditCommit(p) \/ RemoveCommit(p)
  BY <1>7, GotoEffect DEF EditCommit, RemoveCommit, At
<1>8. CASE Abort(p)
  BY <1>8, GotoEffect DEF Abort
<1> QED
  BY <1>1, <1>2, <1>3, <1>4, <1>5, <1>6, <1>7, <1>8 DEF Step

(* How a request begins. *)
LEMMA ArriveEffect ==
  ASSUME TypeOK, RootInv, NEW p \in Proc, Arrive(p)
  PROVE  /\ UNCHANGED <<rows, suspended, locks>>
         /\ At(p, "idle")
         /\ \/ /\ req'[p].step \in {"checked", "replayed"}
               /\ req'[p].kind = "send" /\ req'[p].nonce \in Nonce
               /\ req'[p].target # None => Live(req'[p].target)
            \/ /\ req'[p].step = "read"
               /\ req'[p].target \in Proc /\ Live(req'[p].target)
               /\ req'[p].kind = "remove" \/ (req'[p].kind = "edit" /\ req'[p].old \in Proc)
<1>1. ASSUME NEW u \in User, NEW n \in Nonce, NEW r \in Proc \cup {None},
             NEW t \in Proc \cup {None}, Send(p, u, n, r, t)
      PROVE  /\ req'[p].step \in {"checked", "replayed"}
             /\ req'[p].kind = "send" /\ req'[p].nonce \in Nonce
             /\ req'[p].target # None => Live(req'[p].target)
  <2>1. Thread(r, t) # None => Live(Thread(r, t))
    BY <1>1, ThreadType DEF Send, Live
  <2> QED
    BY <1>1, <2>1 DEF Send, TypeOK
<1>2. ASSUME NEW u \in User, NEW t \in Proc, EditRead(p, u, t)
      PROVE  /\ req'[p].step = "read" /\ req'[p].target = t /\ Live(t)
             /\ req'[p].kind = "edit" /\ req'[p].old \in Proc
  <2>1. message[t].text \in Proc
    BY <1>2, Existing DEF EditRead, Live, Message
  <2> QED
    BY <1>2, <2>1 DEF EditRead, TypeOK, Live
<1>3. ASSUME NEW u \in User, NEW t \in Proc, RemoveRead(p, u, t)
      PROVE  /\ req'[p].step = "read" /\ req'[p].target = t /\ Live(t)
             /\ req'[p].kind = "remove"
  BY <1>3 DEF RemoveRead, TypeOK, Live
<1>4. At(p, "idle") /\ UNCHANGED <<rows, suspended, locks>>
  BY DEF Arrive, Send, EditRead, RemoveRead, At, Idle
<1> QED
  BY <1>1, <1>2, <1>3, <1>4 DEF Arrive

(* The step that makes a message visible. *)
LEMMA CommitEffect ==
  ASSUME TypeOK, KindInv, OwnInv, NEW p \in Proc, Commit(p)
  PROVE  /\ ~Live(p) /\ At(p, "inserted") /\ message'[p] = Inserted(p)
         /\ \A i \in Proc \ {p} : SameMessage(i)
         /\ head' = req[p].seq /\ last' = p
<1>1. ~Live(p) /\ message'[p] = Inserted(p)
  BY DEF Commit, At, OwnInv
<1>2. ASSUME NEW i \in Proc \ {p}
      PROVE  SameMessage(i)
  <2>1. CASE i = req[p].target
    <3>1. message[i] \in Message
      BY <2>1, Existing DEF KindInv, KindOf, Commit, At
    <3>2. PICK k : message'[i] = [message[i] EXCEPT !.replies = k]
      BY <2>1 DEF Commit
    <3> QED
      BY <3>1, <3>2 DEF SameMessage, Message
  <2>2. CASE i # req[p].target
    BY <2>2 DEF Commit, SameMessage
  <2> QED
    BY <2>1, <2>2
<1> QED
  BY <1>1, <1>2 DEF Commit

(* Messages are never withdrawn, renumbered or given another identity. *)
LEMMA Lasting ==
  ASSUME TypeOK, KindInv, OwnInv, RootInv, [Next]_vars, NEW i \in Proc, Live(i)
  PROVE  Live(i)' /\ SameMessage(i)
<1>1. CASE \A p \in Proc : ~Commit(p)
  BY <1>1, QuietStep DEF Quiet, SameMessage, Live
<1>2. ASSUME NEW p \in Proc, Commit(p)
      PROVE  Live(i)' /\ SameMessage(i)
  BY <1>2, CommitEffect DEF SameMessage, Live
<1> QED
  BY <1>1, <1>2

-----------------------------------------------------------------------------
(* Every step keeps the parts of the invariant. *)

LEMMA LockStep ==
  ASSUME TypeOK, LockInv, OwnInv, KindInv, RootInv, [Next]_vars
  PROVE  LockInv'
<1>1. CASE UNCHANGED vars
  BY <1>1 DEF LockInv, vars, rows, conversation, locks
<1>2. ASSUME NEW p \in Proc, Arrive(p)
      PROVE  LockInv'
  BY <1>2, ArriveEffect, Moves DEF LockInv, rows, conversation, locks, At
<1>3. ASSUME NEW p \in Proc, Allocate(p)
      PROVE  LockInv'
  <2>1. convLock = None /\ convLock' = p /\ head' = head
    BY <1>3 DEF Allocate, rows, conversation
  <2> QED
    BY <1>3, <2>1, AllocateEffect, Moves DEF LockInv, Step
<1>4. ASSUME NEW p \in Proc, Insert(p)
      PROVE  LockInv'
  <2>1. convLock' = convLock /\ head' = head /\ At(p, "allocated")
    BY <1>4 DEF Insert, rows, conversation
  <2>2. req'[p].step = "inserted" /\ req'[p].seq = req[p].seq
    BY <1>4, <2>1, GotoEffect DEF Insert, At
  <2> QED
    BY <1>4, <2>1, <2>2, Moves DEF LockInv, Step, At
<1>5. ASSUME NEW p \in Proc, Commit(p)
      PROVE  LockInv'
  <2>1. convLock = p /\ convLock' = None /\ req'[p].step = "created"
    BY <1>5, GotoEffect DEF Commit, At, LockInv, Release
  <2> QED
    BY <1>5, <2>1, Moves DEF LockInv, Step
<1>6. ASSUME NEW p \in Proc, Conflict(p) \/ EditCommit(p) \/ RemoveCommit(p) \/ Abort(p)
      PROVE  LockInv'
  <2>1. head' = head /\ Release(p)
    BY <1>6 DEF Conflict, EditCommit, RemoveCommit, Abort, rows, conversation
  <2>2. req'[p].step \in End
    BY <1>6, GotoEffect DEF Conflict, EditCommit, RemoveCommit, Abort, At
  <2> QED
    BY <1>6, <2>1, <2>2, Moves DEF LockInv, Step, Release
<1>7. ASSUME NEW p \in Proc, Begin(p) \/ Context(p) \/ Write(p) \/ LockRoot(p)
      PROVE  LockInv'
  <2>1. head' = head /\ convLock' = convLock
    BY <1>7 DEF Begin, Context, Write, LockRoot, rows, conversation, locks
  <2>2. req[p].step \notin Holding
    BY <1>7 DEF Begin, Context, Write, LockRoot, At
  <2>3. req'[p].step \notin Holding
    BY <1>7, StepEffect DEF Begin, Context, Write, LockRoot, At, Step
  <2> QED
    BY <1>7, <2>1, <2>2, <2>3, Moves DEF LockInv, Step
<1>8. ASSUME NEW u \in User, Suspend(u)
      PROVE  LockInv'
  BY <1>8 DEF Suspend, LockInv, rows, conversation, locks
<1> QED
  BY <1>1, <1>2, <1>3, <1>4, <1>5, <1>6, <1>7, <1>8 DEF Next, Step

(* A step of one process is not the commit of another. *)
LEMMA CommitAlone ==
  ASSUME TypeOK, NEW p \in Proc, Arrive(p) \/ Step(p) \/ Abort(p),
         NEW q \in Proc \ {p}
  PROVE  ~Commit(q)
<1>1. req'[q] = req[q]
  BY Moves
<1>2. Commit(q) => At(q, "inserted") /\ req'[q].step = "created"
  BY GotoEffect DEF Commit, At
<1> QED
  BY <1>1, <1>2 DEF At

LEMMA OwnStep ==
  ASSUME TypeOK, OwnInv, KindInv, RootInv, [Next]_vars
  PROVE  OwnInv'
<1>1. CASE UNCHANGED vars
  BY <1>1 DEF OwnInv, vars, rows, conversation, At, Live
<1>2. ASSUME NEW p \in Proc, Arrive(p) \/ Step(p) \/ Abort(p), ~Commit(p)
      PROVE  OwnInv'
  <2>1. \A q \in Proc : ~Commit(q)
    BY <1>2, Moves, CommitAlone
  <2> QED
    BY <1>2, <2>1, QuietStep, Moves DEF OwnInv, At, Live, Quiet, SameMessage
<1>3. ASSUME NEW p \in Proc, Commit(p)
      PROVE  OwnInv'
  BY <1>3, CommitEffect, Moves, GotoEffect DEF OwnInv, At, Live, SameMessage, Commit, Step
<1>4. ASSUME NEW u \in User, Suspend(u)
      PROVE  OwnInv'
  BY <1>4 DEF Suspend, OwnInv, rows, conversation, At, Live
<1> QED
  BY <1>1, <1>2, <1>3, <1>4 DEF Next

LEMMA GaplessStep ==
  ASSUME TypeOK, LockInv, OwnInv, KindInv, RootInv, Gapless, [Next]_vars
  PROVE  Gapless'
<1>1. CASE Quiet
  <2>1. \A i \in Proc : Live(i)' <=> Live(i)
    BY <1>1 DEF Quiet, SameMessage, Live
  <2>2. \A i \in Proc : Live(i) => message'[i].seq = message[i].seq
    BY <1>1 DEF Quiet, SameMessage
  <2>3. {message[i].seq : i \in {j \in Proc : Live(j)}}' = {message[i].seq : i \in {j \in Proc : Live(j)}}
    BY <2>1, <2>2
  <2>4. head' = head /\ last' = last
    BY <1>1 DEF Quiet
  <2> QED
    BY <2>1, <2>2, <2>3, <2>4 DEF Gapless, TypeOK
<1>2. ASSUME NEW p \in Proc, Commit(p)
      PROVE  Gapless'
  <2>1. /\ ~Live(p) /\ At(p, "inserted") /\ message'[p] = Inserted(p)
        /\ \A i \in Proc \ {p} : SameMessage(i)
        /\ head' = head + 1 /\ last' = p
    BY <1>2, CommitEffect DEF LockInv, At
  <2>2. \A i \in Proc : Live(i)' <=> Live(i) \/ i = p
    BY <2>1 DEF SameMessage, Live, Inserted
  <2>3. message'[p].seq = head + 1
    BY <2>1 DEF Inserted, LockInv, At
  <2>4. \A i \in Proc : Live(i) => message'[i].seq = message[i].seq /\ message[i].seq \in 1..head
    BY <2>1 DEF SameMessage, Gapless
  <2>5. head \in Nat /\ head + 1 # 0 /\ 1..(head + 1) = 1..head \cup {head + 1}
        /\ head + 1 \notin 1..head
    BY DEF TypeOK
  <2>6. {message[i].seq : i \in {j \in Proc : Live(j)}}'
          = {message[i].seq : i \in {j \in Proc : Live(j)}} \cup {head + 1}
    BY <2>2, <2>3, <2>4
  <2>7. ASSUME NEW i \in Proc, NEW j \in Proc, Live(i)', Live(j)',
               message'[i].seq = message'[j].seq
        PROVE  i = j
    BY <2>2, <2>3, <2>4, <2>5, <2>7 DEF Gapless
  <2>8. {message[i].seq : i \in {j \in Proc : Live(j)}}' = (1..head)'
    BY <2>1, <2>5, <2>6 DEF Gapless
  <2>9. (IF head = 0 THEN last = None ELSE last \in Proc /\ Live(last) /\ message[last].seq = head)'
    BY <2>1, <2>2, <2>3, <2>5
  <2> QED
    BY <2>7, <2>8, <2>9 DEF Gapless
<1> QED
  BY <1>1, <1>2, QuietStep

(* Nobody may commit a nonce while another one is between its insert and   *)
(* its commit: both hold the conversation.                                 *)
LEMMA NonceStep ==
  ASSUME TypeOK, LockInv, OwnInv, KindInv, RootInv, NonceInv, PostedOnce, [Next]_vars
  PROVE  NonceInv' /\ PostedOnce'
<1>1. ASSUME NEW p \in Proc, Commit(p)
      PROVE  NonceInv' /\ PostedOnce'
  <2>1. /\ ~Live(p) /\ At(p, "inserted") /\ message'[p] = Inserted(p)
        /\ \A i \in Proc \ {p} : SameMessage(i)
    BY <1>1, CommitEffect
  <2>2. \A q \in Proc \ {p} : req'[q] = req[q] /\ ~At(q, "inserted")
    BY <1>1, <2>1, Moves DEF LockInv, Step, At
  <2>3. req'[p].step = "created"
    BY <1>1, <2>1, GotoEffect DEF Commit, At
  <2>4. NonceInv'
    BY <2>2, <2>3 DEF NonceInv, At
  <2>5. \A i \in Proc : Live(i) => message[i].sender # req[p].user \/ message[i].nonce # req[p].nonce
    BY <2>1 DEF NonceInv, Sent, Live
  <2>6. PostedOnce'
    BY <2>1, <2>5 DEF PostedOnce, SameMessage, Live, Inserted
  <2> QED
    BY <2>4, <2>6
<1>2. ASSUME Quiet
      PROVE  PostedOnce'
  BY <1>2 DEF Quiet, SameMessage, PostedOnce, Live
<1>3. ASSUME Quiet, NEW u, NEW n
      PROVE  Sent(u, n)' = Sent(u, n)
  BY <1>3 DEF Quiet, SameMessage, Sent, Live
<1>4. ASSUME Quiet, \A q \in Proc : At(q, "inserted")' => At(q, "inserted") /\ req'[q].user = req[q].user /\ req'[q].nonce = req[q].nonce
      PROVE  NonceInv'
  BY <1>3, <1>4 DEF NonceInv, At
<1>5. ASSUME Quiet, UNCHANGED vars
      PROVE  NonceInv'
  BY <1>4, <1>5 DEF vars, At
<1>6. ASSUME Quiet, NEW p \in Proc, Arrive(p)
      PROVE  NonceInv'
  BY <1>4, <1>6, ArriveEffect, Moves DEF At
<1>7. ASSUME Quiet, NEW p \in Proc, Insert(p)
      PROVE  NonceInv'
  <2>1. Sent(req[p].user, req[p].nonce)' = {} /\ SameRequest(p)
    BY <1>3, <1>7, GotoEffect, StepEffect DEF Insert, At, Step, SameRequest
  <2> QED
    BY <1>3, <1>7, <2>1, Moves DEF NonceInv, At, SameRequest, Step
<1>8. ASSUME Quiet, NEW p \in Proc, Step(p) \/ Abort(p), ~Insert(p), ~Commit(p)
      PROVE  NonceInv'
  <2>1. CASE At(p, "allocated")
    <3>1. Conflict(p) \/ Abort(p)
      BY <1>8, <2>1 DEF Step, Begin, Allocate, Context, Write, LockRoot, EditCommit, RemoveCommit, At
    <3>2. req'[p].step \in {"conflict", "failed"}
      BY <2>1, <3>1, GotoEffect DEF Conflict, Abort, At
    <3> QED
      BY <1>4, <1>8, <3>2, Moves DEF At
  <2>2. CASE ~At(p, "allocated")
    <3>1. req'[p].step # "inserted"
      BY <1>8, <2>2, StepEffect
    <3> QED
      BY <1>4, <1>8, <3>1, Moves DEF At
  <2> QED
    BY <2>1, <2>2
<1>9. ASSUME Quiet, NEW u \in User, Suspend(u)
      PROVE  NonceInv'
  BY <1>4, <1>9 DEF Suspend, At
<1> QED
  BY <1>1, <1>2, <1>5, <1>6, <1>7, <1>8, <1>9, QuietStep DEF Next

(* A suspension waits for the sends that have begun: their user is locked. *)
LEMMA SenderStep ==
  ASSUME TypeOK, SenderInv, KindInv, RootInv, [Next]_vars
  PROVE  SenderInv'
<1>1. CASE UNCHANGED vars
  BY <1>1 DEF SenderInv, vars
<1>2. ASSUME NEW p \in Proc, Arrive(p)
      PROVE  SenderInv'
  BY <1>2, ArriveEffect, Moves DEF SenderInv
<1>3. ASSUME NEW p \in Proc, Step(p) \/ Abort(p)
      PROVE  SenderInv'
  <2>1. suspended' = suspended
    BY <1>3 DEF Step, Begin, Allocate, Insert, Conflict, Commit, Context, Write, LockRoot,
                EditCommit, RemoveCommit, Abort
  <2>2. req'[p].step \in {"begun"} \cup Holding => req'[p].user \notin suspended
    <3>1. CASE At(p, "checked")
      <4>1. Begin(p)
        BY <1>3, <3>1 DEF Step, Allocate, Insert, Conflict, Commit, Context, Write, LockRoot,
                          EditCommit, RemoveCommit, Abort, At
      <4>2. req'[p].step = (IF req[p].user \in suspended THEN "refused" ELSE "begun")
        BY <3>1, <4>1, GotoEffect DEF Begin, At
      <4> QED
        BY <1>3, <4>2, StepEffect DEF SameRequest
    <3>2. CASE ~At(p, "checked")
      BY <1>3, <3>2, StepEffect DEF SameRequest, SenderInv, At
    <3> QED
      BY <3>1, <3>2
  <2> QED
    BY <1>3, <2>1, <2>2, Moves DEF SenderInv
<1>4. ASSUME NEW u \in User, Suspend(u)
      PROVE  SenderInv'
  BY <1>4 DEF Suspend, SenderInv, KindInv, KindOf, Idle
<1> QED
  BY <1>1, <1>2, <1>3, <1>4 DEF Next

LEMMA KindStep ==
  ASSUME TypeOK, OwnInv, KindInv, RootInv, [Next]_vars
  PROVE  KindInv'
<1>1. \A i \in Proc : Live(i) => Live(i)' /\ message'[i].root = message[i].root
  BY Lasting DEF SameMessage
<1>2. ASSUME NEW q \in Proc, req'[q] = req[q]
      PROVE  KindOf(q)'
  <2>1. KindOf(q)
    BY DEF KindInv
  <2>2. req[q].target \in Proc \cup {None} \/ req[q].step = "idle"
    BY DEF TypeOK, Request, Idle
  <2> QED
    BY <1>1, <1>2, <2>1, <2>2 DEF KindOf, At
<1>3. ASSUME NEW p \in Proc, Arrive(p)
      PROVE  KindInv'
  <2>1. KindOf(p)'
    BY <1>1, <1>3, ArriveEffect DEF KindOf, At, rows, Live
  <2> QED
    BY <1>2, <1>3, <2>1, Moves DEF KindInv
<1>4. ASSUME NEW p \in Proc, Step(p) \/ Abort(p)
      PROVE  KindInv'
  <2>1. KindOf(p) /\ req[p].target \in Proc \cup {None}
    <3>1. req[p].step # "idle"
      BY <1>4, StepEffect DEF At
    <3> QED
      BY <3>1, Underway DEF KindInv, Request, Idle
  <2>2. SameRequest(p)
    BY <1>4, StepEffect
  <2>3. At(p, "ready") /\ req'[p].step = "writing"
          => req[p].kind = "remove" /\ message[req[p].target].root # None
    <3>1. At(p, "ready") => Write(p) \/ Abort(p)
      BY <1>4 DEF Step, Begin, Allocate, Insert, Conflict, Commit, Context, LockRoot,
                  EditCommit, RemoveCommit, At
    <3> QED
      BY <3>1, GotoEffect DEF Write, Abort, At
  <2>4. KindOf(p)'
    BY <1>1, <1>4, <2>1, <2>2, <2>3, StepEffect DEF KindOf, SameRequest, At
  <2> QED
    BY <1>2, <1>4, <2>4, Moves DEF KindInv
<1>5. ASSUME UNCHANGED req
      PROVE  KindInv'
  BY <1>2, <1>5 DEF KindInv
<1> QED
  BY <1>3, <1>4, <1>5 DEF Next, Suspend, vars

LEMMA RootStep ==
  ASSUME TypeOK, OwnInv, KindInv, RootInv, [Next]_vars
  PROVE  RootInv'
<1>1. \A i \in Proc : Live(i) => Live(i)' /\ message'[i].root = message[i].root
  BY Lasting DEF SameMessage
<1>2. \A i \in Proc : Live(i) /\ message[i].root # None => message[i].root \in Proc
  BY Existing DEF Message
<1>3. CASE Quiet
  BY <1>1, <1>2, <1>3 DEF Quiet, SameMessage, RootInv, Live
<1>4. ASSUME NEW p \in Proc, Commit(p)
      PROVE  RootInv'
  <2>1. /\ At(p, "inserted") /\ message'[p] = Inserted(p)
        /\ \A i \in Proc \ {p} : SameMessage(i)
    BY <1>4, CommitEffect
  <2>2. message'[p].root = req[p].target /\ req[p].target \in Proc \cup {None}
    BY <2>1, Underway DEF Inserted, At, Idle, Request
  <2>3. req[p].target # None => Live(req[p].target)
    BY <2>1 DEF KindInv, KindOf, At
  <2> QED
    BY <1>1, <1>2, <2>1, <2>2, <2>3 DEF RootInv, SameMessage, Live
<1> QED
  BY <1>3, <1>4, QuietStep

-----------------------------------------------------------------------------
(* The theorems. *)

LEMMA InitIInv == ASSUME Init PROVE IInv
<1>1. TypeOK
  BY DEF Init, TypeOK, Idle
<1>2. LockInv /\ OwnInv /\ NonceInv /\ PostedOnce /\ SenderInv /\ KindInv /\ RootInv
  BY DEF Init, LockInv, OwnInv, NonceInv, PostedOnce, SenderInv, KindInv, KindOf, RootInv,
         Idle, Absent, Live, At
<1>3. Gapless
  <2>1. {message[i].seq : i \in {j \in Proc : Live(j)}} = {} /\ 1..0 = {}
    BY DEF Init, Live, Absent
  <2> QED
    BY <2>1 DEF Init, Gapless, Live, Absent
<1> QED
  BY <1>1, <1>2, <1>3 DEF IInv

(* The inductive invariant: while a transaction holds the conversation its *)
(* number is the next one and its nonce is nobody else's.                  *)
THEOREM Invariance == Spec => []IInv
<1>1. Init => IInv
  BY InitIInv
<1>2. IInv /\ [Next]_vars => IInv'
  BY TypeStep, LockStep, OwnStep, GaplessStep, NonceStep, SenderStep, KindStep, RootStep
  DEF IInv
<1> QED
  BY <1>1, <1>2, PTL DEF Spec

(* The rows, locks and requests keep their types.                          *)
THEOREM TypeCorrect == Spec => []TypeOK
<1>1. IInv => TypeOK
  BY DEF IInv
<1> QED
  BY <1>1, Invariance, PTL

(* The message_seq of the visible messages has no gap and no duplicate,    *)
(* whatever transactions are in flight or were aborted.                    *)
THEOREM GaplessHolds == Spec => []Gapless
<1>1. IInv => Gapless
  BY DEF IInv
<1> QED
  BY <1>1, Invariance, PTL

(* However often a send is retried, one message has its nonce.             *)
THEOREM PostedOnceHolds == Spec => []PostedOnce
<1>1. IInv => PostedOnce
  BY DEF IInv
<1> QED
  BY <1>1, Invariance, PTL

(* No message of a sender appears after the sender's suspension committed. *)
THEOREM NoPostBySuspendedHolds == Spec => NoPostBySuspended
<1>1. IInv /\ [Next]_vars =>
        [\A i \in Proc : ~Live(i) /\ Live(i)' => message'[i].sender \notin suspended]_message
  <2> SUFFICES ASSUME IInv, [Next]_vars, NEW i \in Proc, ~Live(i), Live(i)'
               PROVE  message'[i].sender \notin suspended
    OBVIOUS
  <2>1. ~Quiet
    BY DEF Quiet, SameMessage, Live
  <2>2. PICK p \in Proc : Commit(p)
    BY <2>1, QuietStep DEF IInv
  <2>3. i = p /\ At(p, "inserted") /\ message'[p] = Inserted(p)
    BY <2>2, CommitEffect DEF IInv, SameMessage, Live
  <2> QED
    BY <2>3 DEF IInv, SenderInv, Inserted, At
<1> QED
  BY <1>1, Invariance, PTL DEF Spec, NoPostBySuspended

-----------------------------------------------------------------------------
(* A message is younger than its root, and rows are locked by the steps    *)
(* that say so.                                                            *)

(* Every set of numbers has a least one. *)
LEMMA Least ==
  ASSUME NEW T \in SUBSET Nat, T # {}
  PROVE  \E m \in T : \A n \in T : m <= n
<1>1. PICK m \in T : \A n \in T : ~ (<<n, m>> \in OpToRel(<, Nat))
  BY NatLessThanWellFounded, WFMin
<1>2. \A n \in T : ~ (n < m)
  BY <1>1, Zenon DEF OpToRel
<1> QED
  BY <1>2

LEMMA ThreadStep ==
  ASSUME IInv, ThreadInv, [Next]_vars
  PROVE  ThreadInv'
<1> USE DEF IInv
<1>1. \A i \in Proc : Live(i) => /\ Live(i)' /\ message'[i].root = message[i].root
                                 /\ message'[i].seq = message[i].seq
  BY Lasting DEF SameMessage
<1>2. \A i \in Proc : Live(i) /\ message[i].root # None
                        => message[i].root \in Proc /\ Live(message[i].root)
  BY Existing DEF Message, RootInv
<1>3. CASE Quiet
  BY <1>1, <1>2, <1>3 DEF Quiet, SameMessage, ThreadInv, Live
<1>4. ASSUME NEW p \in Proc, Commit(p)
      PROVE  ThreadInv'
  <2>1. /\ At(p, "inserted") /\ message'[p] = Inserted(p)
        /\ \A i \in Proc \ {p} : SameMessage(i)
    BY <1>4, CommitEffect
  <2>2. /\ message'[p].root = req[p].target /\ req[p].target \in Proc \cup {None}
        /\ message'[p].seq = head + 1
    BY <2>1, Underway DEF Inserted, At, Idle, Request, LockInv
  <2>3. req[p].target # None => Live(req[p].target)
    BY <2>1 DEF KindInv, KindOf, At
  (* What is there already has a number up to the head. *)
  <2>4. \A i \in Proc : Live(i) => message[i].seq \in 1..head
    BY DEF Gapless
  <2>5. head \in Nat
    BY DEF TypeOK
  <2> QED
    BY <1>1, <1>2, <2>1, <2>2, <2>3, <2>4, <2>5 DEF ThreadInv, SameMessage, Live
<1> QED
  BY <1>3, <1>4, QuietStep

(* The rows of a request that does not move stay the same. *)
LEMMA RowsStay ==
  ASSUME IInv, [Next]_vars, NEW q \in Proc, req'[q] = req[q]
  PROVE  RowsOf(q)' = RowsOf(q)
<1>1. At(q, "rooted") => req[q].target \in Proc /\ Live(req[q].target)
  BY Underway DEF IInv, KindInv, KindOf, At, Idle, Request
<1>2. At(q, "rooted") => message'[req[q].target].root = message[req[q].target].root
  BY <1>1, Lasting DEF IInv, SameMessage
<1> QED
  BY <1>2 DEF RowsOf, At

(* What the locks and the rows of p are after one of its steps. *)
LEMMA RowMove ==
  ASSUME IInv, RowInv, NEW p \in Proc, Arrive(p) \/ Step(p) \/ Abort(p),
         \A q \in Proc \ {p}, i \in Proc : messageLock'[i] = q <=> messageLock[i] = q,
         \A i \in Proc : messageLock'[i] = p <=> i \in RowsOf(p)',
         \A q \in Proc \ {p} : RowsOf(q)' = RowsOf(q)
  PROVE  RowInv'
BY DEF RowInv

LEMMA RowStep ==
  ASSUME IInv, RowInv, [Next]_vars
  PROVE  RowInv'
<1> USE DEF IInv
<1>1. ASSUME UNCHANGED <<messageLock, req>>
      PROVE  RowInv'
  BY <1>1, RowsStay DEF RowInv
<1>2. ASSUME NEW p \in Proc, Arrive(p) \/ Begin(p) \/ Allocate(p) \/ Context(p)
      PROVE  RowInv'
  <2>1. messageLock' = messageLock
    BY <1>2, ArriveEffect DEF Begin, Allocate, Context, locks
  <2>2. RowsOf(p) = {} /\ RowsOf(p)' = {}
    BY <1>2, ArriveEffect, StepEffect DEF Begin, Allocate, Context, RowsOf, At, Step
  <2> QED
    BY <1>2, <2>1, <2>2, Moves, RowsStay, RowMove DEF Step, RowInv
<1>3. ASSUME NEW p \in Proc, Insert(p)
      PROVE  RowInv'
  <2>1. At(p, "allocated") /\ RowsOf(p) = {}
    BY <1>3 DEF Insert, RowsOf, At
  <2>2. req[p].target \in Proc \cup {None}
    BY <2>1, Underway DEF At, Idle, Request
  <2>3. RowsOf(p)' = {req[p].target} \ {None}
    BY <1>3, <2>1, GotoEffect DEF Insert, RowsOf, At, SameRequest
  <2>4. \A i \in Proc : messageLock'[i] = p <=> i \in RowsOf(p)'
    BY <1>3, <2>1, <2>2, <2>3 DEF Insert, RowInv, TypeOK
  <2>5. \A q \in Proc \ {p}, i \in Proc : messageLock'[i] = q <=> messageLock[i] = q
    BY <1>3, <2>2 DEF Insert, TypeOK
  <2> QED
    BY <1>3, <2>4, <2>5, Moves, RowsStay, RowMove DEF Step
<1>4. ASSUME NEW p \in Proc, Write(p)
      PROVE  RowInv'
  <2>1. At(p, "ready") /\ RowsOf(p) = {}
    BY <1>4 DEF Write, RowsOf, At
  <2>2. PICK t \in Proc : t = req[p].target /\ Live(t)
    BY <2>1, Underway DEF KindInv, KindOf, At, Idle, Request
  <2>3. message' = message
    BY <1>4 DEF Write, rows
  <2>4. RowsOf(p)' = {t}
    <3>1. SameRequest(p)
          /\ req'[p].step = (IF req[p].kind = "remove" /\ message[t].root # None THEN "writing" ELSE "rooted")
      BY <1>4, <2>1, <2>2, GotoEffect DEF Write, At
    <3> QED
      BY <2>2, <2>3, <3>1 DEF RowsOf, At, SameRequest
  <2>5. \A i \in Proc : messageLock'[i] = p <=> i \in RowsOf(p)'
    BY <1>4, <2>1, <2>2, <2>4 DEF Write, RowInv, TypeOK
  <2>6. \A q \in Proc \ {p}, i \in Proc : messageLock'[i] = q <=> messageLock[i] = q
    BY <1>4, <2>2 DEF Write, TypeOK
  <2> QED
    BY <1>4, <2>5, <2>6, Moves, RowsStay, RowMove DEF Step
<1>5. ASSUME NEW p \in Proc, LockRoot(p)
      PROVE  RowInv'
  <2>1. At(p, "writing") /\ RowsOf(p) = {req[p].target} /\ req[p].kind = "remove"
    BY <1>5 DEF LockRoot, RowsOf, At, KindInv, KindOf
  <2>2. PICK t \in Proc : t = req[p].target /\ Live(t) /\ message[t].root # None
    BY <2>1, Underway DEF KindInv, KindOf, At, Idle, Request
  <2>3. PICK r \in Proc : r = message[t].root
    BY <2>2, Existing DEF Message
  <2>4. RowsOf(p)' = {t, r}
    <3>1. message' = message /\ SameRequest(p) /\ req'[p].step = "rooted"
      BY <1>5, <2>1, GotoEffect DEF LockRoot, At, rows
    <3> QED
      BY <2>1, <2>2, <2>3, <3>1 DEF RowsOf, At, SameRequest
  <2>5. messageLock' = [messageLock EXCEPT ![r] = p] /\ messageLock[r] = None
    BY <1>5, <2>2, <2>3 DEF LockRoot
  <2>6. \A i \in Proc : messageLock'[i] = p <=> i \in RowsOf(p)'
    BY <2>1, <2>2, <2>4, <2>5 DEF RowInv, TypeOK
  <2>7. \A q \in Proc \ {p}, i \in Proc : messageLock'[i] = q <=> messageLock[i] = q
    BY <2>5 DEF TypeOK
  <2> QED
    BY <1>5, <2>6, <2>7, Moves, RowsStay, RowMove DEF Step
<1>6. ASSUME NEW p \in Proc,
             Commit(p) \/ Conflict(p) \/ EditCommit(p) \/ RemoveCommit(p) \/ Abort(p)
      PROVE  RowInv'
  <2>1. Release(p)
    BY <1>6 DEF Commit, Conflict, EditCommit, RemoveCommit, Abort
  <2>2. req'[p].step \in End
    BY <1>6, GotoEffect DEF Commit, Conflict, EditCommit, RemoveCommit, Abort, At
  <2>3. RowsOf(p)' = {}
    BY <2>2 DEF RowsOf, At
  <2>4. \A i \in Proc : messageLock'[i] = (IF messageLock[i] = p THEN None ELSE messageLock[i])
    BY <2>1 DEF Release
  <2> QED
    BY <1>6, <2>3, <2>4, Moves, RowsStay, RowMove DEF Step
<1> QED
  BY <1>1, <1>2, <1>3, <1>4, <1>5, <1>6 DEF Next, Step, Suspend, locks, vars

(* Threads have no circles, and exactly the rows of the transactions under *)
(* way are locked: each write of a message is made under its row's lock,   *)
(* and no lock outlives its transaction.                                   *)
THEOREM RowsLocked == Spec => [](ThreadInv /\ RowInv)
<1>1. Init => ThreadInv /\ RowInv
  BY DEF Init, ThreadInv, RowInv, RowsOf, Live, Absent, Idle, At
<1>2. IInv /\ ThreadInv /\ RowInv /\ [Next]_vars => (ThreadInv /\ RowInv)'
  BY ThreadStep, RowStep
<1> QED
  BY <1>1, <1>2, Invariance, PTL DEF Spec

(* Sends alone, or edits and removals alone, never wait for each other in  *)
(* a circle, however deep clients nest the threads: each deadlock has a    *)
(* send in it that holds the conversation and waits for a root, and a      *)
(* change of the last message that waits for the conversation.             *)
THEOREM DeadlockNeedsBoth == Spec => []DeadlockShape
<1>1. IInv /\ ThreadInv /\ RowInv => DeadlockShape
  <2> SUFFICES ASSUME IInv, ThreadInv, RowInv, NEW p \in Proc,
                      NEW S \in SUBSET Proc, p \in S, \A q \in S : Holder(q) \in S
               PROVE  \E s, c \in S : /\ At(s, "allocated")
                                      /\ At(c, "rooted") /\ req[c].wasLast /\ Holder(c) = s
    BY DEF DeadlockShape, Deadlocked
  <2> USE DEF IInv
  <2>1. ASSUME NEW q \in S
        PROVE  req[q].step \in {"begun", "allocated", "ready", "writing", "rooted"}
    BY <2>1 DEF Holder, At
  <2>2. ASSUME NEW q \in S
        PROVE  /\ req[q].target \in Proc \cup {None}
               /\ At(q, "ready") \/ At(q, "writing") \/ At(q, "rooted")
                    => req[q].target \in Proc /\ Live(req[q].target)
    BY <2>1, Underway DEF KindInv, KindOf, At, Idle, Request
  (* A change of the circle that waits for the conversation: a send has it. *)
  <2>3. ASSUME NEW c \in S, At(c, "rooted")
        PROVE  \E s \in S : At(s, "allocated") /\ req[c].wasLast /\ Holder(c) = s
    <3>1. req[c].wasLast /\ Holder(c) = convLock /\ convLock \in S
      BY <2>3 DEF Holder, At
    <3> QED
      BY <2>1, <3>1 DEF LockInv, At
  (* Whoever waits for a message's row waits for a change. *)
  <2>4. ASSUME NEW q \in S, NEW i \in Proc, Holder(q) = messageLock[i]
        PROVE  \E d \in S : (At(d, "writing") \/ At(d, "rooted")) /\ i \in RowsOf(d)
    <3>1. PICK d \in S : d = messageLock[i]
      BY <2>4
    <3>2. i \in RowsOf(d)
      BY <3>1 DEF RowInv
    <3> QED
      BY <2>1, <3>2 DEF RowsOf, At
  (* Among the removals that wait for the root of their reply, the one of    *)
  (* the oldest reply waits for somebody who is not such a removal.          *)
  <2>5. ASSUME NEW q \in S, At(q, "writing")
        PROVE  \E c \in S : At(c, "rooted")
    <3> DEFINE W == {d \in S : At(d, "writing")}
               T == {message[req[d].target].seq : d \in W}
    <3>1. \A d \in W : req[d].target \in Proc /\ Live(req[d].target)
      BY <2>2
    <3>2. T \in SUBSET Nat /\ T # {}
      <4>1. ASSUME NEW d \in W
            PROVE  message[req[d].target].seq \in Nat
        <5>1. PICK i \in Proc : i = req[d].target /\ Live(i)
          BY <3>1
        <5> QED
          BY <5>1, Existing DEF Message
      <4>2. q \in W
        BY <2>5
      <4> HIDE DEF W
      <4> QED
        BY <4>1, <4>2
    <3>3. PICK m \in T : \A n \in T : m <= n
      BY <3>2, Least
    <3>4. PICK d \in W : m = message[req[d].target].seq
      BY <3>3
    <3>5. PICK t \in Proc : t = req[d].target /\ Live(t) /\ message[t].root # None
      BY <3>1, <3>4 DEF KindInv, KindOf, At
    <3>6. PICK r \in Proc : r = message[t].root /\ Live(r) /\ message[r].seq < message[t].seq
      <4>1. message[t].root \in Proc
        BY <3>5, Existing DEF Message
      <4> QED
        BY <3>5, <4>1 DEF ThreadInv, RootInv
    <3>7. Holder(d) = messageLock[r]
      BY <3>4, <3>5, <3>6 DEF Holder, At
    <3>8. PICK c \in S : (At(c, "writing") \/ At(c, "rooted")) /\ r \in RowsOf(c)
      BY <2>4, <3>7
    <3>9. ~At(c, "writing")
      <4>1. SUFFICES ASSUME At(c, "writing")
                     PROVE  FALSE
        OBVIOUS
      <4>2. r = req[c].target
        BY <3>8, <4>1 DEF RowsOf, At
      <4>3. message[r].seq \in T
        BY <4>1, <4>2
      <4>4. message[r].seq \in Nat /\ message[t].seq \in Nat
        BY <3>5, <3>6, Existing DEF Message
      <4> HIDE DEF T
      <4> QED
        BY <3>3, <3>4, <3>5, <3>6, <4>3, <4>4
    <3> QED
      BY <3>8, <3>9
  <2>6. \E c \in S : At(c, "rooted")
    <3>1. ASSUME NEW q \in S, At(q, "allocated") \/ At(q, "ready")
          PROVE  \E c \in S : At(c, "rooted")
      <4>1. PICK i \in Proc : Holder(q) = messageLock[i]
        BY <2>2, <3>1 DEF Holder, At
      <4> QED
        BY <2>4, <2>5, <4>1
    <3>2. ASSUME NEW q \in S, At(q, "begun")
          PROVE  \E c \in S : At(c, "allocated")
      <4>1. convLock \in S
        BY <3>2 DEF Holder, At
      <4> QED
        BY <2>1, <4>1 DEF LockInv, At
    <3> QED
      BY <2>1, <2>5, <3>1, <3>2 DEF At
  <2> QED
    BY <2>3, <2>6
<1> QED
  BY <1>1, Invariance, RowsLocked, PTL

-----------------------------------------------------------------------------
(* A thread's count of replies. *)

LEMMA FewerReplies ==
  ASSUME FiniteInv, NEW r \in Proc
  PROVE  IsFiniteSet(Replies(r)) /\ Cardinality(Replies(r)) \in Nat
<1>1. Replies(r) \in SUBSET {i \in Proc : Live(i)}
  BY DEF Replies
<1>2. IsFiniteSet(Replies(r))
  BY <1>1, FS_Subset DEF FiniteInv
<1> QED
  BY <1>2, FS_CardinalityType

LEMMA FewerRepliesNext ==
  ASSUME FiniteInv', NEW r \in Proc
  PROVE  IsFiniteSet(Replies(r)') /\ Cardinality(Replies(r)') \in Nat
<1>1. Replies(r)' \in SUBSET {i \in Proc : Live(i)'}
  BY DEF Replies
<1>2. IsFiniteSet({i \in Proc : Live(i)'})
  BY DEF FiniteInv
<1>3. IsFiniteSet(Replies(r)')
  BY <1>1, <1>2, FS_Subset
<1> QED
  BY <1>3, FS_CardinalityType

LEMMA FiniteStep ==
  ASSUME IInv, FiniteInv, [Next]_vars
  PROVE  FiniteInv'
<1> USE DEF IInv
<1> DEFINE Posted == {i \in Proc : Live(i)}
<1>1. CASE Quiet
  <2>1. Posted' = Posted
    BY <1>1 DEF Quiet, SameMessage, Live
  <2> QED
    BY <2>1 DEF FiniteInv
<1>2. ASSUME NEW p \in Proc, Commit(p)
      PROVE  FiniteInv'
  <2>1. Posted' = Posted \cup {p}
    <3>1. message'[p] = Inserted(p) /\ \A i \in Proc \ {p} : SameMessage(i)
      BY <1>2, CommitEffect
    <3>2. message'[p].exists /\ \A i \in Proc \ {p} : message'[i].exists = message[i].exists
      BY <3>1 DEF SameMessage, Inserted
    <3> QED
      BY <3>2 DEF Live
  <2>2. IsFiniteSet(Posted)
    BY DEF FiniteInv
  <2> HIDE DEF Posted
  <2>3. IsFiniteSet(Posted \cup {p})
    BY <2>2, FS_AddElement
  <2> QED
    BY <2>1, <2>3 DEF Posted, FiniteInv
<1> QED
  BY <1>1, <1>2, QuietStep

(* A message and its thread: the fields a count of replies depends on.     *)
SameCount(i) ==
  /\ message'[i].exists = message[i].exists
  /\ Live(i) => /\ message'[i].root = message[i].root
                /\ message'[i].deleted = message[i].deleted
                /\ message'[i].replies = message[i].replies

LEMMA CountsStay ==
  ASSUME IInv, [Next]_vars, \A p \in Proc : ~Commit(p) /\ ~RemoveCommit(p), NEW i \in Proc
  PROVE  SameCount(i)
<1> USE DEF IInv
<1>1. ASSUME message' = message
      PROVE  SameCount(i)
  BY <1>1 DEF SameCount
<1>2. ASSUME NEW p \in Proc, Arrive(p)
      PROVE  SameCount(i)
  BY <1>1, <1>2, ArriveEffect DEF rows
<1>3. ASSUME NEW p \in Proc, EditCommit(p)
      PROVE  SameCount(i)
  <2>1. PICK t \in Proc : t = req[p].target /\ Live(t)
    BY <1>3, Underway DEF EditCommit, At, Idle, KindInv, KindOf, Request
  <2>2. message[t] \in Message
    BY <2>1, Existing
  <2>3. message' = [message EXCEPT ![t] = [message[t] EXCEPT !.text = p]]
    BY <1>3, <2>1 DEF EditCommit
  <2> QED
    BY <2>2, <2>3 DEF SameCount, TypeOK, Message
<1>4. ASSUME NEW p \in Proc,
             \/ Begin(p) \/ Allocate(p) \/ Insert(p) \/ Conflict(p)
             \/ Context(p) \/ Write(p) \/ LockRoot(p) \/ Abort(p)
      PROVE  SameCount(i)
  BY <1>1, <1>4 DEF Begin, Allocate, Insert, Conflict, Context, Write, LockRoot, Abort, rows
<1> QED
  BY <1>1, <1>2, <1>3, <1>4 DEF Next, Step, Suspend, rows, vars

(* A commit adds one to the count of the root and to its replies; it adds  *)
(* to no other thread, its own included.                                   *)
LEMMA CountCommit ==
  ASSUME IInv, FiniteInv, FiniteInv', NoPhantomReplies, NEW p \in Proc, Commit(p)
  PROVE  NoPhantomReplies'
<1> USE DEF IInv
<1>1. /\ ~Live(p) /\ At(p, "inserted") /\ message'[p] = Inserted(p)
      /\ \A i \in Proc \ {p} : SameMessage(i)
  BY CommitEffect
<1>2. PICK t \in Proc \cup {None} : t = req[p].target /\ (t # None => Live(t))
  BY <1>1, Underway DEF KindInv, KindOf, At, Idle, Request
<1>3. ASSUME NEW i \in Proc \ {p}, Live(i)
      PROVE  /\ Live(i)' /\ message'[i].root = message[i].root
             /\ message'[i].deleted = message[i].deleted
             /\ message'[i].replies = IF i = t THEN message[i].replies + 1 ELSE message[i].replies
  <2>1. message[i] \in Message
    BY <1>3, Existing
  <2>2. message'[i] = IF i = t THEN [message[i] EXCEPT !.replies = message[i].replies + 1] ELSE message[i]
    BY <1>2 DEF Commit
  <2> QED
    BY <1>3, <2>1, <2>2 DEF Message, Live
<1>4. ASSUME NEW r \in Proc, Live(r)'
      PROVE  message'[r].replies <= Cardinality(Replies(r)')
  <2>1. IsFiniteSet(Replies(r)') /\ Cardinality(Replies(r)') \in Nat
    BY FewerRepliesNext
  <2>2. CASE r = p
    BY <1>1, <2>1, <2>2 DEF Inserted
  <2>3. CASE r # p
    <3>1. Live(r) /\ message[r].replies \in Nat
      BY <1>1, <1>4, <2>3, Existing DEF SameMessage, Live, Message
    <3>2. message[r].replies <= Cardinality(Replies(r))
      BY <3>1 DEF NoPhantomReplies
    <3>3. IsFiniteSet(Replies(r)) /\ Cardinality(Replies(r)) \in Nat
      BY FewerReplies
    <3>4. p \notin Replies(r)
      BY <1>1 DEF Replies
    <3>5. CASE r = t
      <4>1. Replies(r)' = Replies(r) \cup {p}
        BY <1>1, <1>2, <1>3, <3>5 DEF Replies, SameMessage, Live, Inserted
      <4>2. Cardinality(Replies(r)') = Cardinality(Replies(r)) + 1
        BY <3>3, <3>4, <4>1, FS_AddElement
      <4> QED
        BY <1>3, <2>3, <3>1, <3>2, <3>3, <3>5, <4>2
    <3>6. CASE r # t
      <4>1. Replies(r)' = Replies(r)
        BY <1>1, <1>2, <1>3, <3>6 DEF Replies, SameMessage, Live, Inserted
      <4> QED
        BY <1>3, <2>3, <3>1, <3>2, <3>6, <4>1
    <3> QED
      BY <3>5, <3>6
  <2> QED
    BY <2>2, <2>3
<1> QED
  BY <1>4 DEF NoPhantomReplies

(* A removal takes one reply from its root at most, and one from the       *)
(* root's count unless that is zero already.                               *)
LEMMA CountRemove ==
  ASSUME IInv, ThreadInv, FiniteInv, FiniteInv', NoPhantomReplies, NEW p \in Proc, RemoveCommit(p)
  PROVE  NoPhantomReplies'
<1> USE DEF IInv
<1>1. PICK t \in Proc : t = req[p].target /\ Live(t)
  BY Underway DEF RemoveCommit, At, Idle, KindInv, KindOf, Request
<1>2. message[t] \in Message
  BY <1>1, Existing
<1>3. message[t].root # t
  <2>1. message[t].seq \in Nat
    BY <1>2 DEF Message
  <2> QED
    BY <1>1, <2>1, NoneAssumption DEF ThreadInv
<1>4. ASSUME NEW i \in Proc, Live(i)
      PROVE  /\ Live(i)' /\ message'[i].root = message[i].root
             /\ message'[i].deleted = (message[i].deleted \/ i = t)
             /\ message'[i].replies = IF i = message[t].root /\ message[i].replies # 0
                                      THEN message[i].replies - 1 ELSE message[i].replies
  <2>1. message[i] \in Message
    BY <1>4, Existing
  <2>2. CASE i = t
    <3>1. message'[i] = [message[i] EXCEPT !.deleted = TRUE]
      BY <1>1, <2>2 DEF RemoveCommit
    <3> QED
      BY <1>3, <1>4, <2>1, <2>2, <3>1 DEF Message, Live
  <2>3. CASE i # t /\ i = message[t].root
    <3>1. message'[i] = [message[i] EXCEPT !.replies =
                            IF message[i].replies = 0 THEN 0 ELSE message[i].replies - 1]
      BY <1>1, <2>3 DEF RemoveCommit
    <3> QED
      BY <1>4, <2>1, <2>3, <3>1 DEF Message, Live
  <2>4. CASE i # t /\ i # message[t].root
    <3>1. message'[i] = message[i]
      BY <1>1, <2>4 DEF RemoveCommit
    <3> QED
      BY <1>4, <2>1, <2>4, <3>1 DEF Message, Live
  <2> QED
    BY <2>2, <2>3, <2>4
<1>5. \A i \in Proc : Live(i)' => Live(i)
  BY <1>1 DEF RemoveCommit, Live, TypeOK, Absent
<1>6. ASSUME NEW r \in Proc, Live(r)'
      PROVE  message'[r].replies <= Cardinality(Replies(r)')
  <2>1. Live(r) /\ message[r].replies \in Nat
    BY <1>5, <1>6, Existing DEF Message
  <2>2. message[r].replies <= Cardinality(Replies(r))
    BY <2>1 DEF NoPhantomReplies
  <2>3. IsFiniteSet(Replies(r)) /\ Cardinality(Replies(r)) \in Nat
    BY FewerReplies
  <2>4. Replies(r)' = Replies(r) \ {t}
    BY <1>4, <1>5 DEF Replies
  <2>5. Cardinality(Replies(r)') = IF t \in Replies(r) THEN Cardinality(Replies(r)) - 1
                                                       ELSE Cardinality(Replies(r))
    BY <2>3, <2>4, FS_RemoveElement
  <2>6. t \in Replies(r) => r = message[t].root
    BY DEF Replies
  <2>7. message'[r].replies = IF r = message[t].root /\ message[r].replies # 0
                              THEN message[r].replies - 1 ELSE message[r].replies
    BY <1>4, <2>1
  <2>8. Cardinality(Replies(r)') \in Nat
    BY FewerRepliesNext
  <2> QED
    BY <2>1, <2>2, <2>3, <2>5, <2>6, <2>7, <2>8
<1> QED
  BY <1>6 DEF NoPhantomReplies

(* No thread ever advertises more replies than there are to read: not when *)
(* the root and its replies are deleted in any order, nor when a deletion  *)
(* is repeated.                                                            *)
THEOREM NoPhantomRepliesHolds == Spec => []NoPhantomReplies
<1>1. Init => FiniteInv /\ NoPhantomReplies
  <2> SUFFICES ASSUME Init PROVE FiniteInv /\ NoPhantomReplies
    OBVIOUS
  <2>1. \A i \in Proc : ~Live(i)
    BY DEF Init, Live, Absent
  <2>2. {i \in Proc : Live(i)} = {}
    BY <2>1
  <2> QED
    BY <2>1, <2>2, FS_EmptySet DEF FiniteInv, NoPhantomReplies
<1>2. IInv /\ ThreadInv /\ FiniteInv /\ NoPhantomReplies /\ [Next]_vars
        => (FiniteInv /\ NoPhantomReplies)'
  <2> SUFFICES ASSUME IInv, ThreadInv, FiniteInv, NoPhantomReplies, [Next]_vars
               PROVE  FiniteInv' /\ NoPhantomReplies'
    OBVIOUS
  <2>1. FiniteInv'
    BY FiniteStep
  <2>2. ASSUME \A p \in Proc : ~Commit(p) /\ ~RemoveCommit(p)
        PROVE  NoPhantomReplies'
    <3>1. \A i \in Proc : SameCount(i)
      BY <2>2, CountsStay
    <3>2. ASSUME NEW r \in Proc
          PROVE  Replies(r)' = Replies(r)
      BY <3>1 DEF Replies, SameCount, Live
    <3> QED
      BY <3>1, <3>2 DEF NoPhantomReplies, SameCount, Live
  <2> QED
    BY <2>1, <2>2, CountCommit, CountRemove
<1> QED
  BY <1>1, <1>2, Invariance, RowsLocked, PTL DEF Spec

-----------------------------------------------------------------------------
(* The transactions implement the append-only log. *)

TheLog == [s \in 1..head |-> WithSeq(s)]
TheStream == [k \in 1..Len(events) |-> <<events[k].op, events[k].id>>]

LEMMA TheOnly ==
  ASSUME NEW m, NEW s, NEW i \in Proc, m[i].exists, m[i].seq = s,
         \A j \in Proc : m[j].exists /\ m[j].seq = s => j = i
  PROVE  (CHOOSE j \in Proc : m[j].exists /\ m[j].seq = s) = i
OBVIOUS

(* The message at each place of the log, now and in the next state. *)
LEMMA Placed ==
  ASSUME Gapless, NEW i \in Proc, Live(i)
  PROVE  message[i].seq \in 1..head /\ WithSeq(message[i].seq) = i
<1>1. \A j \in Proc : message[j].exists /\ message[j].seq = message[i].seq => j = i
  BY DEF Gapless, Live
<1>2. WithSeq(message[i].seq) = i
  BY <1>1, TheOnly DEF WithSeq, Live
<1> QED
  BY <1>2 DEF Gapless

LEMMA PlacedNext ==
  ASSUME Gapless', NEW i \in Proc, Live(i)'
  PROVE  message'[i].seq \in (1..head)' /\ \A s : s = message'[i].seq => WithSeq(s)' = i
<1>1. \A j \in Proc : message'[j].exists /\ message'[j].seq = message'[i].seq => j = i
  BY DEF Gapless, Live
<1>2. ASSUME NEW s, s = message'[i].seq
      PROVE  WithSeq(s)' = i
  BY <1>1, <1>2, TheOnly DEF WithSeq, Live
<1> QED
  BY <1>2 DEF Gapless

LEMMA Occupied ==
  ASSUME Gapless, NEW s \in 1..head
  PROVE  WithSeq(s) \in Proc /\ Live(WithSeq(s)) /\ message[WithSeq(s)].seq = s
<1>1. PICK i \in Proc : Live(i) /\ message[i].seq = s
  BY DEF Gapless
<1> QED
  BY <1>1, Placed

LEMMA LogIsSeq ==
  ASSUME TypeOK, Gapless
  PROVE  TheLog \in Seq(Proc) /\ Len(TheLog) = head
<1>1. head \in Nat
  BY DEF TypeOK
<1>2. TheLog \in [1..head -> Proc]
  BY Occupied DEF TheLog
<1> QED
  BY <1>1, <1>2 DEF TheLog

LEMMA Appended ==
  ASSUME NEW S, NEW n \in Nat, NEW q \in [1..n -> S], NEW x \in S
  PROVE  Append(q, x) = [k \in 1..(n + 1) |-> IF k = n + 1 THEN x ELSE q[k]]
<1>1. q \in Seq(S) /\ Len(q) = n
  OBVIOUS
<1>2. Append(q, x) \in Seq(S) /\ Len(Append(q, x)) = n + 1
  BY <1>1
<1>3. \A k \in 1..(n + 1) : Append(q, x)[k] = IF k = n + 1 THEN x ELSE q[k]
  BY <1>1
<1>4. Append(q, x) \in [1..(n + 1) -> S]
  BY <1>2, LenProperties
<1>5. Append(q, x) = [k \in 1..(n + 1) |-> Append(q, x)[k]]
  BY <1>4
<1> QED
  BY <1>3, <1>5

LEMMA StreamPublish ==
  ASSUME TypeOK, NEW op, NEW i, NEW text, Publish(op, i, text)
  PROVE  TheStream' = Append(TheStream, <<op, i>>)
<1>1. PICK n \in Nat : n = Len(events)
  BY DEF TypeOK
<1>2. /\ Len(events') = n + 1
      /\ \A k \in 1..n : events'[k] = events[k]
      /\ events'[n + 1] = [op |-> op, id |-> i, text |-> text]
  BY <1>1 DEF Publish, TypeOK
<1>3. TheStream = [k \in 1..n |-> <<events[k].op, events[k].id>>]
  BY <1>1 DEF TheStream
<1>4. TheStream' = [k \in 1..(n + 1) |-> <<events'[k].op, events'[k].id>>]
  BY <1>2 DEF TheStream
<1>5. Append(TheStream, <<op, i>>)
        = [k \in 1..(n + 1) |-> IF k = n + 1 THEN <<op, i>> ELSE TheStream[k]]
  <2> DEFINE S == {<<events[k].op, events[k].id>> : k \in 1..n} \cup {<<op, i>>}
  <2>1. TheStream \in [1..n -> S]
    BY <1>3
  <2> HIDE DEF S
  <2>2. <<op, i>> \in S
    BY DEF S
  <2> QED
    BY <2>1, <2>2, Appended
<1> QED
  BY <1>2, <1>3, <1>4, <1>5

LEMMA LogQuiet ==
  ASSUME TypeOK, Gapless, Gapless', Quiet
  PROVE  TheLog' = TheLog
<1>1. ASSUME NEW s \in 1..head
      PROVE  WithSeq(s)' = WithSeq(s)
  <2>1. WithSeq(s) \in Proc /\ Live(WithSeq(s)) /\ message[WithSeq(s)].seq = s
    BY Occupied
  <2>2. PICK i \in Proc : i = WithSeq(s) /\ Live(i) /\ message[i].seq = s
    BY <2>1
  <2>3. Live(i)' /\ message'[i].seq = s
    BY <2>2 DEF Quiet, SameMessage, Live
  <2> QED
    BY <2>2, <2>3, PlacedNext
<1> QED
  BY <1>1 DEF TheLog, Quiet

LEMMA LogCommit ==
  ASSUME IInv, IInv', NEW p \in Proc, Commit(p)
  PROVE  TheLog' = Append(TheLog, p)
<1>1. PICK n \in Nat : n = head
  BY DEF IInv, TypeOK
<1>2. head' = n + 1 /\ ~Live(p) /\ Live(p)' /\ message'[p].seq = n + 1
      /\ \A i \in Proc \ {p} : SameMessage(i)
  <2>1. /\ ~Live(p) /\ At(p, "inserted") /\ message'[p] = Inserted(p)
        /\ \A i \in Proc \ {p} : SameMessage(i)
        /\ head' = req[p].seq
    BY CommitEffect DEF IInv
  <2>2. req[p].seq = n + 1
    BY <1>1, <2>1 DEF IInv, LockInv, At
  <2>3. Live(p)' /\ message'[p].seq = n + 1
    BY <2>1, <2>2 DEF Inserted, Live
  <2> QED
    BY <2>1, <2>2, <2>3
<1>3. ASSUME NEW s \in 1..n
      PROVE  WithSeq(s)' = WithSeq(s)
  <2>1. PICK i \in Proc : i = WithSeq(s) /\ Live(i) /\ message[i].seq = s
    BY <1>1, Occupied DEF IInv
  <2>2. Live(i)' /\ message'[i].seq = s
    BY <1>2, <2>1 DEF SameMessage, Live
  <2> QED
    BY <2>1, <2>2, PlacedNext DEF IInv
<1>4. \A s : s = n + 1 => WithSeq(s)' = p
  BY <1>2, PlacedNext DEF IInv
<1>5. TheLog' = [s \in 1..(n + 1) |-> WithSeq(s)']
  BY <1>2 DEF TheLog
<1>6. TheLog = [s \in 1..n |-> WithSeq(s)] /\ TheLog \in [1..n -> Proc]
  BY <1>1, Occupied DEF TheLog, IInv
<1>7. Append(TheLog, p) = [s \in 1..(n + 1) |-> IF s = n + 1 THEN p ELSE TheLog[s]]
  BY <1>6, Appended
<1>8. ASSUME NEW s \in 1..(n + 1)
      PROVE  WithSeq(s)' = IF s = n + 1 THEN p ELSE TheLog[s]
  <2>1. CASE s = n + 1
    BY <1>4, <2>1
  <2>2. CASE s # n + 1
    <3>1. s \in 1..n
      BY <2>2
    <3> QED
      BY <1>3, <1>6, <2>2, <3>1
  <2> QED
    BY <2>1, <2>2
<1> QED
  BY <1>5, <1>7, <1>8

(* What is posted is what is there. *)
LEMMA PostedLive ==
  ASSUME TypeOK, Gapless
  PROVE  {TheLog[s] : s \in 1..Len(TheLog)} = {i \in Proc : Live(i)}
<1>1. Len(TheLog) = head /\ \A s \in 1..head : TheLog[s] = WithSeq(s)
  BY LogIsSeq DEF TheLog
<1>2. \A s \in 1..head : WithSeq(s) \in Proc /\ Live(WithSeq(s))
  BY Occupied
<1>3. \A i \in Proc : Live(i) => \E s \in 1..head : WithSeq(s) = i
  BY Placed
<1> QED
  BY <1>1, <1>2, <1>3

(* Every transaction appears to happen at its commit: sends append to the  *)
(* log, edits and deletions change a message that is in it, and the events *)
(* are announced in that order.                                            *)
THEOREM Implementation == Spec => ImplementsLog
<1>1. Init => Log!Init
  <2> SUFFICES ASSUME Init PROVE TheLog = << >> /\ TheStream = << >>
    BY DEF Log!Init, TheLog, TheStream
  <2> QED
    BY DEF Init, TheLog, TheStream
<1>2. IInv /\ IInv' /\ [Next]_vars => [Log!Next]_<<TheLog, TheStream>>
  <2> SUFFICES ASSUME IInv, IInv', [Next]_vars
               PROVE  [Log!Next]_<<TheLog, TheStream>>
    OBVIOUS
  <2>1. ASSUME NEW p \in Proc, Commit(p)
        PROVE  Log!Next
    <3>1. p \notin {TheLog[s] : s \in 1..Len(TheLog)}
      BY <2>1, PostedLive, CommitEffect DEF IInv
    <3>2. TheLog' = Append(TheLog, p) /\ TheStream' = Append(TheStream, <<"create", p>>)
      BY <2>1, LogCommit, StreamPublish DEF IInv, Commit
    <3>3. Log!Post(p)
      BY <3>1, <3>2 DEF Log!Post, Log!Posted, TheLog, TheStream
    <3> QED
      BY <3>3 DEF Log!Next
  <2>2. ASSUME NEW p \in Proc, NEW kind \in {"update", "delete"}, Quiet,
               KindOf(p), At(p, "rooted"), NEW text, Publish(kind, req[p].target, text)
        PROVE  Log!Next
    <3>1. PICK t \in Proc : t = req[p].target /\ Live(t)
      BY <2>2, Underway DEF IInv, KindOf, At, Idle, Request
    <3>2. t \in {TheLog[s] : s \in 1..Len(TheLog)}
      BY <3>1, PostedLive DEF IInv
    <3>3. TheLog' = TheLog /\ TheStream' = Append(TheStream, <<kind, t>>)
      BY <2>2, <3>1, LogQuiet, StreamPublish DEF IInv
    <3>4. Log!Change(t, kind)
      BY <3>2, <3>3 DEF Log!Change, Log!Posted, TheLog, TheStream
    <3> QED
      BY <3>4 DEF Log!Next
  <2>3. ASSUME NEW p \in Proc, EditCommit(p)
        PROVE  Log!Next
    <3>1. Quiet
      BY <2>3, QuietStep, CommitAlone DEF IInv, Step, EditCommit, Commit, At
    <3> QED
      BY <2>2, <2>3, <3>1 DEF EditCommit, IInv, KindInv
  <2>4. ASSUME NEW p \in Proc, RemoveCommit(p)
        PROVE  Log!Next
    <3>1. Quiet
      BY <2>4, QuietStep, CommitAlone DEF IInv, Step, RemoveCommit, Commit, At
    <3> QED
      BY <2>2, <2>4, <3>1 DEF RemoveCommit, IInv, KindInv
  <2>5. ASSUME Quiet, events' = events
        PROVE  UNCHANGED <<TheLog, TheStream>>
    BY <2>5, LogQuiet DEF IInv, TheStream
  <2>6. ASSUME \A p \in Proc : ~Commit(p) /\ ~EditCommit(p) /\ ~RemoveCommit(p)
        PROVE  events' = events
    <3>1. ASSUME NEW p \in Proc, Arrive(p)
          PROVE  events' = events
      BY <3>1 DEF Arrive, Send, EditRead, RemoveRead, rows
    <3>2. ASSUME NEW p \in Proc, Step(p) \/ Abort(p)
          PROVE  events' = events
      BY <2>6, <3>2 DEF Step, Begin, Allocate, Insert, Conflict, Context, Write, LockRoot, Abort, rows
    <3> QED
      BY <3>1, <3>2 DEF Next, Suspend, rows, vars
  <2> QED
    BY <2>1, <2>3, <2>4, <2>5, <2>6, QuietStep DEF IInv
<1> QED
  BY <1>1, <1>2, Invariance, PTL DEF Spec, ImplementsLog, Log!Spec, TheLog, TheStream
=============================================================================
