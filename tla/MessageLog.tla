----------------------------- MODULE MessageLog -----------------------------
(***************************************************************************)
(* Sending, editing and deleting the messages of one conversation as the   *)
(* concurrent PostgreSQL transactions they are                             *)
(* (apps/api/src/services/messages.ts, packages/db/sql/0003_functions.sql).*)
(*                                                                         *)
(* Reads before a transaction see what is committed then and may be stale  *)
(* when they are used.  A transaction locks the rows it updates until it   *)
(* ends; its writes become visible, and its NOTIFY is delivered, at the    *)
(* commit.  Of transactions that wait for each other in a circle one is    *)
(* aborted.                                                                *)
(*                                                                         *)
(* Every request is served once, by a process of its own; a retry is       *)
(* another process with the same nonce.  The message a process inserts,    *)
(* and the text it writes, are named after the process.                    *)
(***************************************************************************)
EXTENDS Naturals, Sequences, FiniteSets

CONSTANTS Proc, User, Nonce,
          None   \* no process, no message, no text

ASSUME NoneAssumption == None \notin Proc

VARIABLES
  (* committed rows *)
  head, last, preview,  \* conversations: message_seq, last_message_id, ..._preview
  message,              \* messages: a record, or Absent
  revisions,            \* message_revisions: [id, text]
  suspended,            \* users with suspended_until in the future
  events,               \* what the topic of the conversation has carried
  (* row locks *)
  convLock, messageLock,
  (* requests *)
  req

conversation == <<head, last, preview>>
rows         == <<conversation, message, revisions, events>>
locks        == <<convLock, messageLock>>
vars         == <<rows, suspended, locks, req>>

Absent  == [exists |-> FALSE]
Message == [exists : {TRUE}, seq : Nat, sender : User, nonce : Nonce, text : Proc,
            deleted : BOOLEAN, root : Proc \cup {None}, replies : Nat]

(* In which order a request takes its steps, and how it may end.           *)
InTx == {"begun", "allocated", "inserted", "writing", "rooted"}
End  == {"created", "replayed", "conflict", "refused", "failed", "edited", "removed"}
Idle == [step |-> "idle"]
Request == [step : {"checked", "read", "ready"} \cup InTx \cup End,
            kind : {"send", "edit", "remove"}, user : User, nonce : Nonce \cup {None},
            target : Proc \cup {None}, old : Proc \cup {None}, wasLast : BOOLEAN,
            seq : Nat]

TypeOK ==
  /\ head \in Nat
  /\ last \in Proc \cup {None}
  /\ preview \in Proc \cup {None}
  /\ message \in [Proc -> Message \cup {Absent}]
  /\ revisions \in SUBSET [id : Proc, text : Proc]
  /\ suspended \in SUBSET User
  /\ events \in Seq([op : {"create", "update", "delete"}, id : Proc, text : Proc \cup {None}])
  /\ convLock \in Proc \cup {None}
  /\ messageLock \in [Proc -> Proc \cup {None}]
  /\ req \in [Proc -> Request \cup {Idle}]

Init ==
  /\ head = 0 /\ last = None /\ preview = None
  /\ message = [i \in Proc |-> Absent]
  /\ revisions = {} /\ suspended = {} /\ events = << >>
  /\ convLock = None
  /\ messageLock = [i \in Proc |-> None]
  /\ req = [p \in Proc |-> Idle]

-----------------------------------------------------------------------------
(* Helpers. *)

At(p, s) == req[p].step = s
Goto(p, s) == req' = [req EXCEPT ![p].step = s]

(* The committed message of this sender with this nonce, if any.           *)
Sent(u, n) == {i \in Proc : message[i].exists /\ message[i].sender = u /\ message[i].nonce = n}

(* The thread a reply to r joins: that of r, or the one r is the root of.  *)
RootOf(r) == IF r # None /\ message[r].root # None THEN message[r].root ELSE r

(* The root of a message: what the client names as such, which nothing     *)
(* looks at, or else the thread of the message it replies to.              *)
Thread(r, t) == IF t # None THEN t ELSE RootOf(r)

Publish(op, i, text) == events' = Append(events, [op |-> op, id |-> i, text |-> text])

(* The transaction of p is over: its locks are free.                       *)
Release(p) ==
  /\ convLock' = IF convLock = p THEN None ELSE convLock
  /\ messageLock' = [i \in Proc |-> IF messageLock[i] = p THEN None ELSE messageLock[i]]

-----------------------------------------------------------------------------
(* MessageService.send *)

(* The lookup of the nonce and the checks before the transaction.  The     *)
(* client replies to r and names t as the root.                            *)
Send(p, u, n, r, t) ==
  /\ req[p] = Idle
  /\ u \notin suspended
  /\ r # None => message[r].exists
  /\ t # None => message[t].exists
  /\ req' = [req EXCEPT ![p] =
               [step |-> IF Sent(u, n) = {} THEN "checked" ELSE "replayed", kind |-> "send",
                user |-> u, nonce |-> n, target |-> Thread(r, t), old |-> None, wasLast |-> FALSE, seq |-> 0]]
  /\ UNCHANGED <<rows, suspended, locks>>

(* Mutant: the sender is not looked at again inside the transaction.       *)
BeginUnchecked(p) ==
  /\ At(p, "checked")
  /\ Goto(p, "begun")
  /\ UNCHANGED <<rows, suspended, locks>>

(* The transaction begins by locking the sender's row FOR SHARE.           *)
Begin(p) ==
  /\ At(p, "checked")
  /\ Goto(p, IF req[p].user \in suspended THEN "refused" ELSE "begun")
  /\ UNCHANGED <<rows, suspended, locks>>

(* Mutant: the counter is read without locking its row.                    *)
AllocateUnlocked(p) ==
  /\ At(p, "begun")
  /\ req' = [req EXCEPT ![p].step = "allocated", ![p].seq = head + 1]
  /\ UNCHANGED <<rows, suspended, locks>>

(* allocate_message_seq: the UPDATE of the conversation's row.             *)
Allocate(p) ==
  /\ At(p, "begun")
  /\ convLock = None
  /\ convLock' = p
  /\ req' = [req EXCEPT ![p].step = "allocated", ![p].seq = head + 1]
  /\ UNCHANGED <<rows, suspended, messageLock>>

(* Mutant: nothing makes (sender, nonce) unique.                           *)
InsertAnyway(p) ==
  LET root == req[p].target IN
  /\ At(p, "allocated")
  /\ IF root = None
     THEN UNCHANGED messageLock
     ELSE messageLock[root] = None /\ messageLock' = [messageLock EXCEPT ![root] = p]
  /\ Goto(p, "inserted")
  /\ UNCHANGED <<rows, suspended, convLock>>

(* Mutant: the event is published outside the transaction.                 *)
InsertAnnounced(p) ==
  LET root == req[p].target IN
  /\ At(p, "allocated")
  /\ Sent(req[p].user, req[p].nonce) = {}
  /\ IF root = None
     THEN UNCHANGED messageLock
     ELSE messageLock[root] = None /\ messageLock' = [messageLock EXCEPT ![root] = p]
  /\ Goto(p, "inserted")
  /\ Publish("create", p, p)
  /\ UNCHANGED <<conversation, message, revisions, suspended, convLock>>

(* The insert; trigger sync_thread_count updates the root of a reply.      *)
Insert(p) ==
  LET root == req[p].target IN
  /\ At(p, "allocated")
  /\ Sent(req[p].user, req[p].nonce) = {}
  /\ IF root = None
     THEN UNCHANGED messageLock
     ELSE messageLock[root] = None /\ messageLock' = [messageLock EXCEPT ![root] = p]
  /\ Goto(p, "inserted")
  /\ UNCHANGED <<rows, suspended, convLock>>

(* Mutant: the refused transaction is left open.                           *)
ConflictHolding(p) ==
  /\ At(p, "allocated")
  /\ Sent(req[p].user, req[p].nonce) # {}
  /\ Goto(p, "conflict")
  /\ UNCHANGED <<rows, suspended, locks>>

(* The unique index on (sender, nonce) refuses it: 409.                    *)
Conflict(p) ==
  /\ At(p, "allocated")
  /\ Sent(req[p].user, req[p].nonce) # {}
  /\ Goto(p, "conflict")
  /\ Release(p)
  /\ UNCHANGED <<rows, suspended>>

Inserted(p) ==
  [exists |-> TRUE, seq |-> req[p].seq, sender |-> req[p].user, nonce |-> req[p].nonce,
   text |-> p, deleted |-> FALSE, root |-> req[p].target, replies |-> 0]

Commit(p) ==
  LET root == req[p].target IN
  /\ At(p, "inserted")
  /\ message' = [i \in Proc |-> IF i = p THEN Inserted(p)
                                ELSE IF i = root THEN [message[i] EXCEPT !.replies = @ + 1]
                                ELSE message[i]]
  /\ head' = req[p].seq
  /\ last' = p
  /\ preview' = p
  /\ Publish("create", p, p)
  /\ Goto(p, "created")
  /\ Release(p)
  /\ UNCHANGED <<revisions, suspended>>

-----------------------------------------------------------------------------
(* MessageService.edit: the author's own message ... *)

EditRead(p, u, t) ==
  /\ req[p] = Idle
  /\ u \notin suspended
  /\ message[t].exists /\ message[t].sender = u /\ ~message[t].deleted
  /\ req' = [req EXCEPT ![p] =
               [step |-> "read", kind |-> "edit", user |-> u, nonce |-> None,
                target |-> t, old |-> message[t].text, wasLast |-> FALSE, seq |-> 0]]
  /\ UNCHANGED <<rows, suspended, locks>>

(* ... and MessageService.remove for everyone, by the author or by one who *)
(* may delete any message.  A deleted message can be deleted again.        *)
RemoveRead(p, u, t) ==
  /\ req[p] = Idle
  /\ u \notin suspended
  /\ message[t].exists
  /\ req' = [req EXCEPT ![p] =
               [step |-> "read", kind |-> "remove", user |-> u, nonce |-> None,
                target |-> t, old |-> None, wasLast |-> FALSE, seq |-> 0]]
  /\ UNCHANGED <<rows, suspended, locks>>

(* Both load the conversation next, and use its last_message_id later.     *)
Context(p) ==
  /\ At(p, "read")
  /\ req' = [req EXCEPT ![p].step = "ready", ![p].wasLast = last = req[p].target]
  /\ UNCHANGED <<rows, suspended, locks>>

(* The UPDATE of the message takes its row lock.                           *)
Write(p) ==
  LET t == req[p].target IN
  /\ At(p, "ready")
  /\ messageLock[t] = None
  /\ messageLock' = [messageLock EXCEPT ![t] = p]
  /\ Goto(p, IF req[p].kind = "remove" /\ message[t].root # None THEN "writing" ELSE "rooted")
  /\ UNCHANGED <<rows, suspended, convLock>>

(* The count of the removed reply's thread: the root's row.                *)
LockRoot(p) ==
  LET root == message[req[p].target].root IN
  /\ At(p, "writing")
  /\ messageLock[root] = None
  /\ messageLock' = [messageLock EXCEPT ![root] = p]
  /\ Goto(p, "rooted")
  /\ UNCHANGED <<rows, suspended, convLock>>

(* If the message was the last one the conversation's row is updated too,  *)
(* just before the commit.                                                 *)
StampPreview(p, text) ==
  IF req[p].wasLast
  THEN convLock = None /\ preview' = text
  ELSE UNCHANGED preview

EditCommit(p) ==
  LET t == req[p].target IN
  /\ At(p, "rooted") /\ req[p].kind = "edit"
  /\ message' = [message EXCEPT ![t].text = p]
  /\ revisions' = revisions \cup {[id |-> t, text |-> req[p].old]}
  /\ StampPreview(p, p)
  /\ Publish("update", t, p)
  /\ Goto(p, "edited")
  /\ Release(p)
  /\ UNCHANGED <<head, last, suspended>>

(* Mutant: the count is not guarded at zero.                               *)
RemoveCommitUnguarded(p) ==
  LET t    == req[p].target
      root == message[t].root
  IN
  /\ At(p, "rooted") /\ req[p].kind = "remove"
  /\ message' = [i \in Proc |->
                   IF i = t THEN [message[i] EXCEPT !.deleted = TRUE]
                   ELSE IF i = root THEN [message[i] EXCEPT !.replies = @ - 1]
                   ELSE message[i]]
  /\ StampPreview(p, None)
  /\ Publish("delete", t, None)
  /\ Goto(p, "removed")
  /\ Release(p)
  /\ UNCHANGED <<head, last, revisions, suspended>>

(* Mutant: the root's count is not given back.                             *)
RemoveCommitOnly(p) ==
  LET t == req[p].target IN
  /\ At(p, "rooted") /\ req[p].kind = "remove"
  /\ message' = [message EXCEPT ![t].deleted = TRUE]
  /\ StampPreview(p, None)
  /\ Publish("delete", t, None)
  /\ Goto(p, "removed")
  /\ Release(p)
  /\ UNCHANGED <<head, last, revisions, suspended>>

RemoveCommit(p) ==
  LET t    == req[p].target
      root == message[t].root
  IN
  /\ At(p, "rooted") /\ req[p].kind = "remove"
  /\ message' = [i \in Proc |->
                   IF i = t THEN [message[i] EXCEPT !.deleted = TRUE]
                   ELSE IF i = root
                   THEN [message[i] EXCEPT !.replies = IF @ = 0 THEN 0 ELSE @ - 1]
                   ELSE message[i]]
  /\ StampPreview(p, None)
  /\ Publish("delete", t, None)
  /\ Goto(p, "removed")
  /\ Release(p)
  /\ UNCHANGED <<head, last, revisions, suspended>>

-----------------------------------------------------------------------------
(* The environment. *)

(* The transaction is aborted: a lost connection, a crash, a deadlock.     *)
Abort(p) ==
  /\ req[p].step \in InTx
  /\ Goto(p, "failed")
  /\ Release(p)
  /\ UNCHANGED <<rows, suspended>>

(* A transaction that updates the user's row; it waits for the share locks *)
(* of the sends that have begun.                                           *)
Suspend(u) ==
  /\ \A p \in Proc : req[p] # Idle /\ req[p].user = u /\ req[p].kind = "send"
                       => req[p].step \notin InTx
  /\ suspended' = suspended \cup {u}
  /\ UNCHANGED <<rows, locks, req>>

Arrive(p) == \E u \in User :
  \/ \E n \in Nonce, r, t \in Proc \cup {None} : Send(p, u, n, r, t)
  \/ \E t \in Proc : EditRead(p, u, t) \/ RemoveRead(p, u, t)

Step(p) == \/ Begin(p) \/ Allocate(p) \/ Insert(p) \/ Conflict(p) \/ Commit(p)
           \/ Context(p) \/ Write(p) \/ LockRoot(p) \/ EditCommit(p) \/ RemoveCommit(p)

Next == \/ \E p \in Proc : Arrive(p) \/ Step(p) \/ Abort(p)
        \/ \E u \in User : Suspend(u)

Spec == Init /\ [][Next]_vars

(* The holder of the lock that p waits for.                                *)
Holder(p) ==
  CASE At(p, "begun")     -> convLock
    [] At(p, "allocated") -> IF req[p].target = None THEN None ELSE messageLock[req[p].target]
    [] At(p, "ready")     -> messageLock[req[p].target]
    [] At(p, "writing")   -> messageLock[message[req[p].target].root]
    [] At(p, "rooted")    -> IF req[p].wasLast THEN convLock ELSE None
    [] OTHER              -> None

(* p is one of a set of transactions that all wait for each other.         *)
Deadlocked(p) == \E S \in SUBSET Proc : p \in S /\ \A q \in S : Holder(q) \in S

(* Every request keeps going, and PostgreSQL breaks a deadlock.            *)
FairSpec == Spec /\ \A p \in Proc : /\ WF_vars(Step(p))
                                    /\ WF_vars(Deadlocked(p) /\ Abort(p))

-----------------------------------------------------------------------------
(* Properties. *)

Live(i) == message[i].exists

(* The message with this place in the conversation.                        *)
WithSeq(s) == CHOOSE i \in Proc : Live(i) /\ message[i].seq = s

Log == INSTANCE ConversationLog WITH
         Message <- Proc,
         log     <- [s \in 1..head |-> WithSeq(s)],
         stream  <- [k \in 1..Len(events) |-> <<events[k].op, events[k].id>>]

(* A transaction's lock on the conversation serialises the senders: what   *)
(* readers see is an append-only log announced in order.                   *)
ImplementsLog == Log!Spec

(* "gapless and total" (docs/ARCHITECTURE.md): at every moment the visible *)
(* messages have the numbers 1 to message_seq, each once, and              *)
(* last_message_id is the newest one.                                      *)
Gapless ==
  /\ {message[i].seq : i \in {j \in Proc : Live(j)}} = 1..head
  /\ \A i, j \in Proc : Live(i) /\ Live(j) /\ message[i].seq = message[j].seq => i = j
  /\ IF head = 0 THEN last = None ELSE last \in Proc /\ Live(last) /\ message[last].seq = head

(* A send that is retried, while the first attempt is in flight or after   *)
(* its answer was lost, never posts a second message.                      *)
PostedOnce ==
  \A i, j \in Proc :
    /\ Live(i) /\ Live(j)
    /\ message[i].sender = message[j].sender /\ message[i].nonce = message[j].nonce
    => i = j

(* "a later suspension waits for that commit, and a suspension that won    *)
(* the race makes this send fail" (services/messages.ts).                  *)
NoPostBySuspended ==
  [][\A i \in Proc : ~Live(i) /\ Live(i)' => message'[i].sender \notin suspended]_message

(* The replies of a thread that have not been deleted.                     *)
Replies(r) == {i \in Proc : Live(i) /\ message[i].root = r /\ ~message[i].deleted}

(* A thread never advertises more replies than there are, whatever order   *)
(* deletions of its replies and of the root commit in.                     *)
NoPhantomReplies == \A r \in Proc : Live(r) => message[r].replies <= Cardinality(Replies(r))

(* Whatever the threads look like, every deadlock runs through the         *)
(* conversation's row: one of its members is a send that has it and waits  *)
(* for the root of its thread, another is an edit or a removal of the last *)
(* message that has its message rows and waits for the conversation.       *)
(* Sends alone, or changes alone, never deadlock.                          *)
DeadlockShape ==
  \A p \in Proc : Deadlocked(p) =>
    \E s, c \in Proc : /\ Deadlocked(s) /\ At(s, "allocated")
                       /\ Deadlocked(c) /\ At(c, "rooted") /\ req[c].wasLast
                       /\ Holder(c) = s

(* A request is answered in the end: locks taken in different orders can   *)
(* deadlock, and the victim's abort lets everyone else go on.              *)
Answered == \A p \in Proc : req[p] # Idle ~> req[p].step \in End

-----------------------------------------------------------------------------
(* The inductive invariant behind the theorems of MessageLog_proofs.       *)

(* A process holds the conversation from the allocation of its seq to the  *)
(* end of its transaction, so that seq stays the next one.                 *)
Holding == {"allocated", "inserted"}
LockInv ==
  \A p \in Proc : /\ convLock = p <=> req[p].step \in Holding
                  /\ req[p].step \in Holding => req[p].seq = head + 1

(* A message is there once its own request has been answered.              *)
OwnInv == \A p \in Proc : Live(p) => At(p, "created")

(* While a process may commit, nobody else inserts its nonce.              *)
NonceInv == \A p \in Proc : At(p, "inserted") => Sent(req[p].user, req[p].nonce) = {}

(* A sender whose transaction has begun is not suspended.                  *)
SenderInv ==
  \A p \in Proc : req[p].step \in {"begun"} \cup Holding => req[p].user \notin suspended

(* Steps belong to kinds of requests; what a request refers to exists.     *)
KindOf(p) ==
  /\ req[p].step \in {"checked", "begun"} \cup Holding =>
       /\ req[p].kind = "send" /\ req[p].nonce \in Nonce
       /\ req[p].target # None => Live(req[p].target)
  /\ req[p].step \in {"read", "ready", "writing", "rooted"} =>
       /\ req[p].target # None /\ Live(req[p].target)
       /\ req[p].kind = "remove" \/ (req[p].kind = "edit" /\ req[p].old # None)
  /\ At(p, "writing") => req[p].kind = "remove" /\ message[req[p].target].root # None

KindInv == \A p \in Proc : KindOf(p)

RootInv == \A i \in Proc : Live(i) /\ message[i].root # None => Live(message[i].root)

(* A message is younger than its root.  A root may have a root of its own, *)
(* when a client names a reply as the root, but threads have no circles.   *)
ThreadInv ==
  \A i \in Proc : Live(i) /\ message[i].root # None
                    => message[message[i].root].seq < message[i].seq

(* The message rows that p has locked: they follow from where it stands,   *)
(* so no lock outlives its transaction and no write goes without one.      *)
RowsOf(p) ==
  CASE At(p, "inserted") -> {req[p].target} \ {None}
    [] At(p, "writing")  -> {req[p].target}
    [] At(p, "rooted")   -> {req[p].target} \cup
                            (IF req[p].kind = "remove" THEN {message[req[p].target].root} \ {None} ELSE {})
    [] OTHER             -> {}

RowInv == \A p, i \in Proc : messageLock[i] = p <=> i \in RowsOf(p)

(* A thread is finite, and NoPhantomReplies is about its size.             *)
FiniteInv == IsFiniteSet({i \in Proc : Live(i)})

IInv == /\ TypeOK /\ LockInv /\ OwnInv /\ Gapless
        /\ NonceInv /\ PostedOnce /\ SenderInv /\ KindInv /\ RootInv
=============================================================================
