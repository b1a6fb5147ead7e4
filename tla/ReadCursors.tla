----------------------------- MODULE ReadCursors -----------------------------
(***************************************************************************)
(* The read and delivery cursors of the members of one conversation and    *)
(* their mention badges: the send transaction, the REST and the gateway    *)
(* acknowledgements, the catch-up of IDENTIFY, and the triggers that keep  *)
(* mention_count (apps/api/src/routes/messages.ts, services/messages.ts,   *)
(* apps/gateway/src/server.ts, packages/db/sql/0002_triggers.sql).         *)
(*                                                                         *)
(* PostgreSQL at READ COMMITTED: a statement reads the rows committed when *)
(* it starts.  When it then has to wait for the row it updates, it sees    *)
(* the new version of that row, but still the old version of every other   *)
(* row it joined: an UPDATE of conversation_members that joins             *)
(* conversations computes with the current cursor and an old message_seq.  *)
(* A query inside a trigger function takes a snapshot of its own.          *)
(*                                                                         *)
(* The members are fixed: nobody joins or leaves.  In a channel a member   *)
(* may have no row yet (a "virtual" member).                               *)
(***************************************************************************)
EXTENDS Naturals, Sequences, FiniteSets

CONSTANTS Member,    \* members of the conversation
          Warm,      \* those who have a row from the start
          Handler,   \* acknowledgements served at the same time
          MaxSeq     \* bound of the model: messages sent

ASSUME WarmAssumption == Warm \subseteq Member
ASSUME MemberAssumption == IsFiniteSet(Member)
ASSUME MaxSeqAssumption == MaxSeq \in Nat

VARIABLES
  named,      \* committed messages: named[s] is who message s mentions
  row,        \* the members who have a row
  read,       \* last_read_seq
  delivered,  \* last_delivered_seq
  mentions,   \* mention_count
  tx,         \* the send transaction that holds the conversation's row lock
  locked,     \* members whose row that transaction has locked
  ack         \* the acknowledgements in progress

members == <<row, read, delivered, mentions>>
send    == <<named, tx, locked>>
vars    == <<members, send, ack>>

(* conversations.message_seq *)
head == Len(named)

Kind == {"rest", "read", "delivery", "catchup"}
Ack  == [step : {"start", "update"}, kind : Kind, who : Member, n : Nat, head : Nat]
Idle == [step |-> "idle"]

Tx   == [open : {TRUE}, sender : Member, named : SUBSET Member, bump : SUBSET Member]
NoTx == [open |-> FALSE]

TypeOK ==
  /\ named \in Seq(SUBSET Member)
  /\ row \in SUBSET Member
  /\ read \in [Member -> Nat]
  /\ delivered \in [Member -> Nat]
  /\ mentions \in [Member -> Nat]
  /\ tx \in Tx \cup {NoTx}
  /\ locked \subseteq (IF tx.open THEN tx.bump \cup {tx.sender} ELSE {})
  /\ ack \in [Handler -> Ack \cup {Idle}]

Init ==
  /\ named = << >>
  /\ row = Warm
  /\ read = [m \in Member |-> 0]
  /\ delivered = [m \in Member |-> 0]
  /\ mentions = [m \in Member |-> 0]
  /\ tx = NoTx
  /\ locked = {}
  /\ ack = [h \in Handler |-> Idle]

-----------------------------------------------------------------------------
(* Helpers. *)

Least(a, b)    == IF a < b THEN a ELSE b
Greatest(a, b) == IF a > b THEN a ELSE b

(* The committed messages after r that mention m. *)
Unread(m, r) == {s \in 1..head : m \in named[s] /\ s > r}

(* Mutant: the badge goes down by the distance the cursor moves.           *)
RecountedByDistance(m, r) == mentions[m] - (r - read[m])

(* Trigger recount_mentions_on_read: the badge after the cursor moves to r *)
Recounted(m, r) == IF r = read[m] THEN mentions[m] ELSE Cardinality(Unread(m, r))

(* Move the read cursor of m to r, the delivery cursor to d.               *)
Stamp(m, r, d) ==
  /\ read' = [read EXCEPT ![m] = r]
  /\ delivered' = [delivered EXCEPT ![m] = d]
  /\ mentions' = [mentions EXCEPT ![m] = Recounted(m, r)]

Done(h) == ack' = [ack EXCEPT ![h] = Idle]

-----------------------------------------------------------------------------
(* MessageService.send: one transaction at a time, because                 *)
(* allocate_message_seq locks the conversation's row until the commit.     *)
(* The mentions are inserted right after it; the members they name who     *)
(* have a row by then are those the bump will update.                      *)

Allocate(m, who) ==
  /\ ~tx.open
  /\ head < MaxSeq
  /\ tx' = [open |-> TRUE, sender |-> m, named |-> who, bump |-> who \cap row]
  /\ UNCHANGED <<named, locked, members, ack>>

(* The rows the transaction updates: those it bumps, in any order, then    *)
(* the sender's own, inserted here for a virtual member.                   *)
Lock(m) ==
  /\ tx.open
  /\ m \notin locked
  /\ m \in tx.bump \cup {tx.sender}
  /\ m \notin tx.bump => tx.bump \subseteq locked
  /\ locked' = locked \cup {m}
  /\ UNCHANGED <<named, tx, members, ack>>

(* Trigger bump_mention_count. *)
Bumped(m) == IF m \in tx.bump /\ head + 1 > read[m]
             THEN mentions[m] + 1 ELSE mentions[m]

(* The commit: everything becomes visible and every lock is free.          *)
Commit ==
  /\ tx.open
  /\ tx.bump \cup {tx.sender} \subseteq locked
  /\ named' = Append(named, tx.named)
  /\ row' = row \cup {tx.sender}
  /\ read' = [read EXCEPT ![tx.sender] = head + 1]
  /\ delivered' = [delivered EXCEPT ![tx.sender] = head + 1]
  /\ mentions' = [m \in Member |-> IF m = tx.sender THEN 0 ELSE Bumped(m)]
  /\ tx' = NoTx
  /\ locked' = {}
  /\ UNCHANGED ack

(* Mutant: a failed transaction keeps its row locks.                       *)
RollbackHolding ==
  /\ tx.open
  /\ tx' = NoTx
  /\ UNCHANGED <<named, locked, members, ack>>

(* A throw inside the transaction, or its connection lost: all undone.     *)
Rollback ==
  /\ tx.open
  /\ tx' = NoTx
  /\ locked' = {}
  /\ UNCHANGED <<named, members, ack>>

-----------------------------------------------------------------------------
(* Acknowledgements. *)

(* POST /:id/read: requireMember reads the cursor and the head; an ack     *)
(* that is not ahead of the cursor is answered at once.                    *)
RestRead(h, m, n) ==
  /\ ack[h] = Idle
  /\ n > read[m]
  /\ ack' = [ack EXCEPT ![h] = [step |-> "update", kind |-> "rest", who |-> m,
                                n |-> n, head |-> head]]
  /\ UNCHANGED <<members, send>>

(* A ReadAck or DeliveryAck command: its UPDATE takes its snapshot, or     *)
(* finds no row.                                                           *)
Command(h, kind, m, n) ==
  /\ ack[h] = Idle
  /\ ack' = [ack EXCEPT ![h] = [step |-> IF m \in row THEN "update" ELSE "start",
                                kind |-> kind, who |-> m, n |-> n, head |-> head]]
  /\ UNCHANGED <<members, send>>

(* materialiseChannelMember: waits for a transaction inserting the row.    *)
Materialise(h) ==
  LET m == ack[h].who IN
  /\ ack[h] # Idle
  /\ m \notin row \cup locked
  /\ row' = row \cup {m}
  /\ UNCHANGED <<read, delivered, mentions, send, ack>>

(* The UPDATE of the command runs again. *)
Again(h) ==
  /\ ack[h] # Idle
  /\ ack[h].step = "start"
  /\ ack[h].who \in row
  /\ ack' = [ack EXCEPT ![h].step = "update", ![h].head = head]
  /\ UNCHANGED <<members, send>>

(* The delivery catch-up of IDENTIFY, for a row that is behind.            *)
CatchUp(h, m) ==
  /\ ack[h] = Idle
  /\ m \in row
  /\ delivered[m] < head
  /\ ack' = [ack EXCEPT ![h] = [step |-> "update", kind |-> "catchup", who |-> m,
                                n |-> 0, head |-> head]]
  /\ UNCHANGED <<members, send>>

(* The row's lock is free and the UPDATE goes through. *)
Ready(h, kind) ==
  /\ ack[h] # Idle
  /\ ack[h].step = "update" /\ ack[h].kind = kind
  /\ ack[h].who \in row \ locked

(* Mutant: the ack is not capped at the head.                              *)
RestUpdateUncapped(h) ==
  LET m == ack[h].who IN
  /\ Ready(h, "rest")
  /\ Stamp(m, ack[h].n, Greatest(delivered[m], ack[h].n))
  /\ Done(h)
  /\ UNCHANGED <<row, send>>

(* The route's UPDATE sets the cursor to what it computed from its reads.  *)
RestUpdate(h) ==
  LET m      == ack[h].who
      capped == Least(ack[h].n, ack[h].head)
  IN
  /\ Ready(h, "rest")
  /\ Stamp(m, capped, Greatest(delivered[m], capped))
  /\ Done(h)
  /\ UNCHANGED <<row, send>>

(* least(greatest(cursor, n), c.message_seq) *)
Clamped(h, cursor) == Least(Greatest(cursor, ack[h].n), ack[h].head)

ReadUpdate(h) ==
  LET m == ack[h].who IN
  /\ Ready(h, "read")
  /\ Stamp(m, Clamped(h, read[m]), Clamped(h, delivered[m]))
  /\ Done(h)
  /\ UNCHANGED <<row, send>>

DeliveryUpdate(h) ==
  LET m == ack[h].who IN
  /\ Ready(h, "delivery")
  /\ delivered' = [delivered EXCEPT ![m] = Clamped(h, @)]
  /\ Done(h)
  /\ UNCHANGED <<row, read, mentions, send>>

(* Mutant: the UPDATE has no condition on the cursor.                      *)
CatchUpAlways(h) ==
  LET m == ack[h].who IN
  /\ Ready(h, "catchup")
  /\ delivered' = [delivered EXCEPT ![m] = ack[h].head]
  /\ Done(h)
  /\ UNCHANGED <<row, read, mentions, send>>

(* The condition last_delivered_seq < message_seq is tested again on the   *)
(* version of the row that is updated.                                     *)
CatchUpUpdate(h) ==
  LET m == ack[h].who IN
  /\ Ready(h, "catchup")
  /\ delivered' = [delivered EXCEPT ![m] = Greatest(@, ack[h].head)]
  /\ Done(h)
  /\ UNCHANGED <<row, read, mentions, send>>

SendStep == \/ \E m \in Member, who \in SUBSET Member : Allocate(m, who)
            \/ \E m \in Member : Lock(m)
            \/ Commit \/ Rollback

RestStep == \E h \in Handler :
  \/ \E m \in Member, n \in 1..MaxSeq : RestRead(h, m, n)
  \/ Materialise(h) \/ RestUpdate(h)

CommandStep(kind) == \E h \in Handler :
  \/ \E m \in Member, n \in 1..MaxSeq : Command(h, kind, m, n)
  \/ Materialise(h) \/ Again(h) \/ ReadUpdate(h) \/ DeliveryUpdate(h)

CatchUpStep == \E h \in Handler :
  \/ \E m \in Member : CatchUp(h, m)
  \/ CatchUpUpdate(h)

Next == \/ SendStep \/ RestStep \/ CatchUpStep
        \/ \E kind \in {"read", "delivery"} : CommandStep(kind)

Spec == Init /\ [][Next]_vars

(* Sends with acknowledgements over REST only. *)
RestSpec == Init /\ [][SendStep \/ RestStep]_vars

-----------------------------------------------------------------------------
(* Properties. *)

(* No cursor is ever ahead of the conversation: the clamps of the acks     *)
(* work with whatever message_seq they have read, however old.             *)
CursorsWithinHead == \A m \in Member : read[m] <= head /\ delivered[m] <= head

(* The badge of a member with a row is the number of committed messages    *)
(* past the cursor that mention the member, although it is incremented by  *)
(* the send, recounted by every move of the cursor, and the two race.      *)
BadgeExact == \A m \in Warm : mentions[m] = Cardinality(Unread(m, read[m]))

(* The catch-up of IDENTIFY never takes a delivery back that a command or  *)
(* a send recorded while it waited for the row.                            *)
CatchUpNeverLowers ==
  [][\A h \in Handler : CatchUpUpdate(h) => delivered[ack[h].who] <= delivered'[ack[h].who]]_vars

(* Who takes a cursor back: the read cursor only an acknowledgement of its  *)
(* own member, over REST one whose capped position the cursor has passed   *)
(* meanwhile, over the gateway one that read a head older than today's;    *)
(* the delivery cursor only a command with such a head, never REST, the    *)
(* catch-up or a send.                                                     *)
StaleHead(h) == ack[h].head < head

OnlyStaleAcksLower ==
  [][\A m \in Member :
       /\ read'[m] < read[m] => \E h \in Handler :
            /\ ack[h] # Idle
            /\ ack[h].who = m
            /\ \/ RestUpdate(h) /\ Least(ack[h].n, ack[h].head) < read[m]
               \/ ReadUpdate(h) /\ StaleHead(h)
       /\ delivered'[m] < delivered[m] => \E h \in Handler :
            /\ ack[h] # Idle
            /\ ack[h].who = m
            /\ ReadUpdate(h) \/ DeliveryUpdate(h)
            /\ StaleHead(h)]_vars

(* "a cursor never moves backwards, because two devices ack out of order   *)
(* all the time" (routes/messages.ts): what the comment says and the code   *)
(* does not do.                                                             *)
NeverBackwards == [][\A m \in Member : read[m] <= read'[m]]_read
=============================================================================
