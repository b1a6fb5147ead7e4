------------------------- MODULE ReadCursors_proofs -------------------------
(***************************************************************************)
(* ReadCursors for any number of members, handlers and messages: types,    *)
(* cursors that stay within the conversation, badges that are exact, and   *)
(* the acknowledgements that alone can take a cursor back.                 *)
(***************************************************************************)
EXTENDS ReadCursors, FiniteSetTheorems, SequenceTheorems, TLAPS

USE WarmAssumption, MaxSeqAssumption

(* What an acknowledgement has read of the head is not ahead of it.        *)
AckInv == \A h \in Handler : ack[h] # Idle => ack[h].head <= head

(* A member who has a row from the start keeps it, so the open transaction *)
(* bumps such a member if and only if it mentions them.                    *)
WarmInv == Warm \subseteq row
BumpInv == tx.open => \A m \in Warm : m \in tx.bump <=> m \in tx.named

IInv == TypeOK /\ AckInv /\ WarmInv /\ BumpInv /\ CursorsWithinHead /\ BadgeExact

-----------------------------------------------------------------------------
(* Lemmas about the helpers.                                               *)

(* An acknowledgement that is under way is a record of type Ack.           *)
LEMMA Underway ==
  ASSUME TypeOK, NEW h \in Handler, ack[h] # Idle
  PROVE  ack[h] \in Ack
BY DEF TypeOK

LEMMA HeadType ==
  ASSUME TypeOK
  PROVE  head \in Nat
BY DEF TypeOK, head

(* The clamp keeps a cursor within what the statement read of the head.    *)
LEMMA ClampBound ==
  ASSUME TypeOK, NEW h \in Handler, ack[h] # Idle, NEW cursor \in Nat
  PROVE  /\ Clamped(h, cursor) \in Nat
         /\ Clamped(h, cursor) <= ack[h].head
<1>1. ack[h] \in Ack
  BY Underway
<1> QED
  BY <1>1 DEF Ack, Clamped, Least, Greatest

(* The mentions that a badge counts are finitely many.                     *)
LEMMA UnreadFinite ==
  ASSUME TypeOK, NEW m \in Member, NEW r \in Nat
  PROVE  /\ IsFiniteSet(Unread(m, r))
         /\ Cardinality(Unread(m, r)) \in Nat
<1>1. IsFiniteSet(1..head)
  BY HeadType, FS_Interval
<1>2. Unread(m, r) \subseteq 1..head
  BY DEF Unread
<1> QED
  BY <1>1, <1>2, FS_Subset, FS_CardinalityType

(* Moving the cursor of one member within the head keeps cursors and       *)
(* badges, as nothing is sent.                                             *)
LEMMA StampKeeps ==
  ASSUME IInv, NEW m \in Member, NEW r \in Nat, NEW d \in Nat,
         r <= head, d <= head, Stamp(m, r, d), UNCHANGED <<row, send>>
  PROVE  /\ read' \in [Member -> Nat] /\ delivered' \in [Member -> Nat]
         /\ mentions' \in [Member -> Nat]
         /\ CursorsWithinHead'
         /\ BadgeExact'
<1>1. Recounted(m, r) \in Nat
  BY UnreadFinite DEF IInv, TypeOK, Recounted
<1>2. /\ read' \in [Member -> Nat] /\ delivered' \in [Member -> Nat]
      /\ mentions' \in [Member -> Nat]
  BY <1>1 DEF IInv, TypeOK, Stamp
<1>3. CursorsWithinHead'
  BY DEF IInv, TypeOK, CursorsWithinHead, Stamp, head, send
<1>4. ASSUME NEW w \in Warm
      PROVE  mentions'[w] = Cardinality(Unread(w, read[w])')
  <2>1. w \in Member
    OBVIOUS
  <2>2. CASE w # m
    BY <2>1, <2>2 DEF IInv, TypeOK, BadgeExact, Stamp, Unread, head, send
  <2>3. CASE w = m /\ r = read[m]
    BY <2>1, <2>3 DEF IInv, TypeOK, BadgeExact, Stamp, Recounted, Unread, head, send
  <2>4. CASE w = m /\ r # read[m]
    BY <2>1, <2>4 DEF IInv, TypeOK, BadgeExact, Stamp, Recounted, Unread, head, send
  <2> QED
    BY <2>2, <2>3, <2>4
<1> QED
  BY <1>2, <1>3, <1>4 DEF BadgeExact

(* An acknowledgement that begins has read the head of this moment.        *)
LEMMA Begins ==
  ASSUME IInv, NEW h \in Handler, NEW a \in Ack, a.head = head,
         ack' = [ack EXCEPT ![h] = a], UNCHANGED <<members, send>>
  PROVE  IInv'
<1>1. TypeOK'
  BY DEF IInv, TypeOK, members, send
<1>2. AckInv'
  BY HeadType DEF IInv, TypeOK, AckInv, head, members, send
<1>3. CursorsWithinHead' /\ BadgeExact' /\ WarmInv' /\ BumpInv'
  BY DEF IInv, CursorsWithinHead, BadgeExact, WarmInv, BumpInv, Unread, head, members, send
<1> QED
  BY <1>1, <1>2, <1>3 DEF IInv

(* One that ends leaves the others with what they have read.               *)
LEMMA Ends ==
  ASSUME IInv, NEW h \in Handler, Done(h), UNCHANGED <<row, send>>,
         read' \in [Member -> Nat], delivered' \in [Member -> Nat],
         mentions' \in [Member -> Nat], CursorsWithinHead', BadgeExact'
  PROVE  IInv'
<1>1. TypeOK'
  BY DEF IInv, TypeOK, Done, send
<1>2. AckInv'
  BY DEF IInv, TypeOK, AckInv, Done, head, send
<1>3. WarmInv' /\ BumpInv'
  BY DEF IInv, WarmInv, BumpInv, send
<1> QED
  BY <1>1, <1>2, <1>3 DEF IInv

-----------------------------------------------------------------------------
(* The send transaction.                                                   *)

LEMMA InitInv ==
  ASSUME Init
  PROVE  IInv
<1>1. head = 0
  BY DEF Init, head
<1>2. \A m \in Warm : Unread(m, read[m]) = {}
  BY <1>1 DEF Unread
<1>3. BadgeExact
  BY <1>2, FS_EmptySet DEF Init, BadgeExact
<1>4. TypeOK
  BY DEF Init, TypeOK, NoTx
<1>5. AckInv /\ WarmInv /\ BumpInv /\ CursorsWithinHead
  BY <1>1 DEF Init, AckInv, WarmInv, BumpInv, CursorsWithinHead, NoTx
<1> QED
  BY <1>3, <1>4, <1>5 DEF IInv

LEMMA AllocateStep ==
  ASSUME IInv, NEW m \in Member, NEW who \in SUBSET Member, Allocate(m, who)
  PROVE  IInv'
<1>1. tx' \in Tx
  BY DEF IInv, TypeOK, Allocate, Tx
<1>2. TypeOK'
  BY <1>1 DEF IInv, TypeOK, Allocate, members
<1>3. BumpInv'
  BY DEF IInv, WarmInv, BumpInv, Allocate
<1>4. AckInv' /\ WarmInv' /\ CursorsWithinHead' /\ BadgeExact'
  BY DEF IInv, AckInv, WarmInv, CursorsWithinHead, BadgeExact, Unread, head, Allocate, members
<1> QED
  BY <1>2, <1>3, <1>4 DEF IInv

LEMMA LockStep ==
  ASSUME IInv, NEW m \in Member, Lock(m)
  PROVE  IInv'
<1>1. TypeOK'
  BY DEF IInv, TypeOK, Lock, members
<1>2. AckInv' /\ WarmInv' /\ BumpInv' /\ CursorsWithinHead' /\ BadgeExact'
  BY DEF IInv, AckInv, WarmInv, BumpInv, CursorsWithinHead, BadgeExact, Unread, head, Lock, members
<1> QED
  BY <1>1, <1>2 DEF IInv

LEMMA RollbackStep ==
  ASSUME IInv, Rollback
  PROVE  IInv'
<1>1. TypeOK' /\ BumpInv'
  BY DEF IInv, TypeOK, BumpInv, Rollback, members, NoTx
<1>2. AckInv' /\ WarmInv' /\ CursorsWithinHead' /\ BadgeExact'
  BY DEF IInv, AckInv, WarmInv, CursorsWithinHead, BadgeExact, Unread, head, Rollback, members
<1> QED
  BY <1>1, <1>2 DEF IInv

(* The commit adds one mention to the unread ones of those it mentions.    *)
LEMMA CommitUnread ==
  ASSUME IInv, Commit, NEW m \in Warm, m # tx.sender
  PROVE  Unread(m, read[m])' = IF m \in tx.bump
                               THEN Unread(m, read[m]) \cup {head + 1}
                               ELSE Unread(m, read[m])
<1>1. tx \in Tx
  BY DEF IInv, TypeOK, Commit, NoTx
<1>2. /\ head' = head + 1
      /\ \A s \in 1..head : named'[s] = named[s]
      /\ named'[head + 1] = tx.named
  BY <1>1 DEF IInv, TypeOK, Commit, Tx, head
<1>3. read'[m] = read[m] /\ read[m] \in Nat /\ read[m] <= head /\ head \in Nat
  BY HeadType DEF IInv, TypeOK, Commit, CursorsWithinHead
<1>4. 1..head' = 1..head \cup {head + 1}
  BY <1>2, <1>3
<1>5. m \in tx.bump <=> m \in tx.named
  BY <1>1 DEF IInv, BumpInv, Tx
<1> QED
  BY <1>2, <1>3, <1>4, <1>5 DEF Unread

LEMMA CommitStep ==
  ASSUME IInv, Commit
  PROVE  IInv'
<1>1. tx \in Tx
  BY DEF IInv, TypeOK, Commit, NoTx
<1>2. head \in Nat /\ head' = head + 1
  BY <1>1, HeadType DEF IInv, TypeOK, Commit, Tx, head
<1>3. TypeOK'
  <2>1. named' \in Seq(SUBSET Member)
    BY <1>1 DEF IInv, TypeOK, Commit, Tx
  <2>2. mentions' \in [Member -> Nat]
    BY <1>1, <1>2 DEF IInv, TypeOK, Commit, Bumped
  <2> QED
    BY <1>1, <1>2, <2>1, <2>2 DEF IInv, TypeOK, Commit, Tx, NoTx
<1>4. AckInv'
  <2> SUFFICES ASSUME NEW h \in Handler, ack[h] # Idle
               PROVE  ack[h].head <= head'
    BY DEF AckInv, Commit
  <2>1. ack[h].head \in Nat
    BY Underway DEF IInv, Ack
  <2> QED
    BY <1>2, <2>1 DEF IInv, AckInv
<1>5. CursorsWithinHead'
  BY <1>1, <1>2 DEF IInv, TypeOK, CursorsWithinHead, Commit, Tx
<1>6. WarmInv' /\ BumpInv'
  BY DEF IInv, WarmInv, BumpInv, Commit, NoTx
<1>7. ASSUME NEW m \in Warm
      PROVE  mentions'[m] = Cardinality(Unread(m, read[m])')
  <2>1. m \in Member
    OBVIOUS
  <2>2. CASE m = tx.sender
    <3>1. read'[m] = head' /\ mentions'[m] = 0
      BY <1>2, <2>1, <2>2 DEF IInv, TypeOK, Commit
    <3>2. Unread(m, read[m])' = {}
      BY <1>2, <3>1 DEF Unread
    <3> QED
      BY <3>1, <3>2, FS_EmptySet
  <2>3. CASE m # tx.sender
    <3>1. mentions'[m] = Bumped(m) /\ mentions[m] = Cardinality(Unread(m, read[m]))
      BY <2>1, <2>3 DEF IInv, TypeOK, Commit, BadgeExact
    <3>2. read[m] \in Nat /\ read[m] <= head
      BY <2>1 DEF IInv, TypeOK, CursorsWithinHead
    <3>3. IsFiniteSet(Unread(m, read[m])) /\ head + 1 \notin Unread(m, read[m])
      BY <1>2, <2>1, <3>2, UnreadFinite DEF IInv, Unread
    <3>4. Cardinality(Unread(m, read[m]) \cup {head + 1}) = Cardinality(Unread(m, read[m])) + 1
      BY <3>3, FS_AddElement
    <3> QED
      BY <1>2, <2>3, <3>1, <3>2, <3>4, CommitUnread DEF Bumped
  <2> QED
    BY <2>2, <2>3
<1> QED
  BY <1>3, <1>4, <1>5, <1>6, <1>7 DEF IInv, BadgeExact

-----------------------------------------------------------------------------
(* The acknowledgements.                                                   *)

LEMMA MaterialiseStep ==
  ASSUME IInv, NEW h \in Handler, Materialise(h)
  PROVE  IInv'
<1>1. ack[h].who \in Member
  BY Underway DEF IInv, Materialise, Ack
<1>2. TypeOK' /\ WarmInv'
  BY <1>1 DEF IInv, TypeOK, WarmInv, Materialise, send
<1>3. AckInv' /\ BumpInv' /\ CursorsWithinHead' /\ BadgeExact'
  BY DEF IInv, AckInv, BumpInv, CursorsWithinHead, BadgeExact, Unread, head, Materialise, send
<1> QED
  BY <1>2, <1>3 DEF IInv

LEMMA BeginStep ==
  ASSUME IInv, NEW h \in Handler,
         \/ \E m \in Member, n \in 1..MaxSeq : RestRead(h, m, n)
         \/ \E kind \in {"read", "delivery"}, m \in Member, n \in 1..MaxSeq : Command(h, kind, m, n)
         \/ \E m \in Member : CatchUp(h, m)
  PROVE  IInv'
<1>1. head \in Nat
  BY HeadType DEF IInv
<1>2. PICK a \in Ack : /\ a.head = head
                       /\ ack' = [ack EXCEPT ![h] = a]
                       /\ UNCHANGED <<members, send>>
  <2>1. ASSUME NEW m \in Member, NEW n \in 1..MaxSeq, RestRead(h, m, n)
        PROVE  \E a \in Ack : /\ a.head = head /\ ack' = [ack EXCEPT ![h] = a]
                              /\ UNCHANGED <<members, send>>
    <3> DEFINE a == [step |-> "update", kind |-> "rest", who |-> m, n |-> n, head |-> head]
    <3>1. a \in Ack /\ a.head = head
      BY <1>1 DEF Ack, Kind
    <3> QED
      BY <2>1, <3>1 DEF RestRead
  <2>2. ASSUME NEW kind \in {"read", "delivery"}, NEW m \in Member, NEW n \in 1..MaxSeq,
               Command(h, kind, m, n)
        PROVE  \E a \in Ack : /\ a.head = head /\ ack' = [ack EXCEPT ![h] = a]
                              /\ UNCHANGED <<members, send>>
    <3> DEFINE a == [step |-> IF m \in row THEN "update" ELSE "start",
                     kind |-> kind, who |-> m, n |-> n, head |-> head]
    <3>1. a \in Ack /\ a.head = head
      BY <1>1 DEF Ack, Kind
    <3> QED
      BY <2>2, <3>1 DEF Command
  <2>3. ASSUME NEW m \in Member, CatchUp(h, m)
        PROVE  \E a \in Ack : /\ a.head = head /\ ack' = [ack EXCEPT ![h] = a]
                              /\ UNCHANGED <<members, send>>
    <3> DEFINE a == [step |-> "update", kind |-> "catchup", who |-> m, n |-> 0, head |-> head]
    <3>1. a \in Ack /\ a.head = head
      BY <1>1 DEF Ack, Kind
    <3> QED
      BY <2>3, <3>1 DEF CatchUp
  <2> QED
    BY <2>1, <2>2, <2>3
<1> QED
  BY <1>2, Begins

LEMMA AgainStep ==
  ASSUME IInv, NEW h \in Handler, Again(h)
  PROVE  IInv'
<1>1. ack[h] \in Ack /\ head \in Nat
  BY Underway, HeadType DEF IInv, Again
<1> DEFINE a == [ack[h] EXCEPT !.step = "update", !.head = head]
<1>2. a \in Ack /\ a.head = head
  BY <1>1 DEF Ack
<1>3. ack' = [ack EXCEPT ![h] = a] /\ UNCHANGED <<members, send>>
  BY DEF Again
<1> HIDE DEF a
<1> QED
  BY <1>2, <1>3, Begins

LEMMA RestUpdateStep ==
  ASSUME IInv, NEW h \in Handler, RestUpdate(h)
  PROVE  IInv'
<1> DEFINE m      == ack[h].who
           capped == Least(ack[h].n, ack[h].head)
<1>1. ack[h] \in Ack /\ ack[h].head <= head /\ m \in Member /\ head \in Nat
  BY Underway, HeadType DEF IInv, AckInv, RestUpdate, Ready, Ack
<1>2. capped \in Nat /\ capped <= head
  BY <1>1 DEF Ack, Least
<1>3. Greatest(delivered[m], capped) \in Nat /\ Greatest(delivered[m], capped) <= head
  BY <1>1, <1>2 DEF IInv, TypeOK, CursorsWithinHead, Greatest
<1>4. Stamp(m, capped, Greatest(delivered[m], capped)) /\ Done(h) /\ UNCHANGED <<row, send>>
  BY DEF RestUpdate
<1> HIDE DEF m, capped
<1>5. /\ read' \in [Member -> Nat] /\ delivered' \in [Member -> Nat]
      /\ mentions' \in [Member -> Nat] /\ CursorsWithinHead' /\ BadgeExact'
  BY <1>1, <1>2, <1>3, <1>4, StampKeeps
<1> QED
  BY <1>4, <1>5, Ends

LEMMA ReadUpdateStep ==
  ASSUME IInv, NEW h \in Handler, ReadUpdate(h)
  PROVE  IInv'
<1> DEFINE m == ack[h].who
<1>1. ack[h] # Idle /\ ack[h] \in Ack /\ ack[h].head <= head /\ m \in Member /\ head \in Nat
  BY Underway, HeadType DEF IInv, AckInv, ReadUpdate, Ready, Ack
<1>2. read[m] \in Nat /\ delivered[m] \in Nat /\ ack[h].head \in Nat
  BY <1>1 DEF IInv, TypeOK, Ack
<1>3. /\ Clamped(h, read[m]) \in Nat /\ Clamped(h, read[m]) <= head
      /\ Clamped(h, delivered[m]) \in Nat /\ Clamped(h, delivered[m]) <= head
  BY <1>1, <1>2, ClampBound DEF IInv
<1>4. Stamp(m, Clamped(h, read[m]), Clamped(h, delivered[m])) /\ Done(h) /\ UNCHANGED <<row, send>>
  BY DEF ReadUpdate
<1> HIDE DEF m
<1>5. /\ read' \in [Member -> Nat] /\ delivered' \in [Member -> Nat]
      /\ mentions' \in [Member -> Nat] /\ CursorsWithinHead' /\ BadgeExact'
  BY <1>1, <1>3, <1>4, StampKeeps
<1> QED
  BY <1>4, <1>5, Ends

(* A statement that moves a delivery cursor only, within the head.         *)
LEMMA DeliveryMoves ==
  ASSUME IInv, NEW h \in Handler, NEW m \in Member, NEW d \in Nat, d <= head,
         delivered' = [delivered EXCEPT ![m] = d],
         Done(h), UNCHANGED <<row, read, mentions, send>>
  PROVE  IInv'
<1>1. delivered' \in [Member -> Nat] /\ CursorsWithinHead'
  BY DEF IInv, TypeOK, CursorsWithinHead, head, send
<1>2. BadgeExact'
  BY DEF IInv, BadgeExact, Unread, head, send
<1>3. read' \in [Member -> Nat] /\ mentions' \in [Member -> Nat]
  BY DEF IInv, TypeOK
<1> QED
  BY <1>1, <1>2, <1>3, Ends

LEMMA DeliveryUpdateStep ==
  ASSUME IInv, NEW h \in Handler, DeliveryUpdate(h)
  PROVE  IInv'
<1> DEFINE m == ack[h].who
<1>1. ack[h] # Idle /\ ack[h] \in Ack /\ ack[h].head <= head /\ m \in Member /\ head \in Nat
  BY Underway, HeadType DEF IInv, AckInv, DeliveryUpdate, Ready, Ack
<1>2. delivered[m] \in Nat /\ ack[h].head \in Nat
  BY <1>1 DEF IInv, TypeOK, Ack
<1>3. Clamped(h, delivered[m]) \in Nat /\ Clamped(h, delivered[m]) <= head
  BY <1>1, <1>2, ClampBound DEF IInv
<1>4. /\ delivered' = [delivered EXCEPT ![m] = Clamped(h, delivered[m])]
      /\ Done(h) /\ UNCHANGED <<row, read, mentions, send>>
  BY DEF DeliveryUpdate
<1> HIDE DEF m
<1> QED
  BY <1>1, <1>3, <1>4, DeliveryMoves

LEMMA CatchUpUpdateStep ==
  ASSUME IInv, NEW h \in Handler, CatchUpUpdate(h)
  PROVE  /\ IInv'
         /\ delivered[ack[h].who] <= delivered'[ack[h].who]
<1> DEFINE m == ack[h].who
           d == Greatest(delivered[m], ack[h].head)
<1>1. ack[h] \in Ack /\ ack[h].head <= head /\ m \in Member /\ head \in Nat
  BY Underway, HeadType DEF IInv, AckInv, CatchUpUpdate, Ready, Ack
<1>2. d \in Nat /\ d <= head /\ delivered[m] <= d
  BY <1>1 DEF IInv, TypeOK, CursorsWithinHead, Greatest, Ack
<1>3. /\ delivered' = [delivered EXCEPT ![m] = d]
      /\ Done(h) /\ UNCHANGED <<row, read, mentions, send>>
  BY DEF CatchUpUpdate
<1>4. delivered'[m] = d
  BY <1>1, <1>3 DEF IInv, TypeOK
<1> HIDE DEF d, m
<1>5. IInv'
  BY <1>1, <1>2, <1>3, DeliveryMoves
<1> QED
  BY <1>2, <1>4, <1>5 DEF m

-----------------------------------------------------------------------------

LEMMA NextStep ==
  ASSUME IInv, Next
  PROVE  IInv'
<1>1. CASE SendStep
  BY <1>1, AllocateStep, LockStep, CommitStep, RollbackStep DEF SendStep
<1>2. CASE RestStep
  BY <1>2, BeginStep, MaterialiseStep, RestUpdateStep DEF RestStep
<1>3. ASSUME NEW kind \in {"read", "delivery"}, CommandStep(kind)
      PROVE  IInv'
  <2>1. PICK h \in Handler :
          \/ \E m \in Member, n \in 1..MaxSeq : Command(h, kind, m, n)
          \/ Materialise(h) \/ Again(h) \/ ReadUpdate(h) \/ DeliveryUpdate(h)
    BY <1>3 DEF CommandStep
  <2> QED
    BY <2>1, BeginStep, MaterialiseStep, AgainStep, ReadUpdateStep, DeliveryUpdateStep
<1>4. CASE CatchUpStep
  BY <1>4, BeginStep, CatchUpUpdateStep DEF CatchUpStep
<1> QED
  BY <1>1, <1>2, <1>3, <1>4 DEF Next

LEMMA StutterStep ==
  ASSUME IInv, UNCHANGED vars
  PROVE  IInv'
BY DEF IInv, TypeOK, AckInv, WarmInv, BumpInv, CursorsWithinHead, BadgeExact, Unread, head,
       vars, members, send

(* The inductive invariant holds.                                          *)
THEOREM Invariance == Spec => []IInv
<1>1. Init => IInv
  BY InitInv
<1>2. IInv /\ [Next]_vars => IInv'
  BY NextStep, StutterStep
<1> QED
  BY <1>1, <1>2, PTL DEF Spec

(* Cursors, badges, transactions and acknowledgements keep their types; a  *)
(* lock belongs to the open transaction.                                   *)
THEOREM TypeCorrect == Spec => []TypeOK
<1>1. IInv => TypeOK
  BY DEF IInv
<1> QED
  BY <1>1, Invariance, PTL

(* No acknowledgement, however old what it has read, takes a cursor ahead  *)
(* of the conversation.                                                    *)
THEOREM CursorsWithinHeadHolds == Spec => []CursorsWithinHead
<1>1. IInv => CursorsWithinHead
  BY DEF IInv
<1> QED
  BY <1>1, Invariance, PTL

(* The two triggers keep every badge exact, whatever the order of sends    *)
(* and reads.                                                              *)
THEOREM BadgeExactHolds == Spec => []BadgeExact
<1>1. IInv => BadgeExact
  BY DEF IInv
<1> QED
  BY <1>1, Invariance, PTL

(* The catch-up of IDENTIFY never lowers a delivery cursor.                *)
THEOREM CatchUpNeverLowersHolds == Spec => CatchUpNeverLowers
<1>1. IInv /\ [Next]_vars =>
        [\A h \in Handler : CatchUpUpdate(h) => delivered[ack[h].who] <= delivered'[ack[h].who]]_vars
  BY CatchUpUpdateStep
<1> QED
  BY <1>1, Invariance, PTL DEF Spec, CatchUpNeverLowers

-----------------------------------------------------------------------------
(* Who takes a cursor back.                                                *)

(* One step as OnlyStaleAcksLower states it for a member.                  *)
ReadBack(m) == \E h \in Handler :
  /\ ack[h] # Idle
  /\ ack[h].who = m
  /\ \/ RestUpdate(h) /\ Least(ack[h].n, ack[h].head) < read[m]
     \/ ReadUpdate(h) /\ StaleHead(h)

DeliveredBack(m) == \E h \in Handler :
  /\ ack[h] # Idle
  /\ ack[h].who = m
  /\ ReadUpdate(h) \/ DeliveryUpdate(h)
  /\ StaleHead(h)

Explained(m) == /\ read'[m] < read[m] => ReadBack(m)
                /\ delivered'[m] < delivered[m] => DeliveredBack(m)

(* A step that leaves both cursors of a member where they are, or moves    *)
(* them forward, needs no explanation.                                     *)
LEMMA Forward ==
  ASSUME TypeOK, NEW m \in Member,
         read'[m] \in Nat, read[m] <= read'[m],
         delivered'[m] \in Nat, delivered[m] <= delivered'[m]
  PROVE  Explained(m)
BY DEF TypeOK, Explained

LEMMA Unmoved ==
  ASSUME TypeOK, NEW m \in Member, UNCHANGED <<read, delivered>>
  PROVE  Explained(m)
BY DEF TypeOK, Explained

(* The clamp takes a cursor back only when the head it uses is old: a      *)
(* cursor is within the head of today.                                     *)
LEMMA ClampStale ==
  ASSUME IInv, NEW h \in Handler, ack[h] # Idle,
         NEW cursor \in Nat, cursor <= head, Clamped(h, cursor) < cursor
  PROVE  StaleHead(h)
<1>1. ack[h] \in Ack /\ head \in Nat /\ ack[h].head <= head
  BY Underway, HeadType DEF IInv, AckInv
<1>2. ack[h].n \in Nat /\ ack[h].head \in Nat
  BY <1>1 DEF Ack
<1> QED
  BY <1>1, <1>2 DEF Clamped, Least, Greatest, StaleHead

LEMMA CommitForward ==
  ASSUME IInv, Commit, NEW m \in Member
  PROVE  Explained(m)
<1>1. head \in Nat /\ read[m] \in Nat /\ delivered[m] \in Nat
      /\ read[m] <= head /\ delivered[m] <= head
  BY HeadType DEF IInv, TypeOK, CursorsWithinHead
<1>2. /\ read'[m] = (IF m = tx.sender THEN head + 1 ELSE read[m])
      /\ delivered'[m] = (IF m = tx.sender THEN head + 1 ELSE delivered[m])
  BY DEF IInv, TypeOK, Commit
<1> QED
  BY <1>1, <1>2, Forward DEF IInv

LEMMA RestLowers ==
  ASSUME IInv, NEW h \in Handler, RestUpdate(h), NEW m \in Member
  PROVE  Explained(m)
<1> DEFINE w      == ack[h].who
           capped == Least(ack[h].n, ack[h].head)
<1>1. ack[h] # Idle /\ ack[h] \in Ack /\ w \in Member
  BY Underway DEF IInv, RestUpdate, Ready, Ack
<1>2. capped \in Nat /\ read[m] \in Nat /\ delivered[m] \in Nat
  BY <1>1 DEF IInv, TypeOK, Ack, Least
<1>3. /\ read' = [read EXCEPT ![w] = capped]
      /\ delivered' = [delivered EXCEPT ![w] = Greatest(delivered[w], capped)]
  BY DEF RestUpdate, Stamp
<1>4. CASE m # w
  BY <1>3, <1>4 DEF IInv, TypeOK, Explained
<1>5. CASE m = w
  <2>1. read'[m] = capped /\ delivered'[m] = Greatest(delivered[m], capped)
    BY <1>3, <1>5 DEF IInv, TypeOK
  <2>2. ~(delivered'[m] < delivered[m])
    BY <1>2, <2>1 DEF Greatest
  <2>3. read'[m] < read[m] => ReadBack(m)
    BY <1>1, <1>5, <2>1 DEF ReadBack
  <2> QED
    BY <2>2, <2>3 DEF Explained
<1> QED
  BY <1>4, <1>5

LEMMA ReadLowers ==
  ASSUME IInv, NEW h \in Handler, ReadUpdate(h), NEW m \in Member
  PROVE  Explained(m)
<1> DEFINE w == ack[h].who
<1>1. ack[h] # Idle /\ w \in Member
  BY Underway DEF IInv, ReadUpdate, Ready, Ack
<1>2. /\ read[m] \in Nat /\ read[m] <= head
      /\ delivered[m] \in Nat /\ delivered[m] <= head
  BY DEF IInv, TypeOK, CursorsWithinHead
<1>3. /\ read' = [read EXCEPT ![w] = Clamped(h, read[w])]
      /\ delivered' = [delivered EXCEPT ![w] = Clamped(h, delivered[w])]
  BY DEF ReadUpdate, Stamp
<1>4. CASE m # w
  BY <1>3, <1>4 DEF IInv, TypeOK, Explained
<1>5. CASE m = w
  <2>1. read'[m] = Clamped(h, read[m]) /\ delivered'[m] = Clamped(h, delivered[m])
    BY <1>3, <1>5 DEF IInv, TypeOK
  <2>2. read'[m] < read[m] \/ delivered'[m] < delivered[m] => StaleHead(h)
    BY <1>1, <1>2, <2>1, ClampStale
  <2> QED
    BY <1>1, <1>5, <2>2 DEF Explained, ReadBack, DeliveredBack
<1> QED
  BY <1>4, <1>5

LEMMA DeliveryLowers ==
  ASSUME IInv, NEW h \in Handler, DeliveryUpdate(h), NEW m \in Member
  PROVE  Explained(m)
<1> DEFINE w == ack[h].who
<1>1. ack[h] # Idle /\ w \in Member
  BY Underway DEF IInv, DeliveryUpdate, Ready, Ack
<1>2. read[m] \in Nat /\ delivered[m] \in Nat /\ delivered[m] <= head
  BY DEF IInv, TypeOK, CursorsWithinHead
<1>3. read' = read /\ delivered' = [delivered EXCEPT ![w] = Clamped(h, delivered[w])]
  BY DEF DeliveryUpdate
<1>4. CASE m # w
  BY <1>3, <1>4 DEF IInv, TypeOK, Explained
<1>5. CASE m = w
  <2>1. delivered'[m] = Clamped(h, delivered[m])
    BY <1>3, <1>5 DEF IInv, TypeOK
  <2>2. delivered'[m] < delivered[m] => StaleHead(h)
    BY <1>1, <1>2, <2>1, ClampStale
  <2> QED
    BY <1>1, <1>2, <1>3, <1>5, <2>2 DEF Explained, DeliveredBack
<1> QED
  BY <1>4, <1>5

LEMMA CatchUpForward ==
  ASSUME IInv, NEW h \in Handler, CatchUpUpdate(h), NEW m \in Member
  PROVE  Explained(m)
<1>1. ack[h].who \in Member /\ delivered[ack[h].who] <= delivered'[ack[h].who]
  BY Underway, CatchUpUpdateStep DEF IInv, CatchUpUpdate, Ready, Ack
<1>2. read' = read /\ (m # ack[h].who => delivered'[m] = delivered[m])
  BY DEF IInv, TypeOK, CatchUpUpdate
<1>3. IInv'
  BY CatchUpUpdateStep
<1>4. read'[m] \in Nat /\ delivered'[m] \in Nat
  BY <1>3 DEF IInv, TypeOK
<1>5. read[m] <= read'[m] /\ delivered[m] <= delivered'[m]
  BY <1>1, <1>2, <1>4 DEF IInv, TypeOK
<1>6. TypeOK
  BY DEF IInv
<1> QED
  BY <1>4, <1>5, <1>6, Forward

LEMMA EveryStepExplained ==
  ASSUME IInv, [Next]_vars, NEW m \in Member
  PROVE  Explained(m)
<1>1. CASE SendStep
  BY <1>1, CommitForward, Unmoved
     DEF IInv, SendStep, Allocate, Lock, Rollback, members
<1>2. CASE RestStep
  <2>1. PICK h \in Handler :
          \/ \E w \in Member, n \in 1..MaxSeq : RestRead(h, w, n)
          \/ Materialise(h) \/ RestUpdate(h)
    BY <1>2 DEF RestStep
  <2> QED
    BY <2>1, RestLowers, Unmoved DEF IInv, RestRead, Materialise, members
<1>3. ASSUME NEW kind \in {"read", "delivery"}, CommandStep(kind)
      PROVE  Explained(m)
  <2>1. PICK h \in Handler :
          \/ \E w \in Member, n \in 1..MaxSeq : Command(h, kind, w, n)
          \/ Materialise(h) \/ Again(h) \/ ReadUpdate(h) \/ DeliveryUpdate(h)
    BY <1>3 DEF CommandStep
  <2> QED
    BY <2>1, ReadLowers, DeliveryLowers, Unmoved
       DEF IInv, Command, Materialise, Again, members
<1>4. CASE CatchUpStep
  <2>1. PICK h \in Handler :
          (\E w \in Member : CatchUp(h, w)) \/ CatchUpUpdate(h)
    BY <1>4 DEF CatchUpStep
  <2> QED
    BY <2>1, CatchUpForward, Unmoved DEF IInv, CatchUp, members
<1>5. CASE UNCHANGED vars
  BY <1>5, Unmoved DEF IInv, vars, members
<1> QED
  BY <1>1, <1>2, <1>3, <1>4, <1>5 DEF Next

(* A cursor goes back only through an acknowledgement of that very member  *)
(* whose reads are out of date; over REST the delivery cursor never does,  *)
(* and neither a send nor the catch-up ever takes a cursor back.           *)
THEOREM OnlyStaleAcksLowerHolds == Spec => OnlyStaleAcksLower
<1>1. IInv /\ [Next]_vars =>
        [\A m \in Member :
           /\ read'[m] < read[m] => \E h \in Handler :
                /\ ack[h] # Idle
                /\ ack[h].who = m
                /\ \/ RestUpdate(h) /\ Least(ack[h].n, ack[h].head) < read[m]
                   \/ ReadUpdate(h) /\ StaleHead(h)
           /\ delivered'[m] < delivered[m] => \E h \in Handler :
                /\ ack[h] # Idle
                /\ ack[h].who = m
                /\ ReadUpdate(h) \/ DeliveryUpdate(h)
                /\ StaleHead(h)]_vars
  BY EveryStepExplained DEF Explained, ReadBack, DeliveredBack
<1> QED
  BY <1>1, Invariance, PTL DEF Spec, OnlyStaleAcksLower
=============================================================================
