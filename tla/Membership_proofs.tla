-------------------------- MODULE Membership_proofs --------------------------
(***************************************************************************)
(* Theorems about membership, for every finite set of users, every set of  *)
(* requests and every limit.                                               *)
(*                                                                         *)
(* The inductive invariant says which steps each kind of request has       *)
(* (KindInv), that a request that holds the invite will find it as it left *)
(* it (InviteInv), that whoever comes in past a ban began before it        *)
(* (DoorInv), that a count nobody has overtaken is the one of its own      *)
(* change (CountInv), and which locks a change of membership and an add    *)
(* hold at which step (LockInv).  OwnerInv, on top of it, says who is the  *)
(* owner while a transfer is under way.                                    *)
(***************************************************************************)
EXTENDS Membership, FiniteSetTheorems, TLAPS

StepsOf(k) == CASE k = "none"     -> {"idle"}
                [] k = "invite"   -> {"look", "write", "count"}
                [] k = "public"   -> {"look", "write", "count"}
                [] k = "add"      -> {"bans", "rows", "update", "insert", "count"}
                [] k = "remove"   -> {"cut", "count"}
                [] k = "ban"      -> {"ban", "remove", "cut", "count"}
                [] k = "rank"     -> {"rank"}
                [] k = "send"     -> {"mark"}
                [] k = "transfer" -> {"give", "take", "hand"}

KindInv == \A r \in Request : at[r] \in StepsOf(kind[r])

InviteInv ==
  \A r \in Request : kind[r] = "invite" => "invite" \in held[r] /\ uses < MaxUses

DoorInv ==
  \A u \in ban : \A r \in Request : Entering(r) /\ u \in Rows(r) => u \in excused

CountInv ==
  \A r \in fresh :
    /\ at[r] = "count"
    /\ Joins(r) => seen[r] = Cardinality(Active \cup Rows(r))
    /\ Parts(r) => seen[r] = Cardinality(Active \ {who[r]})

(* What an add has locked, of the rows it is about. *)
AddOf(r) ==
  /\ at[r] = "bans" => back[r] = {}
  /\ at[r] = "rows" => back[r] = {}
  /\ at[r] = "bans" \/ at[r] = "rows" => held[r] = {}
  /\ at[r] = "update" => back[r] # {}
  /\ at[r] = "count" => Rows(r) \subseteq held[r]
  /\ back[r] \cap new[r] = {}
  /\ held[r] \subseteq Rows(r) \cup {"conversation"}

LockOf(r) ==
  /\ at[r] = "idle" => held[r] = {}
  /\ kind[r] \notin {"send", "transfer"} /\ "conversation" \in held[r] => Several(r)
  /\ kind[r] \notin {"send", "transfer", "add"} /\ held[r] \cap User # {} => at[r] = "count"
  /\ IF kind[r] = "add" THEN AddOf(r) ELSE back[r] = {} /\ new[r] = {}

LockInv == \A r \in Request : LockOf(r)

IInv == /\ TypeOK /\ InviteNotOverspent /\ BannedIsOut
        /\ KindInv /\ InviteInv /\ DoorInv /\ CountInv /\ LockInv

-----------------------------------------------------------------------------
(* Counting.                                                               *)

LEMMA Counts ==
  ASSUME NEW S \in SUBSET User
  PROVE  /\ Cardinality(Active \cup S) \in 0..Cardinality(User)
         /\ Cardinality(Active \ S) \in 0..Cardinality(User)
<1>1. Active \cup S \subseteq User /\ Active \ S \subseteq User
  BY DEF Active
<1>2. \A T \in SUBSET User : Cardinality(T) \in 0..Cardinality(User)
  BY UserAssumption, FS_Subset, FS_CardinalityType
<1> QED
  BY <1>1, <1>2

-----------------------------------------------------------------------------
(* Requests that begin, go on and end.                                     *)

LEMMA InitInv ==
  ASSUME Init
  PROVE  IInv
<1>1. Cardinality(User) \in Nat /\ Cardinality(User) >= 1
  <2>1. Cardinality({Founder}) = 1
    BY FS_Singleton
  <2>2. {Founder} \subseteq User
    BY UserAssumption
  <2> QED
    BY <2>1, <2>2, UserAssumption, FS_Subset, FS_CardinalityType
<1>2. TypeOK
  <2>1. 0 \in 0..MaxAsked /\ 0 \in 0..Cardinality(User) /\ 1 \in 0..Cardinality(User)
    BY <1>1, BoundAssumption
  <2> QED
    BY <2>1, UserAssumption DEF Init, TypeOK
<1>3. InviteNotOverspent /\ BannedIsOut
  BY LimitAssumption DEF Init, InviteNotOverspent, BannedIsOut
<1>4. KindInv /\ InviteInv /\ DoorInv /\ CountInv /\ LockInv
  BY DEF Init, KindInv, StepsOf, InviteInv, DoorInv, CountInv, LockInv, LockOf
<1> QED
  BY <1>2, <1>3, <1>4 DEF IInv

(* What the parts of a request say of it, when it is left alone.           *)
LeftAlone(q) ==
  /\ at'[q] = at[q] /\ kind'[q] = kind[q] /\ who'[q] = who[q] /\ held'[q] = held[q]
  /\ back'[q] = back[q] /\ new'[q] = new[q] /\ seen'[q] = seen[q]

LEMMA Alone ==
  ASSUME NEW q \in Request, LeftAlone(q)
  PROVE  /\ Rows(q)' = Rows(q) /\ (Several(q)' <=> Several(q)) /\ (Entering(q)' <=> Entering(q))
         /\ (Joins(q)' <=> Joins(q)) /\ (Parts(q)' <=> Parts(q))
         /\ LockOf(q) => LockOf(q)'
<1>1. Rows(q)' = Rows(q) /\ (Entering(q)' <=> Entering(q)) /\ (Joins(q)' <=> Joins(q)) /\ (Parts(q)' <=> Parts(q))
  BY DEF LeftAlone, Rows, Entering, Joins, Parts
<1>2. Several(q)' <=> Several(q)
  BY <1>1 DEF Several
<1>3. AddOf(q) => AddOf(q)'
  BY <1>1 DEF LeftAlone, AddOf
<1> QED
  BY <1>1, <1>2, <1>3 DEF LeftAlone, LockOf

(* A new request holds the invite, the conversation or nothing.            *)
LEMMA Begins ==
  ASSUME IInv, asked' \in 0..MaxAsked, NEW r \in Request,
         NEW k \in {"invite", "public", "add", "remove", "ban", "rank", "send", "transfer"},
         NEW a \in User, NEW u \in User, NEW step \in StepsOf(k), step # "count",
         Begin(r, k, a, u, step), UNCHANGED <<group, back, past>>,
         NEW S \in SUBSET User, new' = [new EXCEPT ![r] = S],
         k = "add" => step = "bans",
         k # "add" => S = {},
         NEW n \in 0..Cardinality(User), seen' = [seen EXCEPT ![r] = n],
         was' \in [Request -> {"none", "in", "left"}],
         NEW locks \in SUBSET {"invite", "conversation"},
         \A l \in locks : Free(r, l),
         held' = [held EXCEPT ![r] = locks],
         k = "invite" => "invite" \in locks /\ uses < MaxUses,
         k # "send" => "conversation" \notin locks,
         k = "add" => locks = {},
         k \in {"invite", "public"} => u \notin ban
  PROVE  IInv'
<1>1. /\ at[r] = "idle" /\ at' = [at EXCEPT ![r] = step]
      /\ kind' = [kind EXCEPT ![r] = k]
      /\ by' = [by EXCEPT ![r] = a]
      /\ who' = [who EXCEPT ![r] = u]
      /\ UNCHANGED <<member, role, ban, uses, count, back, admitted, fresh, excused, contested>>
  BY DEF Begin, group, past, kept
<1>2. r \notin fresh
  BY <1>1 DEF IInv, CountInv
<1>3. /\ \A q \in Request \ {r} : LeftAlone(q)
      /\ at'[r] = step /\ kind'[r] = k /\ who'[r] = u /\ held'[r] = locks /\ new'[r] = S
  BY <1>1 DEF IInv, TypeOK, LeftAlone
<1>4. back'[r] = {}
  <2>1. kind[r] # "add"
    BY <1>1 DEF IInv, TypeOK, KindInv, StepsOf
  <2> QED
    BY <1>1, <2>1 DEF IInv, LockInv, LockOf
<1>5. TypeOK'
  <2>1. step \in {"look", "write", "cut", "ban", "remove", "rank", "mark", "give", "take", "hand",
                  "bans", "rows", "update", "insert"}
    BY DEF StepsOf
  <2>2. \A q, p \in Request : q # p => held'[q] \cap held'[p] = {}
    BY <1>1 DEF IInv, TypeOK, Free
  <2>3. held' \in [Request -> SUBSET Lock]
    BY DEF IInv, TypeOK, Lock
  <2> QED
    BY <1>1, <2>1, <2>2, <2>3 DEF IInv, TypeOK
<1>6. InviteNotOverspent' /\ KindInv' /\ InviteInv'
  BY <1>1, <1>3 DEF IInv, InviteNotOverspent, KindInv, InviteInv, LeftAlone
<1>7. BannedIsOut'
  <2> SUFFICES ASSUME NEW v \in ban, member[v] = "in", v \notin excused
               PROVE  \E q \in Request : kind'[q] = "ban" /\ who'[q] = v
    BY <1>1 DEF BannedIsOut
  <2>1. PICK q \in Request : kind[q] = "ban" /\ who[q] = v
    BY DEF IInv, BannedIsOut
  <2>2. q # r
    BY <1>1, <2>1 DEF IInv, KindInv, StepsOf
  <2> QED
    BY <1>3, <2>1, <2>2 DEF LeftAlone
<1>8. DoorInv'
  <2>1. \A v \in ban : Entering(r)' /\ v \in Rows(r)' => v \in excused
    BY <1>3 DEF Entering, Rows
  <2>2. \A v \in ban : \A q \in Request \ {r} : Entering(q)' /\ v \in Rows(q)' => v \in excused
    BY <1>3, Alone DEF IInv, DoorInv
  <2> QED
    BY <1>1, <2>1, <2>2 DEF DoorInv
<1>9. CountInv'
  <2> SUFFICES ASSUME NEW q \in fresh
               PROVE  /\ at'[q] = "count"
                      /\ Joins(q)' => seen'[q] = Cardinality(Active' \cup Rows(q)')
                      /\ Parts(q)' => seen'[q] = Cardinality(Active' \ {who'[q]})
    BY <1>1 DEF CountInv
  <2>1. q \in Request /\ q # r /\ Active' = Active
    BY <1>1, <1>2 DEF IInv, TypeOK, Active
  <2>2. LeftAlone(q) /\ Rows(q)' = Rows(q) /\ (Joins(q)' <=> Joins(q)) /\ (Parts(q)' <=> Parts(q))
    BY <1>3, <2>1, Alone
  <2> QED
    BY <2>1, <2>2 DEF IInv, CountInv, LeftAlone
<1>10. LockInv'
  <2>1. LockOf(r)'
    <3>1. step # "idle" /\ locks \cap User = {}
      BY LockAssumption DEF StepsOf
    <3>2. k = "add" => AddOf(r)'
      BY <1>3, <1>4 DEF AddOf
    <3> QED
      BY <1>3, <1>4, <3>1, <3>2 DEF LockOf
  <2>2. \A q \in Request \ {r} : LockOf(q)'
    BY <1>3, Alone DEF IInv, LockInv
  <2> QED
    BY <2>1, <2>2 DEF LockInv
<1> QED
  BY <1>5, <1>6, <1>7, <1>8, <1>9, <1>10 DEF IInv

LEMMA AskStep ==
  ASSUME IInv, asked' \in 0..MaxAsked, NEW r \in Request, Ask(r)
  PROVE  IInv'
<1>0. /\ Founder \in User /\ was \in [Request -> {"none", "in", "left"}]
      /\ seen[r] \in 0..Cardinality(User) /\ seen' \in {seen, [seen EXCEPT ![r] = count]}
      /\ seen = [seen EXCEPT ![r] = seen[r]]
  BY UserAssumption DEF IInv, TypeOK, Ask, OpenInvite, AskPublic, Send, AskRemove, AskBan, AskRank,
     AskTransfer, AskAdd
<1>1. /\ at[r] = "idle" => held[r] = {} /\ new[r] = {}
      /\ new = [new EXCEPT ![r] = new[r]] /\ held = [held EXCEPT ![r] = held[r]]
  BY DEF IInv, TypeOK, KindInv, StepsOf, LockInv, LockOf
<1> DEFINE none == {}
<1>2. none \in SUBSET User
  OBVIOUS
<1> HIDE DEF none
<1>3. ASSUME NEW u \in User, OpenInvite(r, u)
      PROVE  IInv'
  <2> DEFINE locks == {"invite"}
  <2>1. /\ locks \in SUBSET {"invite", "conversation"}
        /\ "invite" \in locks /\ "conversation" \notin locks
    OBVIOUS
  <2>2. /\ held' = [held EXCEPT ![r] = locks] /\ \A l \in locks : Free(r, l)
        /\ Begin(r, "invite", Founder, u, "look") /\ u \notin ban /\ uses < MaxUses
        /\ UNCHANGED <<group, back, new, seen, past>> /\ was' = was
    BY <1>3 DEF OpenInvite, adds
  <2>3. "look" \in StepsOf("invite") /\ "look" # "count" /\ new' = [new EXCEPT ![r] = none]
    BY <1>1, <2>2 DEF StepsOf, Begin, none
  <2> HIDE DEF locks
  <2> QED
    BY <1>0, <1>2, <2>1, <2>2, <2>3, Begins DEF none
<1>4. ASSUME NEW u \in User, Send(r, u)
      PROVE  IInv'
  <2> DEFINE locks == {"conversation"}
  <2>1. locks \in SUBSET {"invite", "conversation"}
    OBVIOUS
  <2>2. /\ held' = [held EXCEPT ![r] = locks] /\ \A l \in locks : Free(r, l)
        /\ Begin(r, "send", Founder, u, "mark")
        /\ UNCHANGED <<group, back, new, seen, past>> /\ was' = was
    BY <1>4 DEF Send, adds
  <2>3. "mark" \in StepsOf("send") /\ "mark" # "count" /\ new' = [new EXCEPT ![r] = none]
    BY <1>1, <2>2 DEF StepsOf, Begin, none
  <2> HIDE DEF locks
  <2> QED
    BY <1>0, <1>2, <2>1, <2>2, <2>3, Begins DEF none
<1>5. ASSUME NEW k \in {"public", "add", "remove", "ban", "rank", "transfer"},
             NEW a \in User, NEW u \in User, NEW step \in StepsOf(k), step # "count",
             Begin(r, k, a, u, step), UNCHANGED <<group, back, held, past>>,
             NEW S \in SUBSET User, new' = [new EXCEPT ![r] = S],
             k = "add" => step = "bans",
             k # "add" => S = {},
             NEW n \in 0..Cardinality(User), seen' = [seen EXCEPT ![r] = n],
             was' \in [Request -> {"none", "in", "left"}],
             k = "public" => u \notin ban
      PROVE  IInv'
  <2> DEFINE locks == {}
  <2>1. held' = [held EXCEPT ![r] = locks]
    BY <1>1, <1>5 DEF Begin
  <2>2. /\ locks \in SUBSET {"invite", "conversation"}
        /\ \A l \in locks : Free(r, l)
        /\ "conversation" \notin locks
        /\ k = "add" => locks = {}
    OBVIOUS
  <2>3. k \in {"invite", "public", "add", "remove", "ban", "rank", "send", "transfer"} /\ k # "invite"
    OBVIOUS
  <2>4. UNCHANGED <<group, back, past>>
    BY <1>5
  <2>5. /\ k = "invite" => "invite" \in locks /\ uses < MaxUses
        /\ k # "send" => "conversation" \notin locks
        /\ k \in {"invite", "public"} => u \notin ban
    BY <1>5, <2>2, <2>3
  <2> HIDE DEF locks
  <2> QED
    BY ZenonT(60), <1>5, <2>1, <2>2, <2>3, <2>4, <2>5, Begins
<1>6. ASSUME NEW k \in {"public", "remove", "ban", "rank", "transfer"},
             NEW a \in User, NEW u \in User, NEW step \in StepsOf(k), step # "count",
             Begin(r, k, a, u, step), UNCHANGED <<group, adds, seen, held, past>>,
             was' \in [Request -> {"none", "in", "left"}],
             k = "public" => u \notin ban
      PROVE  IInv'
  <2>1. UNCHANGED <<group, back, held, past>> /\ new' = [new EXCEPT ![r] = none] /\ k # "add"
    BY <1>1, <1>6 DEF adds, Begin, none
  <2>2. seen' = [seen EXCEPT ![r] = seen[r]] /\ none = {}
    BY <1>0, <1>6 DEF none
  <2>3. k \in {"public", "add", "remove", "ban", "rank", "transfer"}
    OBVIOUS
  <2> QED
    BY ZenonT(60), <1>0, <1>2, <1>5, <1>6, <2>1, <2>2, <2>3
<1>7. \A u \in User : was' = [was EXCEPT ![r] = member[u]] => was' \in [Request -> {"none", "in", "left"}]
  BY DEF IInv, TypeOK
<1>8. ASSUME NEW u \in User, AskPublic(r, u)
      PROVE  IInv'
  <2>1. "look" \in StepsOf("public")
    BY DEF StepsOf
  <2> QED
    BY <1>0, <1>6, <1>8, <2>1 DEF AskPublic
<1>9. ASSUME NEW a \in User, NEW S \in SUBSET User, AskAdd(r, a, S)
      PROVE  IInv'
  <2>1. "bans" \in StepsOf("add") /\ count \in 0..Cardinality(User)
    BY DEF StepsOf, IInv, TypeOK
  <2> QED
    BY <1>0, <1>5, <1>9, <2>1 DEF AskAdd
<1>10. ASSUME NEW a \in User, NEW u \in User, AskRemove(r, a, u)
       PROVE  IInv'
  <2>1. "cut" \in StepsOf("remove")
    BY DEF StepsOf
  <2> QED
    BY <1>0, <1>6, <1>10, <2>1 DEF AskRemove
<1>11. ASSUME NEW a \in User, NEW u \in User, AskBan(r, a, u)
       PROVE  IInv'
  <2>1. "ban" \in StepsOf("ban")
    BY DEF StepsOf
  <2> QED
    BY <1>6, <1>7, <1>11, <2>1 DEF AskBan
<1>12. ASSUME NEW a \in User, NEW u \in User, AskRank(r, a, u)
       PROVE  IInv'
  <2>1. "rank" \in StepsOf("rank")
    BY DEF StepsOf
  <2> QED
    BY <1>0, <1>6, <1>12, <2>1 DEF AskRank
<1>13. ASSUME NEW a \in User, NEW u \in User, AskTransfer(r, a, u)
       PROVE  IInv'
  <2>1. "give" \in StepsOf("transfer")
    BY DEF StepsOf
  <2> QED
    BY <1>0, <1>6, <1>13, <2>1 DEF AskTransfer
<1> QED
  BY <1>3, <1>4, <1>8, <1>9, <1>10, <1>11, <1>12, <1>13 DEF Ask

(* A request that goes on, with the rows it locks on the way.              *)
LEMMA Advances ==
  ASSUME IInv, asked' \in 0..MaxAsked, NEW r \in Request, NEW step \in StepsOf(kind[r]), step # "idle",
         at[r] \notin {"idle", "count"}, at' = [at EXCEPT ![r] = step],
         NEW locks \in SUBSET Lock, \A l \in locks : Free(r, l),
         held' = [held EXCEPT ![r] = @ \cup locks],
         UNCHANGED <<group, kind, by, who, kept>>,
         was' \in [Request -> {"none", "in", "left"}],
         NEW A \in SUBSET User, NEW B \in SUBSET User,
         back' = [back EXCEPT ![r] = A], new' = [new EXCEPT ![r] = B],
         \A u \in ban : Entering(r)' /\ u \in Rows(r)' => Entering(r) /\ u \in Rows(r),
         LockOf(r)',
         NEW n \in 0..Cardinality(User),
         seen' = IF step = "count" THEN [seen EXCEPT ![r] = n] ELSE seen,
         fresh' = IF step = "count" THEN fresh \cup {r} ELSE fresh,
         step = "count" /\ Joins(r) => n = Cardinality(Active \cup Rows(r)'),
         step = "count" /\ Parts(r) => n = Cardinality(Active \ {who[r]})
  PROVE  IInv'
<1>1. /\ UNCHANGED <<member, role, ban, uses, count, admitted, excused, contested>>
      /\ kind' = kind /\ who' = who /\ Active' = Active
  BY DEF group, kept, Active
<1>2. /\ \A q \in Request \ {r} : LeftAlone(q)
      /\ at'[r] = step /\ held'[r] = held[r] \cup locks
  BY DEF IInv, TypeOK, LeftAlone
<1>3. TypeOK'
  <2>1. step \in {"look", "write", "cut", "ban", "remove", "rank", "mark", "give", "take", "hand", "count",
                  "bans", "rows", "update", "insert"}
    BY DEF IInv, TypeOK, StepsOf
  <2>2. \A q, p \in Request : q # p => held'[q] \cap held'[p] = {}
    BY <1>2 DEF IInv, TypeOK, Free
  <2>3. held' \in [Request -> SUBSET Lock]
    BY DEF IInv, TypeOK, Lock
  <2>4. seen' \in [Request -> 0..Cardinality(User)] /\ fresh' \in SUBSET Request
    BY DEF IInv, TypeOK
  <2>5. at' \in [Request -> {"idle", "look", "write", "cut", "ban", "remove", "rank",
                             "mark", "give", "take", "hand", "count",
                             "bans", "rows", "update", "insert"}]
    BY <2>1 DEF IInv, TypeOK
  <2> QED
    BY <1>1, <2>2, <2>3, <2>4, <2>5 DEF IInv, TypeOK
<1>4. InviteNotOverspent' /\ KindInv' /\ InviteInv' /\ BannedIsOut'
  <2>1. \A q \in Request : held[q] \subseteq held'[q]
    BY <1>2 DEF LeftAlone
  <2> QED
    BY <1>1, <1>2, <2>1 DEF IInv, InviteNotOverspent, KindInv, InviteInv, BannedIsOut, LeftAlone
<1>5. DoorInv'
  <2>1. \A q \in Request \ {r} : (Entering(q)' <=> Entering(q)) /\ Rows(q)' = Rows(q)
    BY <1>2, Alone
  <2> QED
    BY <1>1, <2>1 DEF IInv, DoorInv
<1>6. CountInv'
  <2>1. r \notin fresh
    BY DEF IInv, CountInv
  <2>2. (Joins(r)' <=> Joins(r)) /\ (Parts(r)' <=> Parts(r))
    BY <1>1 DEF Joins, Parts
  <2> SUFFICES ASSUME NEW q \in fresh'
               PROVE  /\ at'[q] = "count"
                      /\ Joins(q)' => seen'[q] = Cardinality(Active \cup Rows(q)')
                      /\ Parts(q)' => seen'[q] = Cardinality(Active \ {who[q]})
    BY <1>1 DEF CountInv
  <2>3. CASE q = r
    <3>1. step = "count" /\ seen'[r] = n
      BY <2>1, <2>3 DEF IInv, TypeOK
    <3> QED
      BY <1>2, <2>2, <2>3, <3>1
  <2>4. CASE q # r
    <3>1. q \in fresh /\ q \in Request
      BY <2>4 DEF IInv, TypeOK
    <3>2. LeftAlone(q) /\ Rows(q)' = Rows(q) /\ (Joins(q)' <=> Joins(q)) /\ (Parts(q)' <=> Parts(q))
      BY <1>2, <2>4, <3>1, Alone
    <3> QED
      BY <3>1, <3>2 DEF IInv, CountInv, LeftAlone
  <2> QED
    BY <2>3, <2>4
<1>7. LockInv'
  <2>1. \A q \in Request \ {r} : LockOf(q)'
    BY <1>2, Alone DEF IInv, LockInv
  <2> QED
    BY <2>1 DEF LockInv
<1> QED
  BY <1>3, <1>4, <1>5, <1>6, <1>7 DEF IInv

(* A request that is over leaves the others as they are.                   *)
LEMMA Clears ==
  ASSUME IInv, NEW r \in Request, Clear(r)
  PROVE  /\ \A q \in Request \ {r} : LeftAlone(q)
         /\ at'[r] = "idle" /\ kind'[r] = "none" /\ held'[r] = {}
         /\ KindInv' /\ LockInv' /\ ~Entering(r)'
         /\ \A q, p \in Request : q # p => held'[q] \cap held'[p] = {}
         /\ held' \in [Request -> SUBSET Lock] /\ seen' \in [Request -> 0..Cardinality(User)]
         /\ back' \in [Request -> SUBSET User] /\ new' \in [Request -> SUBSET User]
<1>1. /\ \A q \in Request \ {r} : LeftAlone(q)
      /\ at'[r] = "idle" /\ kind'[r] = "none" /\ held'[r] = {} /\ back'[r] = {} /\ new'[r] = {}
  BY DEF IInv, TypeOK, Clear, LeftAlone
<1>2. KindInv' /\ ~Entering(r)'
  BY <1>1 DEF IInv, KindInv, StepsOf, LeftAlone, Entering
<1>3. LockInv'
  <2>1. \A q \in Request \ {r} : LockOf(q)'
    BY <1>1, Alone DEF IInv, LockInv
  <2>2. LockOf(r)'
    BY <1>1 DEF LockOf
  <2> QED
    BY <2>1, <2>2 DEF LockInv
<1>4. \A q, p \in Request : q # p => held'[q] \cap held'[p] = {}
  BY <1>1 DEF IInv, TypeOK, LeftAlone
<1>5. Cardinality(User) \in Nat
  BY UserAssumption, FS_CardinalityType
<1>6. /\ held' \in [Request -> SUBSET Lock] /\ seen' \in [Request -> 0..Cardinality(User)]
      /\ back' \in [Request -> SUBSET User] /\ new' \in [Request -> SUBSET User]
  BY <1>5 DEF IInv, TypeOK, Clear
<1> QED
  BY <1>1, <1>2, <1>3, <1>4, <1>6

LEMMA Ends ==
  ASSUME IInv, asked' \in 0..MaxAsked, NEW r \in Request, End(r),
         UNCHANGED <<member, uses, count, admitted, contested>>,
         role' \in [User -> {"owner", "admin", "member"}],
         ban' \in SUBSET User, excused' \in SUBSET User, excused \subseteq excused',
         \A u \in ban' \ ban : \A q \in Request \ {r} : Entering(q) /\ u \in Rows(q) => u \in excused',
         \A u \in ban' : member[u] = "in" /\ (u \notin ban \/ (kind[r] = "ban" /\ who[r] = u))
                         => u \in excused'
  PROVE  IInv'
<1>1. Clear(r) /\ fresh' = fresh \ {r}
  BY DEF End
<1>2. \A q \in Request \ {r} : /\ LeftAlone(q) /\ Rows(q)' = Rows(q) /\ (Entering(q)' <=> Entering(q))
                               /\ (Joins(q)' <=> Joins(q)) /\ (Parts(q)' <=> Parts(q))
  BY <1>1, Clears, Alone
<1>3. TypeOK'
  BY <1>1, Clears, UserAssumption DEF IInv, TypeOK, Clear
<1>4. InviteNotOverspent' /\ InviteInv' /\ KindInv' /\ LockInv'
  BY <1>1, <1>2, Clears DEF IInv, InviteNotOverspent, InviteInv, LeftAlone
<1>5. DoorInv'
  BY <1>1, <1>2, Clears DEF IInv, DoorInv
<1>6. BannedIsOut'
  <2> SUFFICES ASSUME NEW u \in ban', member[u] = "in", u \notin excused'
               PROVE  \E q \in Request : kind'[q] = "ban" /\ who'[q] = u
    BY DEF BannedIsOut
  <2>1. u \in ban
    OBVIOUS
  <2>2. PICK q \in Request : kind[q] = "ban" /\ who[q] = u
    BY <2>1 DEF IInv, BannedIsOut
  <2>3. q # r
    BY <2>2
  <2> QED
    BY <1>2, <2>2, <2>3 DEF LeftAlone
<1>7. CountInv'
  <2> SUFFICES ASSUME NEW q \in fresh \ {r}
               PROVE  /\ at'[q] = "count"
                      /\ Joins(q)' => seen'[q] = Cardinality(Active' \cup Rows(q)')
                      /\ Parts(q)' => seen'[q] = Cardinality(Active' \ {who'[q]})
    BY <1>1 DEF CountInv
  <2>1. q \in Request /\ Active' = Active
    BY DEF IInv, TypeOK, Active
  <2> QED
    BY <1>2, <2>1 DEF IInv, CountInv, LeftAlone
<1> QED
  BY <1>3, <1>4, <1>5, <1>6, <1>7 DEF IInv

-----------------------------------------------------------------------------
(* The steps of a request.                                                 *)

(* One that ends and changes neither bans nor whom they excuse.            *)
LEMMA EndsQuietly ==
  ASSUME IInv, asked' \in 0..MaxAsked, NEW r \in Request, End(r),
         UNCHANGED <<member, ban, uses, count, kept>>,
         role' \in [User -> {"owner", "admin", "member"}],
         kind[r] = "ban" => member[who[r]] # "in"
  PROVE  IInv'
<1>1. /\ ban' = ban /\ excused' = excused /\ ban \in SUBSET User /\ excused \in SUBSET User
      /\ UNCHANGED <<member, uses, count, admitted, contested>>
  BY DEF IInv, TypeOK, kept
<1> QED
  BY <1>1, Ends

(* One that goes on without a lock or a count, and is no add.              *)
LEMMA Walks ==
  ASSUME IInv, asked' \in 0..MaxAsked, NEW r \in Request,
         NEW step \in StepsOf(kind[r]), step \notin {"idle", "count"}, kind[r] # "add",
         at[r] \notin {"idle", "count"}, at' = [at EXCEPT ![r] = step],
         UNCHANGED <<group, kind, by, who, adds, held, seen, past>>,
         was' \in [Request -> {"none", "in", "left"}]
  PROVE  IInv'
<1> DEFINE locks == {}
<1>1. locks \in SUBSET Lock /\ (\A l \in locks : Free(r, l)) /\ held' = [held EXCEPT ![r] = @ \cup locks]
  BY DEF IInv, TypeOK
<1>2. /\ back[r] \in SUBSET User /\ new[r] \in SUBSET User
      /\ back' = [back EXCEPT ![r] = back[r]] /\ new' = [new EXCEPT ![r] = new[r]]
      /\ seen[r] \in 0..Cardinality(User)
  BY DEF IInv, TypeOK, adds
<1>3. \A u \in ban : Entering(r)' /\ u \in Rows(r)' => Entering(r) /\ u \in Rows(r)
  <2>1. Entering(r)' => Entering(r)
    BY DEF IInv, TypeOK, KindInv, StepsOf, Entering
  <2>2. Rows(r)' = Rows(r)
    BY DEF Rows, adds
  <2> QED
    BY <2>1, <2>2
<1>4. LockOf(r)'
  <2>1. at'[r] = step /\ at[r] # "count" /\ UNCHANGED <<kind, who, back, new, held>>
    BY DEF IInv, TypeOK, adds
  <2>2. Several(r)' <=> Several(r)
    BY <2>1 DEF Several, Rows
  <2> QED
    BY <2>1, <2>2 DEF IInv, LockInv, LockOf
<1>5. /\ UNCHANGED <<group, kind, by, who, kept>> /\ step # "idle" /\ step # "count"
      /\ seen' = IF step = "count" THEN [seen EXCEPT ![r] = seen[r]] ELSE seen
      /\ fresh' = IF step = "count" THEN fresh \cup {r} ELSE fresh
  BY DEF past
<1> HIDE DEF locks
<1> QED
  BY <1>1, <1>2, <1>3, <1>4, <1>5, Advances

(* A change of one membership locks the row and counts.                    *)
LEMMA Counting ==
  ASSUME IInv, asked' \in 0..MaxAsked, NEW r \in Request,
         kind[r] \in {"invite", "public", "remove", "ban"}, at[r] \notin {"idle", "count"},
         Acquire(r, who[r], "count"), UNCHANGED <<group, kind, by, who, was, adds, kept>>,
         NEW n \in 0..Cardinality(User), seen' = [seen EXCEPT ![r] = n], fresh' = fresh \cup {r},
         Joins(r) => n = Cardinality(Active \cup {who[r]}),
         Parts(r) => n = Cardinality(Active \ {who[r]})
  PROVE  IInv'
<1> DEFINE locks == {who[r]}
           step  == "count"
<1>1. locks \in SUBSET Lock /\ who[r] \in User /\ was' \in [Request -> {"none", "in", "left"}]
  BY DEF IInv, TypeOK, Lock
<1>2. /\ held' = [held EXCEPT ![r] = @ \cup locks] /\ \A l \in locks : Free(r, l)
      /\ at' = [at EXCEPT ![r] = step]
  BY DEF Acquire
<1>3. /\ step \in StepsOf(kind[r]) /\ step # "idle"
      /\ seen' = IF step = "count" THEN [seen EXCEPT ![r] = n] ELSE seen
      /\ fresh' = IF step = "count" THEN fresh \cup {r} ELSE fresh
  BY DEF StepsOf
<1>4. /\ back[r] \in SUBSET User /\ new[r] \in SUBSET User
      /\ back' = [back EXCEPT ![r] = back[r]] /\ new' = [new EXCEPT ![r] = new[r]]
  BY DEF IInv, TypeOK, adds
<1>5. Rows(r)' = {who[r]} /\ Rows(r) = {who[r]}
  BY DEF Rows
<1>6. \A u \in ban : Entering(r)' /\ u \in Rows(r)' => Entering(r) /\ u \in Rows(r)
  <2>1. Entering(r)' => Entering(r)
    BY DEF IInv, TypeOK, KindInv, StepsOf, Entering
  <2> QED
    BY <1>5, <2>1
<1>7. LockOf(r)'
  <2>1. at'[r] = "count" /\ held'[r] = held[r] \cup {who[r]} /\ UNCHANGED <<kind, who, back, new>>
    BY <1>2 DEF IInv, TypeOK, adds
  <2>2. "conversation" # who[r] /\ (Several(r)' <=> Several(r))
    BY <1>1, <1>5, LockAssumption DEF Several
  <2> QED
    BY <2>1, <2>2 DEF IInv, LockInv, LockOf
<1> HIDE DEF locks, step
<1> QED
  BY <1>1, <1>2, <1>3, <1>4, <1>5, <1>6, <1>7, Advances

LEMMA LookStep ==
  ASSUME IInv, asked' \in 0..MaxAsked, NEW r \in Request, Look(r)
  PROVE  IInv'
<1>1. kind[r] \in {"invite", "public"}
  BY DEF IInv, TypeOK, KindInv, StepsOf, Look
<1>2. CASE member[who[r]] = "in"
  <2>1. End(r) /\ UNCHANGED <<group, kept>>
    BY <1>2 DEF Look
  <2> QED
    BY <1>1, <2>1, EndsQuietly DEF IInv, TypeOK, group
<1>3. CASE member[who[r]] # "in"
  <2>1. "write" \in StepsOf(kind[r]) /\ was' \in [Request -> {"none", "in", "left"}]
    BY <1>1, <1>3 DEF StepsOf, IInv, TypeOK, Look
  <2> QED
    BY <1>1, <1>3, <2>1, Walks DEF Look
<1> QED
  BY <1>2, <1>3

LEMMA WriteStep ==
  ASSUME IInv, asked' \in 0..MaxAsked, NEW r \in Request, Write(r)
  PROVE  IInv'
<1>1. kind[r] \in {"invite", "public"}
  BY DEF IInv, TypeOK, KindInv, StepsOf, Write
<1>2. CASE was[r] = "none" /\ member[who[r]] # "none"
  <2>1. End(r) /\ UNCHANGED <<group, kept>>
    BY <1>2 DEF Write
  <2> QED
    BY <1>1, <2>1, EndsQuietly DEF IInv, TypeOK, group
<1>3. CASE ~(was[r] = "none" /\ member[who[r]] # "none")
  <2> DEFINE n == Cardinality(Active \cup {who[r]})
  <2>1. n \in 0..Cardinality(User) /\ ~Parts(r)
    BY <1>1, Counts DEF IInv, TypeOK, Parts
  <2>2. /\ at[r] \notin {"idle", "count"} /\ Acquire(r, who[r], "count")
        /\ seen' = [seen EXCEPT ![r] = n] /\ fresh' = fresh \cup {r}
        /\ UNCHANGED <<group, kind, by, who, was, adds, kept>>
    BY <1>3 DEF Write
  <2>3. Joins(r) => n = Cardinality(Active \cup {who[r]})
    OBVIOUS
  <2> HIDE DEF n
  <2> QED
    BY <1>1, <2>1, <2>2, <2>3, Counting
<1> QED
  BY <1>2, <1>3

LEMMA CutStep ==
  ASSUME IInv, asked' \in 0..MaxAsked, NEW r \in Request, Cut(r)
  PROVE  IInv'
<1>1. kind[r] \in {"remove", "ban"}
  BY DEF IInv, TypeOK, KindInv, StepsOf, Cut
<1>2. CASE member[who[r]] # "in"
  <2>1. End(r) /\ UNCHANGED <<group, kept>>
    BY <1>2 DEF Cut
  <2> QED
    BY <1>2, <2>1, EndsQuietly DEF IInv, TypeOK, group
<1>3. CASE member[who[r]] = "in"
  <2> DEFINE n == Cardinality(Active \ {who[r]})
  <2>1. n \in 0..Cardinality(User) /\ ~Joins(r)
    BY <1>1, Counts DEF IInv, TypeOK, Joins
  <2>2. /\ at[r] \notin {"idle", "count"} /\ Acquire(r, who[r], "count")
        /\ seen' = [seen EXCEPT ![r] = n] /\ fresh' = fresh \cup {r}
        /\ UNCHANGED <<group, kind, by, who, was, adds, kept>>
    BY <1>3 DEF Cut
  <2>3. Parts(r) => n = Cardinality(Active \ {who[r]})
    OBVIOUS
  <2> HIDE DEF n
  <2> QED
    BY <1>1, <2>1, <2>2, <2>3, Counting
<1> QED
  BY <1>2, <1>3

(* A ban: who is on the way in, or came in since, is excused.              *)
LEMMA InsertBanStep ==
  ASSUME IInv, asked' \in 0..MaxAsked, NEW r \in Request, InsertBan(r)
  PROVE  IInv'
<1>1. kind[r] = "ban" /\ who[r] \in User
  BY DEF IInv, TypeOK, KindInv, StepsOf, InsertBan
<1>2. /\ ban' = ban \cup {who[r]}
      /\ excused' = IF Slipped(r, who[r]) THEN excused \cup {who[r]} ELSE excused
      /\ UNCHANGED <<member, role, uses, count, admitted, contested>>
  BY DEF InsertBan
<1>3. /\ ban' \in SUBSET User /\ excused' \in SUBSET User /\ excused \subseteq excused'
      /\ \A q \in Request \ {r} : Entering(q) /\ who[r] \in Rows(q) => who[r] \in excused'
  BY <1>1, <1>2 DEF IInv, TypeOK, Slipped
<1>4. CASE was[r] = "none"
  <2>1. End(r)
    BY <1>4 DEF InsertBan
  <2>2. member[who[r]] = "in" => who[r] \in excused'
    BY <1>2, <1>4 DEF Slipped
  <2>3. \A u \in ban' \ ban : \A q \in Request \ {r} : Entering(q) /\ u \in Rows(q) => u \in excused'
    BY <1>2, <1>3
  <2>4. \A u \in ban' : member[u] = "in" /\ (u \notin ban \/ (kind[r] = "ban" /\ who[r] = u))
                        => u \in excused'
    BY <1>2, <2>2
  <2>5. UNCHANGED <<member, uses, count, admitted, contested>> /\ role' \in [User -> {"owner", "admin", "member"}]
    BY <1>2 DEF IInv, TypeOK
  <2> QED
    BY <1>3, <2>1, <2>3, <2>4, <2>5, Ends
<1>5. CASE was[r] # "none"
  <2>1. /\ at[r] = "ban" /\ at' = [at EXCEPT ![r] = "remove"]
        /\ UNCHANGED <<kind, by, who, was, back, new, seen, held, fresh>>
    BY <1>5 DEF InsertBan, adds
  <2>2. /\ \A q \in Request \ {r} : LeftAlone(q)
        /\ at'[r] = "remove"
        /\ \A q \in Request : Rows(q)' = Rows(q) /\ kind'[q] = kind[q] /\ who'[q] = who[q]
    BY <2>1 DEF IInv, TypeOK, LeftAlone, Rows
  <2>3. TypeOK'
    BY <1>2, <1>3, <2>1 DEF IInv, TypeOK
  <2>4. InviteNotOverspent' /\ InviteInv'
    BY <1>2, <2>1 DEF IInv, InviteNotOverspent, InviteInv
  <2>5. KindInv'
    <3>1. "remove" \in StepsOf("ban")
      BY DEF StepsOf
    <3> QED
      BY <1>1, <2>1, <2>2, <3>1 DEF IInv, KindInv, LeftAlone
  <2>6. LockInv'
    <3>1. LockOf(r)'
      <4>1. Several(r)' <=> Several(r)
        BY <2>2 DEF Several
      <4> QED
        BY <1>1, <2>1, <2>2, <4>1 DEF IInv, LockInv, LockOf
    <3>2. \A q \in Request \ {r} : LockOf(q)'
      BY <2>2, Alone DEF IInv, LockInv
    <3> QED
      BY <3>1, <3>2 DEF LockInv
  <2>7. BannedIsOut'
    BY <1>1, <1>2, <1>3, <2>1 DEF IInv, BannedIsOut
  <2>8. DoorInv'
    <3>1. ~Entering(r)'
      BY <1>1, <2>2 DEF Entering
    <3>2. \A q \in Request \ {r} : Entering(q)' <=> Entering(q)
      BY <2>2, Alone
    <3> QED
      BY <1>2, <1>3, <2>2, <3>1, <3>2 DEF IInv, DoorInv
  <2>9. CountInv'
    <3> SUFFICES ASSUME NEW q \in fresh
                 PROVE  /\ at'[q] = "count"
                        /\ Joins(q)' => seen'[q] = Cardinality(Active' \cup Rows(q)')
                        /\ Parts(q)' => seen'[q] = Cardinality(Active' \ {who'[q]})
      BY <2>1 DEF CountInv
    <3>1. q \in Request /\ q # r /\ Active' = Active
      BY <1>2, <2>1 DEF IInv, TypeOK, CountInv, Active
    <3> QED
      BY <2>1, <2>2, <3>1 DEF IInv, CountInv, Joins, Parts, LeftAlone
  <2> QED
    BY <2>3, <2>4, <2>5, <2>6, <2>7, <2>8, <2>9 DEF IInv
<1> QED
  BY <1>4, <1>5

(* What ends a ban before its removal excuses the banned user.             *)
LEMMA EndsExcused ==
  ASSUME IInv, asked' \in 0..MaxAsked, NEW r \in Request, End(r), UNCHANGED <<group, admitted, contested>>,
         excused' = excused \cup {who[r]} \/ (excused' = excused /\ kind[r] # "ban")
  PROVE  IInv'
<1>1. /\ excused \subseteq excused' /\ excused' \in SUBSET User /\ ban' = ban
      /\ UNCHANGED <<member, uses, count, admitted, contested>>
      /\ kind[r] = "ban" => who[r] \in excused'
      /\ ban' \in SUBSET User /\ role' \in [User -> {"owner", "admin", "member"}]
  BY DEF IInv, TypeOK, group
<1> QED
  BY <1>1, Ends

LEMMA BanRemovesStep ==
  ASSUME IInv, asked' \in 0..MaxAsked, NEW r \in Request, BanRemoves(r)
  PROVE  IInv'
<1>1. CASE MayRemove(by[r], who[r])
  <2>1. "cut" \in StepsOf(kind[r]) /\ kind[r] # "add" /\ was' \in [Request -> {"none", "in", "left"}]
    BY <1>1 DEF IInv, TypeOK, KindInv, StepsOf, BanRemoves
  <2>2. /\ at[r] = "remove" /\ at' = [at EXCEPT ![r] = "cut"]
        /\ UNCHANGED <<group, kind, by, who, adds, held, seen, past>>
    BY <1>1 DEF BanRemoves
  <2> QED
    BY <2>1, <2>2, Walks
<1>2. CASE ~MayRemove(by[r], who[r])
  BY <1>2, EndsExcused DEF BanRemoves
<1> QED
  BY <1>1, <1>2

LEMMA VictimStep ==
  ASSUME IInv, asked' \in 0..MaxAsked, NEW r \in Request, Victim(r)
  PROVE  IInv'
BY EndsExcused DEF Victim

LEMMA SetRankStep ==
  ASSUME IInv, asked' \in 0..MaxAsked, NEW r \in Request, SetRank(r)
  PROVE  IInv'
<1>1. kind[r] = "rank"
  BY DEF IInv, TypeOK, KindInv, StepsOf, SetRank
<1>2. role' \in [User -> {"owner", "admin", "member"}]
  BY DEF IInv, TypeOK, SetRank
<1> QED
  BY <1>1, <1>2, EndsQuietly DEF SetRank

LEMMA MarkStep ==
  ASSUME IInv, asked' \in 0..MaxAsked, NEW r \in Request, Mark(r)
  PROVE  IInv'
<1>1. kind[r] = "send"
  BY DEF IInv, TypeOK, KindInv, StepsOf, Mark
<1> QED
  BY <1>1, EndsQuietly DEF IInv, TypeOK, Mark, group

(* A transfer, which locks one row after the other.                        *)
LEMMA TransferStep ==
  ASSUME IInv, asked' \in 0..MaxAsked, NEW r \in Request, Give(r) \/ Take(r)
  PROVE  IInv'
<1>1. kind[r] = "transfer" /\ at[r] \notin {"idle", "count"}
  BY DEF IInv, TypeOK, KindInv, StepsOf, Give, Take
<1>2. \A step \in {"take", "hand"} : step \in StepsOf(kind[r]) /\ step # "idle" /\ step # "count"
  BY <1>1 DEF StepsOf
<1>3. ASSUME NEW step \in {"take", "hand"}, NEW u \in User, Acquire(r, u, step),
             was' \in [Request -> {"none", "in", "left"}],
             UNCHANGED <<group, kind, by, who, adds, seen, past>>
      PROVE  IInv'
  <2> DEFINE locks == {u}
  <2>1. /\ locks \in SUBSET Lock /\ held' = [held EXCEPT ![r] = @ \cup locks]
        /\ (\A l \in locks : Free(r, l)) /\ at' = [at EXCEPT ![r] = step]
    BY <1>3 DEF Acquire, Lock
  <2>2. /\ back[r] \in SUBSET User /\ new[r] \in SUBSET User
        /\ back' = [back EXCEPT ![r] = back[r]] /\ new' = [new EXCEPT ![r] = new[r]]
        /\ seen[r] \in 0..Cardinality(User)
    BY <1>3 DEF IInv, TypeOK, adds
  <2>3. \A v \in ban : Entering(r)' /\ v \in Rows(r)' => Entering(r) /\ v \in Rows(r)
    BY <1>1, <1>3 DEF Entering
  <2>4. LockOf(r)'
    <3>1. at'[r] = step /\ UNCHANGED <<kind, back, new>>
      BY <1>3, <2>1 DEF IInv, TypeOK, adds
    <3> QED
      BY <1>1, <1>2, <3>1 DEF IInv, LockInv, LockOf
  <2>5. /\ UNCHANGED <<group, kind, by, who, kept>>
        /\ seen' = IF step = "count" THEN [seen EXCEPT ![r] = seen[r]] ELSE seen
        /\ fresh' = IF step = "count" THEN fresh \cup {r} ELSE fresh
    BY <1>2, <1>3 DEF past
  <2> HIDE DEF locks
  <2> QED
    BY <1>1, <1>2, <1>3, <2>1, <2>2, <2>3, <2>4, <2>5, Advances
<1>4. CASE Give(r)
  BY <1>3, <1>4 DEF Give, IInv, TypeOK
<1>5. CASE Take(r) /\ member[who[r]] = "none"
  <2>1. was' \in [Request -> {"none", "in", "left"}]
    BY <1>5 DEF IInv, TypeOK, Take
  <2> QED
    BY <1>1, <1>2, <1>5, <2>1, Walks DEF Take
<1>6. CASE Take(r) /\ member[who[r]] # "none"
  BY <1>3, <1>6 DEF Take, IInv, TypeOK
<1> QED
  BY <1>4, <1>5, <1>6

(* An add.  Its reads leave fewer people on its list, none of them banned  *)
(* once the bans are read ...                                              *)
LEMMA AddReads ==
  ASSUME IInv, asked' \in 0..MaxAsked, NEW r \in Request,
         NEW step \in {"rows", "update", "insert"}, kind[r] = "add", at[r] \in {"bans", "rows"},
         at' = [at EXCEPT ![r] = step],
         UNCHANGED <<group, kind, by, who, was, seen, held, past>>,
         NEW A \in SUBSET User, NEW B \in SUBSET User,
         back' = [back EXCEPT ![r] = A], new' = [new EXCEPT ![r] = B],
         A \cup B \subseteq new[r], A \cap B = {},
         at[r] = "bans" => B \cap ban = {} /\ A = {} /\ step = "rows",
         at[r] = "rows" => step # "rows",
         step = "update" => A # {}
  PROVE  IInv'
<1> DEFINE locks == {}
<1>1. /\ locks \in SUBSET Lock /\ (\A l \in locks : Free(r, l)) /\ held' = [held EXCEPT ![r] = @ \cup locks]
      /\ seen[r] \in 0..Cardinality(User)
  BY DEF IInv, TypeOK
<1>2. held[r] = {} /\ back[r] = {}
  BY DEF IInv, LockInv, LockOf, AddOf
<1>3. /\ at'[r] = step /\ kind'[r] = "add" /\ held'[r] = {} /\ back'[r] = A /\ new'[r] = B
      /\ Rows(r)' = A \cup B /\ Rows(r) = new[r]
  BY <1>2 DEF IInv, TypeOK, Rows
<1>4. \A u \in ban : Entering(r)' /\ u \in Rows(r)' => Entering(r) /\ u \in Rows(r)
  BY <1>3 DEF Entering
<1>5. LockOf(r)'
  BY <1>3 DEF LockOf, AddOf
<1>6. /\ step \in StepsOf(kind[r]) /\ step # "idle" /\ step # "count" /\ at[r] \notin {"idle", "count"}
      /\ UNCHANGED <<group, kind, by, who, kept>>
      /\ was' \in [Request -> {"none", "in", "left"}]
      /\ seen' = IF step = "count" THEN [seen EXCEPT ![r] = seen[r]] ELSE seen
      /\ fresh' = IF step = "count" THEN fresh \cup {r} ELSE fresh
  BY DEF StepsOf, past, IInv, TypeOK
<1> HIDE DEF locks
<1> QED
  BY <1>1, <1>4, <1>5, <1>6, Advances

(* ... and what it locks are the rows on its list, and the conversation    *)
(* when there are some of both kinds.                                      *)
LEMMA AddLocks ==
  ASSUME IInv, asked' \in 0..MaxAsked, NEW r \in Request,
         NEW step \in {"update", "insert", "count"}, kind[r] = "add", at[r] \in {"update", "insert"},
         at[r] = "insert" => step # "update",
         at' = [at EXCEPT ![r] = step],
         NEW locks \in SUBSET (Rows(r) \cup {"conversation"}), \A l \in locks : Free(r, l),
         held' = [held EXCEPT ![r] = @ \cup locks],
         "conversation" \in locks => back[r] # {} /\ new[r] # {},
         step = "count" => Rows(r) \subseteq held[r],
         UNCHANGED <<group, kind, by, who, was, adds, kept>>,
         NEW n \in 0..Cardinality(User),
         seen' = IF step = "count" THEN [seen EXCEPT ![r] = n] ELSE seen,
         fresh' = IF step = "count" THEN fresh \cup {r} ELSE fresh,
         n = Cardinality(Active \cup Rows(r))
  PROVE  IInv'
<1>1. /\ back[r] \in SUBSET User /\ new[r] \in SUBSET User
      /\ back' = [back EXCEPT ![r] = back[r]] /\ new' = [new EXCEPT ![r] = new[r]]
      /\ Rows(r) \subseteq User /\ was' \in [Request -> {"none", "in", "left"}]
  BY DEF IInv, TypeOK, adds, Rows
<1>2. locks \in SUBSET Lock
  BY <1>1 DEF Lock
<1>3. /\ at'[r] = step /\ kind'[r] = "add" /\ held'[r] = held[r] \cup locks
      /\ back'[r] = back[r] /\ new'[r] = new[r] /\ Rows(r)' = Rows(r)
      /\ (Several(r)' <=> Several(r))
  BY DEF IInv, TypeOK, Rows, adds, Several
<1>4. \A u \in ban : Entering(r)' /\ u \in Rows(r)' => Entering(r) /\ u \in Rows(r)
  BY <1>3 DEF Entering
<1>5. LockOf(r)'
  <2>1. LockOf(r) /\ AddOf(r)
    BY DEF IInv, LockInv, LockOf
  <2>2. "conversation" \in locks => Several(r)
    BY <2>1 DEF AddOf, Several, Rows
  <2>3. AddOf(r)'
    BY <1>3, <2>1 DEF AddOf
  <2> QED
    BY <1>3, <2>1, <2>2, <2>3 DEF LockOf
<1>6. /\ step \in StepsOf(kind[r]) /\ step # "idle" /\ at[r] \notin {"idle", "count"}
      /\ UNCHANGED <<group, kind, by, who, kept>> /\ ~Parts(r)
  BY DEF StepsOf, Parts
<1> QED
  BY <1>1, <1>2, <1>3, <1>4, <1>5, <1>6, Advances

LEMMA AddStep ==
  ASSUME IInv, asked' \in 0..MaxAsked, NEW r \in Request, Add(r)
  PROVE  IInv'
<1>1. kind[r] = "add"
  BY DEF IInv, TypeOK, KindInv, StepsOf, Add, AddBans, AddRows, AddUpdate, AddHold, AddInsert, AddCount
<1>2. /\ back[r] \in SUBSET User /\ new[r] \in SUBSET User /\ Rows(r) = back[r] \cup new[r]
      /\ Cardinality(Active \cup Rows(r)) \in 0..Cardinality(User)
  BY <1>1, Counts DEF IInv, TypeOK, Rows
<1>3. CASE AddBans(r)
  <2> DEFINE A    == {}
             B    == new[r] \ ban
             step == "rows"
  <2>1. back[r] = {} /\ back' = [back EXCEPT ![r] = A] /\ new' = [new EXCEPT ![r] = B]
    BY <1>1, <1>3 DEF IInv, TypeOK, LockInv, LockOf, AddOf, AddBans
  <2>2. /\ A \in SUBSET User /\ B \in SUBSET User /\ A \cup B \subseteq new[r] /\ A \cap B = {}
        /\ B \cap ban = {} /\ A = {} /\ step = "rows" /\ step # "update"
        /\ step \in {"rows", "update", "insert"}
    BY <1>2
  <2>3. /\ at[r] = "bans" /\ at' = [at EXCEPT ![r] = step]
        /\ UNCHANGED <<group, kind, by, who, was, seen, held, past>>
    BY <1>3 DEF AddBans
  <2> HIDE DEF A, B, step
  <2> QED
    BY <1>1, <2>1, <2>2, <2>3, AddReads
<1>4. CASE AddRows(r)
  <2> DEFINE away  == {u \in new[r] : member[u] = "left"}
             never == {u \in new[r] : member[u] = "none"}
  <2>1. CASE End(r) /\ UNCHANGED <<group, kept>>
    BY <1>1, <2>1, EndsQuietly DEF IInv, TypeOK, group
  <2>2. CASE /\ at' = [at EXCEPT ![r] = IF away = {} THEN "insert" ELSE "update"]
             /\ back' = [back EXCEPT ![r] = away]
             /\ new' = [new EXCEPT ![r] = never]
             /\ UNCHANGED <<group, kind, by, who, was, seen, held, past>>
    <3>1. /\ away \in SUBSET User /\ never \in SUBSET User
          /\ away \cup never \subseteq new[r] /\ away \cap never = {}
      BY <1>2
    <3>2. at[r] = "rows"
      BY <1>4 DEF AddRows
    <3> HIDE DEF away, never
    <3>3. PICK step \in {"insert", "update"} : /\ at' = [at EXCEPT ![r] = step]
                                               /\ step = "update" => away # {}
      BY <2>2
    <3> QED
      BY <1>1, <2>2, <3>1, <3>2, <3>3, AddReads
  <2> QED
    BY <1>4, <2>1, <2>2 DEF AddRows
<1>5. ASSUME NEW step \in {"update", "insert"}, NEW l \in Rows(r) \cup {"conversation"},
             Acquire(r, l, step), at[r] \in {"update", "insert"}, at[r] = "insert" => step # "update",
             l = "conversation" => back[r] # {} /\ new[r] # {},
             UNCHANGED <<group, kind, by, who, was, adds, seen, past>>
      PROVE  IInv'
  <2> DEFINE locks == {l}
             n     == Cardinality(Active \cup Rows(r))
  <2>1. /\ locks \in SUBSET (Rows(r) \cup {"conversation"}) /\ \A k \in locks : Free(r, k)
        /\ held' = [held EXCEPT ![r] = @ \cup locks] /\ at' = [at EXCEPT ![r] = step]
        /\ ("conversation" \in locks => back[r] # {} /\ new[r] # {})
    BY <1>5 DEF Acquire
  <2>2. /\ UNCHANGED <<group, kind, by, who, was, adds, kept>> /\ step # "count"
        /\ seen' = IF step = "count" THEN [seen EXCEPT ![r] = n] ELSE seen
        /\ fresh' = IF step = "count" THEN fresh \cup {r} ELSE fresh
    BY <1>5 DEF past
  <2> HIDE DEF locks
  <2> QED
    BY <1>1, <1>2, <1>5, <2>1, <2>2, AddLocks
<1>6. CASE AddUpdate(r)
  <2>1. PICK u \in back[r] \ held[r] : Acquire(r, u, "update")
    BY <1>6 DEF AddUpdate
  <2>2. u # "conversation"
    BY <1>2, <2>1, LockAssumption
  <2> QED
    BY <1>2, <1>5, <1>6, <2>1, <2>2 DEF AddUpdate
<1>7. CASE AddHold(r)
  <2>1. back[r] # {}
    BY <1>1, <1>7 DEF AddHold, IInv, LockInv, LockOf, AddOf
  <2> QED
    BY <1>5, <1>7, <2>1 DEF AddHold
<1>8. CASE AddInsert(r)
  <2>1. CASE End(r) /\ UNCHANGED <<group, kept>>
    BY <1>1, <2>1, EndsQuietly DEF IInv, TypeOK, group
  <2>2. CASE ~(End(r) /\ UNCHANGED <<group, kept>>)
    <3>1. PICK u \in new[r] \ held[r] : Acquire(r, u, "insert")
      BY <1>8, <2>2 DEF AddInsert
    <3>2. UNCHANGED <<group, kind, by, who, was, adds, seen, past>> /\ at[r] = "insert"
      BY <1>8, <2>2 DEF AddInsert
    <3>3. u # "conversation"
      BY <1>2, <3>1, LockAssumption
    <3> QED
      BY <1>2, <1>5, <3>1, <3>2, <3>3
  <2> QED
    BY <2>1, <2>2
<1>9. CASE AddCount(r)
  <2> DEFINE locks == {}
             n     == Cardinality(Active \cup Rows(r))
             step  == "count"
  <2>1. /\ locks \in SUBSET (Rows(r) \cup {"conversation"}) /\ \A k \in locks : Free(r, k)
        /\ "conversation" \notin locks
        /\ held' = [held EXCEPT ![r] = @ \cup locks] /\ at' = [at EXCEPT ![r] = step]
    BY <1>9 DEF AddCount, IInv, TypeOK
  <2>2. /\ UNCHANGED <<group, kind, by, who, was, adds, kept>>
        /\ seen' = IF step = "count" THEN [seen EXCEPT ![r] = n] ELSE seen
        /\ fresh' = IF step = "count" THEN fresh \cup {r} ELSE fresh
        /\ at[r] \in {"update", "insert"} /\ Rows(r) \subseteq held[r]
        /\ step \in {"update", "insert", "count"} /\ step # "update"
    BY <1>9 DEF AddCount
  <2> HIDE DEF locks, step
  <2> QED
    BY <1>1, <1>2, <2>1, <2>2, AddLocks
<1> QED
  BY <1>3, <1>4, <1>6, <1>7, <1>8, <1>9 DEF Add

-----------------------------------------------------------------------------
(* Commits.                                                                *)

LEMMA CommitStep ==
  ASSUME IInv, asked' \in 0..MaxAsked, NEW r \in Request, Commit(r)
  PROVE  /\ IInv'
         /\ r \in fresh => count' = Cardinality(Active')
<1>0. /\ at[r] = "count" => Joins(r) \/ Parts(r)
      /\ at[r] = "hand" => kind[r] = "transfer"
      /\ at[r] \in {"count", "hand"} /\ Rows(r) \subseteq User
      /\ Joins(r) => Entering(r)
      /\ Parts(r) => ~Joins(r) /\ Rows(r) = {who[r]} /\ ~Several(r)
  <2>1. at[r] \in {"count", "hand"}
    BY DEF Commit
  <2>2. /\ at[r] = "count" => Joins(r) \/ Parts(r)
        /\ at[r] = "hand" => kind[r] = "transfer"
    BY DEF IInv, TypeOK, KindInv, StepsOf, Joins, Parts
  <2>3. Rows(r) \subseteq User
    BY DEF IInv, TypeOK, Rows
  <2>4. /\ Joins(r) => Entering(r)
        /\ Parts(r) => ~Joins(r) /\ Rows(r) = {who[r]}
    BY <2>1 DEF Joins, Parts, Entering, Rows
  <2> QED
    BY <2>1, <2>2, <2>3, <2>4 DEF Several
<1>1. /\ Clear(r) /\ ban' = ban /\ excused' = excused /\ count' = Counted(r)
      /\ uses' = IF kind[r] = "invite" THEN uses + 1 ELSE uses
      /\ admitted' = IF kind[r] = "invite" THEN admitted + 1 ELSE admitted
      /\ contested' = (contested \/ Contest(r))
      /\ fresh' = IF Joins(r) \/ Parts(r) THEN {} ELSE fresh \ {r}
  BY DEF Commit
<1>2. /\ \A q \in Request \ {r} : /\ LeftAlone(q) /\ Rows(q)' = Rows(q) /\ (Entering(q)' <=> Entering(q))
                                  /\ (Joins(q)' <=> Joins(q)) /\ (Parts(q)' <=> Parts(q))
      /\ kind'[r] = "none" /\ held'[r] = {} /\ ~Entering(r)'
      /\ KindInv' /\ LockInv'
  BY <1>1, Clears, Alone
<1>3. \A u \in User : member'[u] = IF u \notin Rows(r) THEN member[u]
                                   ELSE IF Joins(r) THEN "in" ELSE IF Parts(r) THEN "left" ELSE member[u]
  BY DEF Commit
<1>4. Active' = IF Joins(r) THEN Active \cup Rows(r) ELSE IF Parts(r) THEN Active \ {who[r]} ELSE Active
  <2>1. Active' = {u \in User : member'[u] = "in"}
    BY DEF Active
  <2>2. CASE Joins(r)
    BY <1>0, <1>3, <2>1, <2>2 DEF Active
  <2>3. CASE Parts(r)
    BY <1>0, <1>3, <2>1, <2>3 DEF Active
  <2>4. CASE ~Joins(r) /\ ~Parts(r)
    BY <1>3, <2>1, <2>4 DEF Active
  <2> QED
    BY <1>0, <2>2, <2>3, <2>4
<1>5. TypeOK'
  <2>1. member' \in [User -> {"none", "in", "left"}]
    BY DEF IInv, TypeOK, Commit
  <2>2. role' \in [User -> {"owner", "admin", "member"}]
    <3>1. CASE kind[r] = "add"
      BY <3>1 DEF IInv, TypeOK, Commit
    <3>2. CASE kind[r] = "transfer"
      BY <3>2 DEF IInv, TypeOK, Commit
    <3>3. CASE kind[r] \notin {"add", "transfer"}
      BY <3>3 DEF IInv, TypeOK, Commit
    <3> QED
      BY <3>1, <3>2, <3>3
  <2>3. uses' \in Nat /\ admitted' \in Nat /\ contested' \in BOOLEAN /\ fresh' \in SUBSET Request
    BY <1>1 DEF IInv, TypeOK, Contest
  <2>4. count' \in 0..Cardinality(User)
    BY <1>0, <1>1, Counts DEF IInv, TypeOK, Counted
  <2>5. /\ at' = [at EXCEPT ![r] = "idle"] /\ kind' = [kind EXCEPT ![r] = "none"]
        /\ by' = [by EXCEPT ![r] = Founder] /\ who' = [who EXCEPT ![r] = Founder]
        /\ was' = [was EXCEPT ![r] = "none"]
    BY <1>1 DEF Clear
  <2> QED
    BY <1>1, <2>1, <2>2, <2>3, <2>4, <2>5, Clears, UserAssumption DEF IInv, TypeOK
<1>6. InviteNotOverspent'
  BY <1>1, LimitAssumption DEF IInv, TypeOK, InviteInv, InviteNotOverspent
<1>7. InviteInv'
  <2> SUFFICES ASSUME NEW q \in Request, kind'[q] = "invite"
               PROVE  "invite" \in held'[q] /\ uses' < MaxUses
    BY DEF InviteInv
  <2>1. q # r /\ kind[q] = "invite" /\ held'[q] = held[q]
    BY <1>2 DEF LeftAlone
  <2>2. "invite" \in held[q] /\ uses < MaxUses
    BY <2>1 DEF IInv, InviteInv
  <2>3. kind[r] # "invite"
    BY <2>1, <2>2 DEF IInv, InviteInv, TypeOK
  <2> QED
    BY <1>1, <2>1, <2>2, <2>3
<1>8. DoorInv'
  BY <1>1, <1>2 DEF IInv, DoorInv
<1>9. BannedIsOut'
  <2> SUFFICES ASSUME NEW u \in ban, member'[u] = "in", u \notin excused
               PROVE  \E q \in Request : kind'[q] = "ban" /\ who'[q] = u
    BY <1>1 DEF BannedIsOut
  <2>1. u \in User
    BY DEF IInv, TypeOK
  <2>2. ~(u \in Rows(r) /\ Joins(r))
    BY <1>0 DEF IInv, DoorInv
  <2>3. member[u] = "in" /\ ~(u \in Rows(r) /\ Parts(r))
    BY <1>3, <2>1, <2>2
  <2>4. PICK q \in Request : kind[q] = "ban" /\ who[q] = u
    BY <2>3 DEF IInv, BannedIsOut
  <2>5. q # r
    BY <1>0, <2>3, <2>4 DEF Parts
  <2> QED
    BY <1>2, <2>4, <2>5 DEF LeftAlone
<1>10. r \in fresh => count' = Cardinality(Active')
  <2> SUFFICES ASSUME r \in fresh
               PROVE  Counted(r) = Cardinality(Active')
    BY <1>1
  <2>1. Joins(r) \/ Parts(r)
    BY <1>0 DEF IInv, CountInv
  <2>2. /\ Joins(r) => seen[r] = Cardinality(Active \cup Rows(r))
        /\ Parts(r) => seen[r] = Cardinality(Active \ {who[r]})
    BY DEF IInv, CountInv
  <2> QED
    BY <1>0, <1>4, <2>1, <2>2 DEF Counted
<1>11. CountInv'
  <2> SUFFICES ASSUME NEW q \in fresh'
               PROVE  /\ at'[q] = "count"
                      /\ Joins(q)' => seen'[q] = Cardinality(Active' \cup Rows(q)')
                      /\ Parts(q)' => seen'[q] = Cardinality(Active' \ {who'[q]})
    BY DEF CountInv
  <2>1. /\ ~Joins(r) /\ ~Parts(r) /\ q \in fresh /\ q # r /\ q \in Request
    BY <1>1 DEF IInv, TypeOK
  <2>2. Active' = Active
    BY <1>4, <2>1
  <2>3. LeftAlone(q) /\ Rows(q)' = Rows(q) /\ (Joins(q)' <=> Joins(q)) /\ (Parts(q)' <=> Parts(q))
    BY <1>2, <2>1
  <2> QED
    BY <2>1, <2>2, <2>3 DEF IInv, CountInv, LeftAlone
<1> QED
  BY <1>2, <1>5, <1>6, <1>7, <1>8, <1>9, <1>10, <1>11 DEF IInv

LEMMA UnbanStep ==
  ASSUME IInv, asked' \in 0..MaxAsked, NEW a \in User, NEW u \in User, Unban(a, u)
  PROVE  IInv'
<1>1. /\ ban' = ban \ {u} /\ excused' = excused \ {u}
      /\ UNCHANGED <<member, role, uses, count, at, kind, by, who, was, back, new, seen, held,
                     admitted, fresh, contested>>
  BY DEF Unban, request, adds
<1>2. /\ \A q \in Request : LeftAlone(q) /\ Rows(q)' = Rows(q) /\ (Entering(q)' <=> Entering(q))
                            /\ (Joins(q)' <=> Joins(q)) /\ (Parts(q)' <=> Parts(q))
      /\ Active' = Active
  BY <1>1, Alone DEF LeftAlone, Active
<1>3. TypeOK' /\ InviteNotOverspent' /\ KindInv' /\ InviteInv'
  BY <1>1 DEF IInv, TypeOK, InviteNotOverspent, KindInv, InviteInv
<1>4. DoorInv' /\ BannedIsOut'
  BY <1>1, <1>2 DEF IInv, DoorInv, BannedIsOut
<1>5. CountInv'
  <2> SUFFICES ASSUME NEW q \in fresh
               PROVE  /\ at[q] = "count"
                      /\ Joins(q)' => seen[q] = Cardinality(Active \cup Rows(q)')
                      /\ Parts(q)' => seen[q] = Cardinality(Active \ {who[q]})
    BY <1>1, <1>2 DEF CountInv
  <2>1. q \in Request
    BY DEF IInv, TypeOK
  <2> QED
    BY <1>2, <2>1 DEF IInv, CountInv
<1>6. LockInv'
  BY <1>2, Alone DEF IInv, LockInv
<1> QED
  BY <1>3, <1>4, <1>5, <1>6 DEF IInv

-----------------------------------------------------------------------------

LEMMA NextStep ==
  ASSUME IInv, Next
  PROVE  IInv'
<1>1. asked' \in 0..MaxAsked
  BY BoundAssumption DEF IInv, TypeOK, Next
<1>2. ASSUME NEW r \in Request, Proceed(r)
      PROVE  IInv'
  BY <1>1, <1>2, LookStep, WriteStep, AddStep, CutStep, InsertBanStep, BanRemovesStep, SetRankStep,
     TransferStep, MarkStep, CommitStep, VictimStep DEF Proceed
<1> QED
  BY <1>1, <1>2, AskStep, UnbanStep DEF Next

LEMMA StutterStep ==
  ASSUME IInv, UNCHANGED vars
  PROVE  IInv'
<1>1. UNCHANGED <<member, role, ban, uses, count, at, kind, by, who, was, back, new, seen, held,
                  admitted, fresh, excused, contested, asked>>
  BY DEF vars, group, request, adds, past, kept
<1>2. /\ \A q \in Request : LeftAlone(q) /\ Rows(q)' = Rows(q) /\ (Entering(q)' <=> Entering(q))
                            /\ (Joins(q)' <=> Joins(q)) /\ (Parts(q)' <=> Parts(q))
      /\ Active' = Active
  BY <1>1, Alone DEF LeftAlone, Active
<1>3. TypeOK' /\ InviteNotOverspent' /\ KindInv' /\ InviteInv'
  BY <1>1 DEF IInv, TypeOK, InviteNotOverspent, KindInv, InviteInv
<1>4. DoorInv' /\ BannedIsOut'
  BY <1>1, <1>2 DEF IInv, DoorInv, BannedIsOut
<1>5. CountInv'
  <2> SUFFICES ASSUME NEW q \in fresh
               PROVE  /\ at[q] = "count"
                      /\ Joins(q)' => seen[q] = Cardinality(Active \cup Rows(q)')
                      /\ Parts(q)' => seen[q] = Cardinality(Active \ {who[q]})
    BY <1>1, <1>2 DEF CountInv
  <2>1. q \in Request
    BY DEF IInv, TypeOK
  <2> QED
    BY <1>2, <2>1 DEF IInv, CountInv
<1>6. LockInv'
  BY <1>2, Alone DEF IInv, LockInv
<1> QED
  BY <1>3, <1>4, <1>5, <1>6 DEF IInv

(* The inductive invariant holds.                                          *)
THEOREM Invariance == Spec => []IInv
<1>1. Init => IInv
  BY InitInv
<1>2. IInv /\ [Next]_vars => IInv'
  BY NextStep, StutterStep
<1> QED
  BY <1>1, <1>2, PTL DEF Spec

(* Rows and requests keep their types, and no row is locked twice.         *)
THEOREM TypeCorrect == Spec => []TypeOK
<1>1. IInv => TypeOK
  BY DEF IInv
<1> QED
  BY <1>1, Invariance, PTL

(* However many redeem an invite at once, it admits as many as it counts   *)
(* and no more than max_uses.                                              *)
THEOREM InviteNotOverspentHolds == Spec => []InviteNotOverspent
<1>1. IInv => InviteNotOverspent
  BY DEF IInv
<1> QED
  BY <1>1, Invariance, PTL

(* Nobody whose ban was not overtaken is a member, whatever requests ran.  *)
THEOREM BannedIsOutHolds == Spec => []BannedIsOut
<1>1. IInv => BannedIsOut
  BY DEF IInv
<1> QED
  BY <1>1, Invariance, PTL

(* A change of membership that nothing overtook leaves member_count right. *)
THEOREM CountHealsHolds == Spec => CountHeals
<1>1. IInv /\ [Next]_vars =>
        [\A r \in fresh : Commit(r) => count' = Cardinality(Active')]_vars
  <2> SUFFICES ASSUME IInv, Next, NEW r \in fresh, Commit(r)
               PROVE  count' = Cardinality(Active')
    OBVIOUS
  <2>1. asked' \in 0..MaxAsked /\ r \in Request
    BY BoundAssumption DEF IInv, TypeOK, Next
  <2> QED
    BY <2>1, CommitStep
<1> QED
  BY <1>1, Invariance, PTL DEF Spec, CountHeals

(* Whom a request of any other kind waits for, it finds about to take the  *)
(* conversation, which nobody of such a kind holds.                        *)
LEMMA NoCycle ==
  ASSUME IInv
  PROVE  LockOrder
<1> SUFFICES ASSUME NEW r \in Request, InCycle(r),
                    \A q \in Request : InCycle(q) => kind[q] \notin {"send", "transfer"} /\ ~Several(q)
             PROVE  FALSE
  BY DEF LockOrder
<1>1. PICK S \in SUBSET Request :
        /\ r \in S
        /\ \A q \in S : (\E p \in S : Waits(q, p)) /\ (\E p \in S : Waits(p, q))
  BY DEF InCycle
<1>2. \A q \in S : InCycle(q)
  BY <1>1 DEF InCycle
<1>3. \A q \in S : /\ kind[q] \notin {"send", "transfer"} /\ ~Several(q)
                   /\ "conversation" \notin held[q]
                   /\ kind[q] # "add" /\ held[q] \cap User # {} => at[q] = "count"
  BY <1>1, <1>2 DEF IInv, LockInv, LockOf
<1>4. \A q \in S : Wants(q) \subseteq User \cup {"conversation"}
  <2> TAKE q \in S
  <2>1. who[q] \in User /\ by[q] \in User /\ back[q] \subseteq User /\ new[q] \subseteq User
    BY <1>1 DEF IInv, TypeOK
  <2> QED
    BY <2>1 DEF Wants
<1>5. \A q \in S : held[q] \cap User # {} => Wants(q) \subseteq {"conversation"}
  <2> SUFFICES ASSUME NEW q \in S, held[q] \cap User # {}
               PROVE  Wants(q) \subseteq {"conversation"}
    OBVIOUS
  <2>1. CASE at[q] = "count"
    BY <2>1 DEF Wants
  <2>2. CASE kind[q] = "add" /\ at[q] # "count"
    <3>1. AddOf(q) /\ at[q] \in {"bans", "rows", "update", "insert"} /\ q \in Request
      BY <1>1, <2>2 DEF IInv, LockInv, LockOf, KindInv, StepsOf
    <3>2. held[q] \subseteq back[q] \cup new[q]
      BY <1>3, <2>2, <3>1 DEF AddOf, Rows
    <3>3. back[q] \cup new[q] \subseteq held[q]
      BY <1>3, <2>2, <3>2 DEF Several, Rows
    <3>4. at[q] \notin {"bans", "rows"}
      BY <3>1 DEF AddOf
    <3> QED
      BY <3>1, <3>3, <3>4 DEF Wants
  <2> QED
    BY <1>3, <2>1, <2>2
<1>6. PICK p \in S : Waits(r, p)
  BY <1>1
<1>7. Wants(p) \subseteq {"conversation"}
  <2>1. held[p] \cap User # {}
    BY <1>1, <1>3, <1>4, <1>6 DEF Waits
  <2> QED
    BY <1>5, <2>1
<1>8. PICK o \in S : Waits(p, o)
  BY <1>1
<1> QED
  BY <1>3, <1>7, <1>8 DEF Waits

(* Every cycle of waiting requests has a message, a transfer or an add of  *)
(* several people in it.                                                   *)
THEOREM LockOrderHolds == Spec => []LockOrder
<1>1. IInv => LockOrder
  BY NoCycle
<1> QED
  BY <1>1, Invariance, PTL

-----------------------------------------------------------------------------
(* The owner.                                                              *)

(* A transfer under way was asked for by the owner, if there is one.       *)
OwnerInv ==
  ~contested =>
    /\ \A u, v \in User : role[u] = "owner" /\ role[v] = "owner" => u = v
    /\ \A r \in Request : kind[r] = "transfer" => \A u \in User : role[u] = "owner" => u = by[r]

(* What a step that no role and no transfer came out of leaves of it.      *)
LEMMA SameOwner ==
  ASSUME OwnerInv, contested' = contested,
         \A u \in User : role'[u] = "owner" => role[u] = "owner",
         \A q \in Request : kind'[q] = "transfer" => kind[q] = "transfer" /\ by'[q] = by[q]
  PROVE  OwnerInv'
BY DEF OwnerInv

(* A request that ends, or goes on, leaves the others as they are.         *)
LEMMA SameTransfers ==
  ASSUME IInv, NEW r \in Request, Clear(r) \/ UNCHANGED <<kind, by>>
  PROVE  \A q \in Request : kind'[q] = "transfer" => kind[q] = "transfer" /\ by'[q] = by[q]
BY DEF IInv, TypeOK, Clear

LEMMA OwnerAsk ==
  ASSUME IInv, OwnerInv, NEW r \in Request, Ask(r)
  PROVE  OwnerInv'
<1>1. UNCHANGED <<role, contested>>
  BY DEF Ask, OpenInvite, AskPublic, Send, AskRemove, AskBan, AskRank, AskTransfer, AskAdd,
         group, past, kept
<1>2. CASE \E a, u \in User : AskTransfer(r, a, u)
  <2>1. PICK a \in User : /\ role[a] = "owner"
                          /\ kind' = [kind EXCEPT ![r] = "transfer"] /\ by' = [by EXCEPT ![r] = a]
    BY <1>2 DEF AskTransfer, Begin
  <2>2. /\ kind'[r] = "transfer" /\ by'[r] = a
        /\ \A q \in Request \ {r} : kind'[q] = kind[q] /\ by'[q] = by[q]
    BY <2>1 DEF IInv, TypeOK
  <2> QED
    BY <1>1, <2>1, <2>2 DEF OwnerInv
<1>3. CASE ~ \E a, u \in User : AskTransfer(r, a, u)
  <2>1. PICK k \in {"invite", "public", "add", "remove", "ban", "rank", "send"}, a \in User :
             kind' = [kind EXCEPT ![r] = k] /\ by' = [by EXCEPT ![r] = a]
    BY <1>3, UserAssumption DEF Ask, OpenInvite, AskPublic, Send, AskRemove, AskBan, AskRank, AskAdd, Begin
  <2>2. \A q \in Request : kind'[q] = "transfer" => kind[q] = "transfer" /\ by'[q] = by[q]
    BY <2>1 DEF IInv, TypeOK
  <2> QED
    BY <1>1, <2>2, SameOwner
<1> QED
  BY <1>2, <1>3

(* A transfer that overlapped no other replaces whoever was the owner.     *)
LEMMA OwnerCommit ==
  ASSUME IInv, OwnerInv, NEW r \in Request, Commit(r)
  PROVE  OwnerInv'
<1>1. /\ contested' = (contested \/ Contest(r)) /\ contested \in BOOLEAN
      /\ \A q \in Request : kind'[q] = "transfer" => kind[q] = "transfer" /\ by'[q] = by[q]
      /\ kind'[r] = "none"
  BY SameTransfers DEF Commit, Clear, IInv, TypeOK
<1>2. CASE kind[r] = "transfer"
  <2> SUFFICES ASSUME ~contested'
               PROVE  /\ \A u, v \in User : role'[u] = "owner" /\ role'[v] = "owner" => u = v
                      /\ \A q \in Request : kind'[q] # "transfer"
    BY DEF OwnerInv
  <2>1. ~contested /\ ~Contest(r)
    BY <1>1
  <2>2. \A q \in Request : kind'[q] # "transfer"
    BY <1>1, <1>2, <2>1 DEF Contest
  <2>3. \A u \in User : role'[u] = IF u = who[r] /\ was[r] # "none" THEN "owner"
                                   ELSE IF u = by[r] THEN "admin" ELSE role[u]
    BY <1>2 DEF Commit
  <2>4. \A u \in User : role[u] = "owner" => u = by[r]
    BY <1>2, <2>1 DEF OwnerInv
  <2>5. \A u \in User : role'[u] = "owner" => u = who[r]
    BY <2>3, <2>4
  <2> QED
    BY <2>2, <2>5
<1>3. CASE kind[r] # "transfer"
  <2>1. \A u \in User : role'[u] = "owner" => role[u] = "owner"
    BY <1>3 DEF Commit
  <2>2. contested' = contested
    BY <1>1, <1>3 DEF Contest
  <2> QED
    BY <1>1, <2>1, <2>2, SameOwner
<1> QED
  BY <1>2, <1>3

LEMMA OwnerStep ==
  ASSUME IInv, OwnerInv, NEW r \in Request, Proceed(r)
  PROVE  OwnerInv'
<1>1. CASE Commit(r)
  BY <1>1, OwnerCommit
<1>2. CASE SetRank(r)
  <2>1. Clear(r) /\ contested' = contested
    BY <1>2 DEF SetRank, End, kept
  <2>2. \A u \in User : role'[u] = "owner" => role[u] = "owner"
    BY <1>2 DEF SetRank, IInv, TypeOK
  <2> QED
    BY <2>1, <2>2, SameOwner, SameTransfers
<1>3. CASE Look(r) \/ Write(r) \/ Cut(r) \/ InsertBan(r) \/ BanRemoves(r) \/ Mark(r) \/ Victim(r)
  <2>1. UNCHANGED <<role, contested>> /\ (Clear(r) \/ UNCHANGED <<kind, by>>)
    BY <1>3 DEF Look, Write, Cut, InsertBan, BanRemoves, Mark, Victim, End, group, kept, past
  <2> QED
    BY <2>1, SameOwner, SameTransfers
<1>4. CASE Add(r) \/ Give(r) \/ Take(r)
  <2>1. UNCHANGED <<role, contested>> /\ (Clear(r) \/ UNCHANGED <<kind, by>>)
    BY <1>4 DEF Add, AddBans, AddRows, AddUpdate, AddHold, AddInsert, AddCount, Give, Take, End,
                group, kept, past
  <2> QED
    BY <2>1, SameOwner, SameTransfers
<1> QED
  BY <1>1, <1>2, <1>3, <1>4 DEF Proceed

(* The group has at most one owner as long as no two transfers overlap.    *)
THEOREM OneOwnerHolds == Spec => []OneOwner
<1>1. Init => OwnerInv
  BY DEF Init, OwnerInv
<1>2. IInv /\ OwnerInv /\ [Next]_vars => OwnerInv'
  <2> SUFFICES ASSUME IInv, OwnerInv, [Next]_vars
               PROVE  OwnerInv'
    OBVIOUS
  <2>1. CASE \E a, u \in User : Unban(a, u)
    BY <2>1 DEF Unban, request, OwnerInv
  <2>2. CASE UNCHANGED vars
    BY <2>2 DEF vars, group, request, past, kept, OwnerInv
  <2> QED
    BY <2>1, <2>2, OwnerAsk, OwnerStep DEF Next
<1>3. OwnerInv => OneOwner
  BY DEF OwnerInv, OneOwner
<1> QED
  BY <1>1, <1>2, <1>3, Invariance, PTL DEF Spec

=============================================================================
