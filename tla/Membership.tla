----------------------------- MODULE Membership -----------------------------
(***************************************************************************)
(* Who belongs to a group: joining by an invite or directly, being added,  *)
(* leaving, being removed or banned, and passing the group on              *)
(* (apps/api/src/routes/conversations.ts, services/conversations.ts), with *)
(* the trigger that counts members (packages/db/sql/0002_triggers.sql).    *)
(*                                                                         *)
(* Requests run at once, in one or several API processes.  What a request  *)
(* reads before its transaction is one step; in the transaction, each      *)
(* statement that waits for a row lock is one.  Isolation is READ          *)
(* COMMITTED: a statement sees what was committed when it began, and its   *)
(* own transaction's writes.  Rows that are waited for: the invite, the    *)
(* membership row of a user, the conversation.                             *)
(***************************************************************************)
EXTENDS Naturals, FiniteSets

CONSTANTS User, Founder,   \* users, and the one who made the group
          Request,         \* requests that may run at the same time
          MaxUses,         \* max_uses of the group's invite
          GroupMax,        \* LIMITS.groupMembersMax
          MaxAsked         \* bound of the model: requests in all

ASSUME UserAssumption    == IsFiniteSet(User) /\ Founder \in User
ASSUME LockAssumption    == User \cap {"invite", "conversation"} = {}  \* names of locks
ASSUME LimitAssumption   == MaxUses \in Nat \ {0} /\ GroupMax \in Nat \ {0}
ASSUME BoundAssumption   == MaxAsked \in Nat

VARIABLES
  member,    \* each user's membership row: none, in, left
  role,      \* its role, kept while the user is out
  ban,       \* users with a row in conversation_bans
  uses,      \* uses of the invite
  count,     \* member_count
  at,        \* where each request is
  kind,      \* what it does
  by,        \* the user who asks
  who,       \* the user it is about
  was,       \* the membership row it read
  back, new, \* an add: the rows it will update, and insert
  seen,      \* the count its trigger took
  held,      \* the rows it has locked
  admitted,  \* history: times the invite let somebody in
  fresh,     \* history: requests since whose count nobody committed
  excused,   \* history: banned users whose way in or removal was under way
  contested, \* history: a transfer was committed while another was under way
  asked      \* requests so far

group   == <<member, role, ban, uses, count>>
adds    == <<back, new>>
request == <<at, kind, by, who, was, adds, seen, held>>
kept    == <<admitted, excused, contested>>
past    == <<fresh, kept>>
vars    == <<group, request, past, asked>>

Lock == User \cup {"invite", "conversation"}

TypeOK ==
  /\ member \in [User -> {"none", "in", "left"}]
  /\ role \in [User -> {"owner", "admin", "member"}]
  /\ ban \in SUBSET User
  /\ uses \in Nat
  /\ count \in 0..Cardinality(User)
  /\ at \in [Request -> {"idle", "look", "write", "cut", "ban", "remove", "rank",
                         "mark", "give", "take", "hand", "count",
                         "bans", "rows", "update", "insert"}]
  /\ kind \in [Request -> {"none", "invite", "public", "add", "remove", "ban", "rank", "send", "transfer"}]
  /\ by \in [Request -> User]
  /\ who \in [Request -> User]
  /\ was \in [Request -> {"none", "in", "left"}]
  /\ back \in [Request -> SUBSET User]
  /\ new \in [Request -> SUBSET User]
  /\ seen \in [Request -> 0..Cardinality(User)]
  /\ held \in [Request -> SUBSET Lock]
  /\ \A r, q \in Request : r # q => held[r] \cap held[q] = {}
  /\ admitted \in Nat
  /\ fresh \in SUBSET Request
  /\ excused \in SUBSET User
  /\ contested \in BOOLEAN
  /\ asked \in 0..MaxAsked

Init ==
  /\ member = [u \in User |-> IF u = Founder THEN "in" ELSE "none"]
  /\ role = [u \in User |-> IF u = Founder THEN "owner" ELSE "member"]
  /\ ban = {}
  /\ uses = 0
  /\ count = 1
  /\ at = [r \in Request |-> "idle"]
  /\ kind = [r \in Request |-> "none"]
  /\ by = [r \in Request |-> Founder]
  /\ who = [r \in Request |-> Founder]
  /\ was = [r \in Request |-> "none"]
  /\ back = [r \in Request |-> {}]
  /\ new = [r \in Request |-> {}]
  /\ seen = [r \in Request |-> 0]
  /\ held = [r \in Request |-> {}]
  /\ admitted = 0
  /\ fresh = {}
  /\ excused = {}
  /\ contested = FALSE
  /\ asked = 0

-----------------------------------------------------------------------------

Active == {u \in User : member[u] = "in"}

Rank(u) == CASE role[u] = "owner" -> 2 [] role[u] = "admin" -> 1 [] OTHER -> 0

Outranks(u, v) == Rank(u) > Rank(v)

Free(r, l) == \A q \in Request \ {r} : l \notin held[q]

(* The users whose membership a request is about; an add may have several. *)
Rows(r) == IF kind[r] = "add" THEN back[r] \cup new[r] ELSE {who[r]}

Several(r) == \E u, v \in Rows(r) : u # v

(* A request that is let in, of which the ban check is over. *)
Entering(r) == kind[r] \in {"invite", "public", "add"} /\ at[r] # "bans"

Begin(r, k, a, u, step) ==
  /\ at[r] = "idle"
  /\ at' = [at EXCEPT ![r] = step]
  /\ kind' = [kind EXCEPT ![r] = k]
  /\ by' = [by EXCEPT ![r] = a]
  /\ who' = [who EXCEPT ![r] = u]

Acquire(r, l, step) ==
  /\ Free(r, l)
  /\ held' = [held EXCEPT ![r] = @ \cup {l}]
  /\ at' = [at EXCEPT ![r] = step]

(* The variables of a request go with it, and the locks of its transaction. *)
Clear(r) ==
  /\ at' = [at EXCEPT ![r] = "idle"]
  /\ kind' = [kind EXCEPT ![r] = "none"]
  /\ by' = [by EXCEPT ![r] = Founder]
  /\ who' = [who EXCEPT ![r] = Founder]
  /\ was' = [was EXCEPT ![r] = "none"]
  /\ back' = [back EXCEPT ![r] = {}]
  /\ new' = [new EXCEPT ![r] = {}]
  /\ seen' = [seen EXCEPT ![r] = 0]
  /\ held' = [held EXCEPT ![r] = {}]

(* The request answers without a commit, or with one that counts nobody. *)
End(r) == Clear(r) /\ fresh' = fresh \ {r}

-----------------------------------------------------------------------------
(* Coming in. *)

(* Mutant: the invite is read without locking its row. *)
OpenInviteUnlocked(r, u) ==
  /\ uses < MaxUses
  /\ u \notin ban
  /\ Begin(r, "invite", Founder, u, "look")
  /\ UNCHANGED <<group, was, adds, seen, held, past>>

(* POST /invites/:code/join: the transaction locks the invite, then asks    *)
(* for a ban; an invite that is used up, or a ban, ends it with no effect.  *)
OpenInvite(r, u) ==
  /\ Free(r, "invite")
  /\ uses < MaxUses
  /\ u \notin ban
  /\ Begin(r, "invite", Founder, u, "look")
  /\ held' = [held EXCEPT ![r] = {"invite"}]
  /\ UNCHANGED <<group, was, adds, seen, past>>

(* Mutant: a direct join does not ask for a ban. *)
AskPublicBlindly(r, u) ==
  /\ Begin(r, "public", Founder, u, "look")
  /\ UNCHANGED <<group, was, adds, seen, held, past>>

(* POST /:id/join: no invite, the same question. *)
AskPublic(r, u) ==
  /\ u \notin ban
  /\ Begin(r, "public", Founder, u, "look")
  /\ UNCHANGED <<group, was, adds, seen, held, past>>

(* Mutant: the conversation is read for update. *)
LookLocking(r) ==
  /\ at[r] = "look"
  /\ Acquire(r, "conversation", "write")
  /\ was' = [was EXCEPT ![r] = member[who[r]]]
  /\ UNCHANGED <<group, kind, by, who, adds, seen, past>>

Look(r) ==
  /\ at[r] = "look"
  /\ IF member[who[r]] = "in"
     THEN End(r) /\ UNCHANGED <<group, kept>>
     ELSE /\ at' = [at EXCEPT ![r] = "write"]
          /\ was' = [was EXCEPT ![r] = member[who[r]]]
          /\ UNCHANGED <<group, kind, by, who, adds, seen, held, past>>

(* A row that was there is updated; a new one may meet another's.  The      *)
(* trigger counts what its statement sees, then waits for the conversation. *)
Write(r) ==
  /\ at[r] = "write"
  /\ Free(r, who[r])
  /\ IF was[r] = "none" /\ member[who[r]] # "none"
     THEN End(r) /\ UNCHANGED <<group, kept>>
     ELSE /\ Acquire(r, who[r], "count")
          /\ seen' = [seen EXCEPT ![r] = Cardinality(Active \cup {who[r]})]
          /\ fresh' = fresh \cup {r}
          /\ UNCHANGED <<group, kind, by, who, was, adds, kept>>

(* addMembers: the asker's membership and the conversation are read, ... *)
AskAdd(r, a, S) ==
  /\ member[a] = "in"
  /\ Begin(r, "add", Founder, Founder, "bans")
  /\ new' = [new EXCEPT ![r] = S]
  /\ seen' = [seen EXCEPT ![r] = count]
  /\ UNCHANGED <<group, was, back, held, past>>

(* ... then the bans, ... *)
AddBans(r) ==
  /\ at[r] = "bans"
  /\ at' = [at EXCEPT ![r] = "rows"]
  /\ new' = [new EXCEPT ![r] = @ \ ban]
  /\ UNCHANGED <<group, kind, by, who, was, back, seen, held, past>>

(* ... then the rows.  Whose privacy refuses counts as never asked for.  The *)
(* room is that of the first read.                                          *)
AddRows(r) ==
  /\ at[r] = "rows"
  /\ LET away  == {u \in new[r] : member[u] = "left"}
         never == {u \in new[r] : member[u] = "none"}
     IN IF away \cup never = {} \/ seen[r] + Cardinality(away \cup never) > GroupMax
        THEN End(r) /\ UNCHANGED <<group, kept>>
        ELSE /\ at' = [at EXCEPT ![r] = IF away = {} THEN "insert" ELSE "update"]
             /\ back' = [back EXCEPT ![r] = away]
             /\ new' = [new EXCEPT ![r] = never]
             /\ UNCHANGED <<group, kind, by, who, was, seen, held, past>>

(* The transaction: one UPDATE locks the rows that were there, in an order  *)
(* of its own; ...                                                          *)
AddUpdate(r) ==
  /\ at[r] = "update"
  /\ \E u \in back[r] \ held[r] : Acquire(r, u, "update")
  /\ UNCHANGED <<group, kind, by, who, was, adds, seen, past>>

(* ... if more are to come, its trigger locks the conversation first; ... *)
AddHold(r) ==
  /\ at[r] = "update"
  /\ back[r] \subseteq held[r]
  /\ new[r] # {}
  /\ Acquire(r, "conversation", "insert")
  /\ UNCHANGED <<group, kind, by, who, was, adds, seen, past>>

(* ... one INSERT writes the others in the client's order, and fails when a *)
(* row has come to be.                                                      *)
AddInsert(r) ==
  /\ at[r] = "insert"
  /\ \E u \in new[r] \ held[r] :
       /\ Free(r, u)
       /\ IF member[u] # "none"
          THEN End(r) /\ UNCHANGED <<group, kept>>
          ELSE /\ Acquire(r, u, "insert")
               /\ UNCHANGED <<group, kind, by, who, was, adds, seen, past>>

(* When all are written the first of the last statement's triggers counts. *)
AddCount(r) ==
  /\ at[r] \in {"update", "insert"}
  /\ Rows(r) \subseteq held[r]
  /\ at' = [at EXCEPT ![r] = "count"]
  /\ seen' = [seen EXCEPT ![r] = Cardinality(Active \cup Rows(r))]
  /\ fresh' = fresh \cup {r}
  /\ UNCHANGED <<group, kind, by, who, was, adds, held, kept>>

-----------------------------------------------------------------------------
(* Going out. *)

(* What removeMember asks before its transaction. *)
MayRemove(a, u) ==
  /\ member[a] = "in"
  /\ IF a = u THEN ~(role[a] = "owner" /\ count > 1)
     ELSE Rank(a) > 0 /\ member[u] # "none" /\ Outranks(a, u)

AskRemove(r, a, u) ==
  /\ MayRemove(a, u)
  /\ Begin(r, "remove", Founder, u, "cut")
  /\ UNCHANGED <<group, was, adds, seen, held, past>>

(* Mutant: the row is read, and its lock not waited for. *)
CutUnlocked(r) ==
  /\ at[r] = "cut"
  /\ member[who[r]] = "in"
  /\ held' = [held EXCEPT ![r] = @ \cup {who[r]}]
  /\ at' = [at EXCEPT ![r] = "count"]
  /\ seen' = [seen EXCEPT ![r] = Cardinality(Active \ {who[r]})]
  /\ fresh' = fresh \cup {r}
  /\ UNCHANGED <<group, kind, by, who, was, adds, kept>>

(* Nothing to remove ends the request; else the row is locked. *)
Cut(r) ==
  /\ at[r] = "cut"
  /\ IF member[who[r]] # "in"
     THEN End(r) /\ UNCHANGED <<group, kept>>
     ELSE /\ Acquire(r, who[r], "count")
          /\ seen' = [seen EXCEPT ![r] = Cardinality(Active \ {who[r]})]
          /\ fresh' = fresh \cup {r}
          /\ UNCHANGED <<group, kind, by, who, was, adds, kept>>

(* POST /:id/bans/:userId: the target is read, ... *)
AskBan(r, a, u) ==
  /\ member[a] = "in" /\ Rank(a) > 0
  /\ member[u] # "none" => Outranks(a, u)
  /\ Begin(r, "ban", a, u, "ban")
  /\ was' = [was EXCEPT ![r] = member[u]]
  /\ UNCHANGED <<group, adds, seen, held, past>>

(* Whoever is on the way in, or came in since the target was read. *)
Slipped(r, u) ==
  \/ \E q \in Request \ {r} : Entering(q) /\ u \in Rows(q)
  \/ was[r] = "none" /\ member[u] = "in"

(* ... the ban is written, ... *)
InsertBan(r) ==
  /\ at[r] = "ban"
  /\ ban' = ban \cup {who[r]}
  /\ excused' = IF Slipped(r, who[r]) THEN excused \cup {who[r]} ELSE excused
  /\ IF was[r] = "none"
     THEN End(r) /\ UNCHANGED <<member, role, uses, count, admitted, contested>>
     ELSE /\ at' = [at EXCEPT ![r] = "remove"]
          /\ UNCHANGED <<member, role, uses, count, kind, by, who, was, adds, seen, held,
                         admitted, fresh, contested>>

(* ... and who had a row is removed, if removeMember agrees. *)
BanRemoves(r) ==
  /\ at[r] = "remove"
  /\ IF MayRemove(by[r], who[r])
     THEN /\ at' = [at EXCEPT ![r] = "cut"]
          /\ UNCHANGED <<group, kind, by, who, was, adds, seen, held, past>>
     ELSE /\ End(r)
          /\ excused' = excused \cup {who[r]}
          /\ UNCHANGED <<group, admitted, contested>>

Unban(a, u) ==
  /\ member[a] = "in" /\ Rank(a) > 0
  /\ u \in ban
  /\ ban' = ban \ {u}
  /\ excused' = excused \ {u}
  /\ UNCHANGED <<member, role, uses, count, request, admitted, fresh, contested>>

-----------------------------------------------------------------------------
(* Ranks, and the sends that lock the same rows. *)

(* PATCH /:id/members/:userId: the ranks are read, then the row is updated. *)
AskRank(r, a, u) ==
  /\ role[a] = "owner" /\ member[a] = "in"
  /\ member[u] = "in" /\ Outranks(a, u)
  /\ Begin(r, "rank", Founder, u, "rank")
  /\ UNCHANGED <<group, was, adds, seen, held, past>>

SetRank(r) ==
  /\ at[r] = "rank"
  /\ Free(r, who[r])
  /\ \E given \in {"admin", "member"} : role' = [role EXCEPT ![who[r]] = given]
  /\ End(r)
  /\ UNCHANGED <<member, ban, uses, count, kept>>

(* POST /:id/transfer-ownership, to whomever the owner names, also to       *)
(* itself: two rows and the conversation.  A user whose row the second      *)
(* UPDATE does not find is not made an owner, even if they join before the  *)
(* commit.                                                                  *)
AskTransfer(r, a, u) ==
  /\ role[a] = "owner" /\ member[a] = "in"
  /\ Begin(r, "transfer", a, u, "give")
  /\ UNCHANGED <<group, was, adds, seen, held, past>>

Give(r) ==
  /\ at[r] = "give"
  /\ Acquire(r, by[r], "take")
  /\ UNCHANGED <<group, kind, by, who, was, adds, seen, past>>

Take(r) ==
  /\ at[r] = "take"
  /\ IF member[who[r]] = "none"
     THEN at' = [at EXCEPT ![r] = "hand"] /\ UNCHANGED held
     ELSE Acquire(r, who[r], "hand")
  /\ was' = [was EXCEPT ![r] = member[who[r]]]
  /\ UNCHANGED <<group, kind, by, who, adds, seen, past>>

(* MessageService.send: the conversation, then the sender's row. *)
Send(r, u) ==
  /\ member[u] = "in"
  /\ Free(r, "conversation")
  /\ Begin(r, "send", Founder, u, "mark")
  /\ held' = [held EXCEPT ![r] = {"conversation"}]
  /\ UNCHANGED <<group, was, adds, seen, past>>

Mark(r) ==
  /\ at[r] = "mark"
  /\ Free(r, who[r])
  /\ End(r)
  /\ UNCHANGED <<group, kept>>

-----------------------------------------------------------------------------
(* Ends of transactions. *)

Joins(r) == kind[r] \in {"invite", "public", "add"}
Parts(r) == kind[r] \in {"remove", "ban"}

Contest(r) == kind[r] = "transfer" /\ \E q \in Request \ {r} : kind[q] = "transfer"

(* Mutant: the trigger adds one or takes one off. *)
CountedByOne(r) == IF Joins(r) THEN count + 1 ELSE IF Parts(r) THEN count - 1 ELSE count

(* The member count a commit leaves: that of the last trigger.  The first   *)
(* counted before it waited, a second holds the conversation as it counts.  *)
Counted(r) == IF ~Joins(r) /\ ~Parts(r) THEN count
              ELSE IF Several(r) THEN Cardinality(Active \cup Rows(r)) ELSE seen[r]

(* The triggers' updates, or the one of owner_id, and the commit. *)
Commit(r) ==
  /\ at[r] \in {"count", "hand"}
  /\ Free(r, "conversation")
  /\ member' = [u \in User |-> IF u \notin Rows(r) THEN member[u]
                               ELSE IF Joins(r) THEN "in" ELSE IF Parts(r) THEN "left" ELSE member[u]]
  /\ role' = CASE kind[r] = "add" -> [u \in User |-> IF u \in Rows(r) THEN "member" ELSE role[u]]
               [] kind[r] = "transfer" ->
                    [u \in User |-> IF u = who[r] /\ was[r] # "none" THEN "owner"
                                   ELSE IF u = by[r] THEN "admin" ELSE role[u]]
               [] OTHER -> role
  /\ uses' = IF kind[r] = "invite" THEN uses + 1 ELSE uses
  /\ admitted' = IF kind[r] = "invite" THEN admitted + 1 ELSE admitted
  /\ contested' = (contested \/ Contest(r))
  /\ count' = Counted(r)
  /\ Clear(r)
  /\ fresh' = IF Joins(r) \/ Parts(r) THEN {} ELSE fresh \ {r}
  /\ UNCHANGED <<ban, excused>>

(* The row a request waits for, or may wait for next. *)
Wants(r) == CASE at[r] \in {"write", "mark", "rank"} -> {who[r]}
              [] at[r] = "cut" -> IF member[who[r]] = "in" THEN {who[r]} ELSE {}
              [] at[r] = "update" -> IF ~(back[r] \subseteq held[r]) THEN back[r] \ held[r]
                                     ELSE IF new[r] # {} THEN {"conversation"} ELSE {}
              [] at[r] = "insert" -> new[r] \ held[r]
              [] at[r] = "give" -> {by[r]}
              [] at[r] = "take" -> IF member[who[r]] = "none" THEN {} ELSE {who[r]}
              [] at[r] \in {"hand", "count"} -> {"conversation"}
              [] OTHER -> {}

Waits(r, q) == r # q /\ Wants(r) \cap held[q] # {}

InCycle(r) == \E S \in SUBSET Request :
  /\ r \in S
  /\ \A q \in S : (\E p \in S : Waits(q, p)) /\ (\E p \in S : Waits(p, q))

(* The database undoes a transaction of a cycle; the request fails. *)
Victim(r) ==
  /\ InCycle(r)
  /\ End(r)
  /\ excused' = IF kind[r] = "ban" THEN excused \cup {who[r]} ELSE excused
  /\ UNCHANGED <<group, admitted, contested>>

-----------------------------------------------------------------------------

Ask(r) == \/ \E u \in User : OpenInvite(r, u) \/ AskPublic(r, u) \/ Send(r, u)
          \/ \E a, u \in User : \/ AskRemove(r, a, u) \/ AskBan(r, a, u)
                                \/ AskRank(r, a, u) \/ AskTransfer(r, a, u)
          \/ \E a \in User, S \in SUBSET User \ {{}} : AskAdd(r, a, S)

Add(r) == \/ AddBans(r) \/ AddRows(r) \/ AddUpdate(r) \/ AddHold(r) \/ AddInsert(r) \/ AddCount(r)

Proceed(r) == \/ Look(r) \/ Write(r) \/ Add(r) \/ Cut(r) \/ InsertBan(r) \/ BanRemoves(r) \/ SetRank(r)
              \/ Give(r) \/ Take(r) \/ Mark(r) \/ Commit(r) \/ Victim(r)

Next == \/ /\ asked < MaxAsked
           /\ asked' = asked + 1
           /\ \E r \in Request : Ask(r)
        \/ /\ UNCHANGED asked
           /\ (\E r \in Request : Proceed(r)) \/ \E a, u \in User : Unban(a, u)

Spec == Init /\ [][Next]_vars

-----------------------------------------------------------------------------
(* Properties. *)

(* An invite lets in at most max_uses people, also when several redeem its *)
(* last use at once (routes/conversations.ts, POST /invites/:code/join).   *)
InviteNotOverspent == admitted = uses /\ uses <= MaxUses

(* A banned user is a member only if somebody was letting them in, or they *)
(* came in, while the ban was being made, or the removal that follows the  *)
(* ban failed: every way in asks for a ban, and the ban removes who had a  *)
(* row (routes/conversations.ts, services/conversations.ts).               *)
BannedIsOut ==
  \A u \in ban : member[u] = "in" =>
    \/ u \in excused
    \/ \E r \in Request : kind[r] = "ban" /\ who[r] = u    \* about to be removed

(* Whatever member_count was, a change of membership that overlaps no      *)
(* other leaves it right: the trigger recounts (0002_triggers.sql          *)
(* sync_member_count).                                                     *)
CountHeals ==
  [][\A r \in fresh : Commit(r) => count' = Cardinality(Active')]_vars

(* Changes of one membership never wait for each other in a cycle: they     *)
(* lock the invite, then the membership row, then the conversation.  Each   *)
(* cycle the database has to break has a message of the member in it, which *)
(* locks the last two in the other order, a transfer, or an add of several  *)
(* people, which locks their rows in an order of its own, some of them with *)
(* the conversation in hand (services/messages.ts send,                     *)
(* services/conversations.ts removeMember and addMembers).                  *)
LockOrder ==
  \A r \in Request : InCycle(r) =>
    \E q \in Request : InCycle(q) /\ (kind[q] \in {"send", "transfer"} \/ Several(q))

(* The group has one owner at most, unless two transfers overlapped: when a *)
(* transfer commits, nobody but its asker can be the owner it replaces,     *)
(* whatever joins, adds, removals and changes of rank ran since it was      *)
(* asked for (routes/conversations.ts, POST /:id/transfer-ownership).       *)
OneOwner ==
  ~contested => \A u, v \in User : role[u] = "owner" /\ role[v] = "owner" => u = v
=============================================================================
