# Yappy: a formal model

TLA+ specifications of the chat system in this repository. TLC checks them on
small instances; TLAPS proves all their safety properties, and some more, for
every value of their constants. All paths below are relative to the repository.

1. The system: parts, state, operations, interactions, hard behaviour
2. The modules and the code they stand for
3. The runs: what each one checks, its bounds, its fairness
4. What is proved, from what and along which argument
5. Where the code and its comments or documents disagree
6. What is not modelled, and why
7. Plan

## 1. The system

Yappy is a TypeScript monorepo. Four server processes share one PostgreSQL:

| process | source | holds in memory | durable state |
|---|---|---|---|
| HTTP API | `apps/api` | nothing between requests | everything, in Postgres |
| gateway | `apps/gateway` | sessions, sockets, replay buffers, topic tables | presence rows, cursors |
| worker | `apps/worker` | nothing between jobs | the pg-boss queue |
| LiveKit | external | rooms and who is connected | nothing |

Clients (`apps/webapp`, `android`, `ios`, `packages/bot-sdk`) send commands over
REST and receive events over one WebSocket. Nothing else connects the parts:

```
client --REST--> API --transaction--> Postgres --NOTIFY at commit--> gateway --WebSocket--> client
                  \--enqueue--> pg-boss --> worker --/                   \--cursors, presence--> Postgres
```

### Components

For each part: its state, its operations, what is hard about it, and what makes
it correct. `PROJECT.json` lists all parts of the repository with their files.

**Gateway sessions and the connections that carry them**
(`apps/gateway/src/session.ts`, `server.ts`, `apps/webapp/src/lib/gateway.ts`).
State: the dispatch counter `seq`, the ring buffer of the last events, the
socket the session rides, `disconnectedAt`; the closure of every connection with
its own `session` variable; the client's session id and last `seq`. Operations:
IDENTIFY, RESUME, dispatch, heartbeat timeout, close event, expiry, eviction,
restart of the node. Hard: the handshakes are asynchronous, so a close event, a
dispatch or another RESUME runs in the middle of one; a connection can be dead
long before either side notices; frames already queued are followed by a close.
Correct when: the client sees the events of its session in order and without a
gap or is told that the session is lost; a late close event of an old socket
does not touch a session that has moved on.

**Message service** (`apps/api/src/services/messages.ts`,
`packages/db/sql/0003_functions.sql`). State: `conversations.message_seq`,
`last_message_id` and preview; `messages`; `message_revisions`; the events of
the topic. Operations: send, edit, remove. Hard: every request reads before its
transaction and acts on it later; transactions overlap and take row locks in
different orders; clients retry with the same nonce; transactions abort; an
account is suspended in the middle of a send. Correct when: numbers are gapless
and total, an event announces exactly what was committed and in the order of the
log, a retry never posts twice, a suspended sender never posts, a thread's count
matches its replies, every request is answered.

**Read and delivery cursors** (`routes/messages.ts` 447-535, `server.ts`
ReadAck, DeliveryAck and the catch-up of IDENTIFY, triggers
`bump_mention_count` and `recount_mentions_on_read`). State: `last_read_seq`,
`last_delivered_seq` and `mention_count` of every member. Hard: three writers on
one row, under READ COMMITTED, one of which joins the conversation's row.
Correct when: a cursor is monotonic and never ahead of the conversation, the
badge is the number of unread mentions.

**Calls** (`routes/calls.ts`, `apps/worker/src/jobs/calls.ts`). State: the call,
its participants, the ring-timeout job, the LiveKit room. Operations: start,
join, decline, leave, end, the ring timeout, the reconciliation with LiveKit.
Hard: each handler is a chain of separate queries; the worker reads the roster of
another service and acts on it later; apps die without saying so; jobs are
retried. Correct when: an answered call is not ended by its own ring timeout, a
call nobody is in ends, and people who are in a call are never marked as gone.

**Event bus and subscriptions** (`packages/db/src/bus.ts`,
`apps/gateway/src/subscriptions.ts`). State: which session listens to which
topic, the bus's handlers and the driver's callbacks, grace timers. Operations:
Subscribe and Unsubscribe, the destruction of a session, dispatch of an event,
eviction by `member.remove` and `conversation.delete`. Hard: LISTEN is awaited
while others join and leave; membership is queried and subscribed in two steps;
an oversized body is fetched while later events pass it; timers outlive what
they were started for; the listener connection may be lost. Correct when: a
session hears the events of its conversations once each, and only those.

**Presence** (`apps/gateway/src/presence.ts`, `sweep_presence`). State: one row
per device, a map of held devices in each gateway, `users.presence_status`.
Operations: connect, disconnect, refresh, the sweeps of the gateway and of the
worker. Hard: each is several statements that may fail, for one device on two
gateways, either of which may die. Correct when: a user nobody holds is offline
in the end.

**Membership** (`apps/api/src/routes/conversations.ts`,
`services/conversations.ts`, trigger `sync_member_count`). State: the members,
roles and bans of a conversation, uses of an invite, `member_count`. Operations:
join by invite or directly, add, leave, remove, ban, unban, rank, transfer. Hard:
checks precede the transaction; several rows are locked in turn; a trigger
counts rows others are about to change. Correct when: an invite lets in no more
than it may, a banned user stays out, the count comes right, lock waits that
form a cycle have a known cause.

**Notifications and push** (`apps/worker/src/jobs/push.ts`, the push routes of
`routes/devices.ts`). State: the fan-out job, `push_outbox` rows with attempts
and claim, push tokens. Hard: drains overlap and hold no lock while they send; jobs are
retried; a token dies while another is registered; a worker crashes in between.
Correct when: a notification is pushed once, is given up only for a reason, and
is settled in the end.

**Web client store and requests** (`apps/webapp/src/state/store.ts`,
`ui/chat/actions.ts`, `lib/api.ts`). State: the timeline of each conversation
with pending sends; the token pair. Hard: a fetch, live events, retries and
jumps race. Correct when: the timeline ends up being the conversation's log, and
no message is shown twice.

**Other counters** (`packages/db/sql/0002_triggers.sql`): reaction, poll, media
reference and follower counts and the mutual flag. Hard: a trigger reads, then
writes, while another one does the same.

**Token rotation** (`apps/api/src/routes/auth.ts` 742-820): refresh tokens with
a grace window. Hard: two refreshes with one token. Correct when: a client that
follows the answers stays signed in, and a stolen old token signs nobody in.

**Spaces, social graph, media, keys, rate limiter, links and mail, bots and
webhooks, moderation and support, assistant, account helpers, native clients,
desktop shell, deployment**:
mostly single-row operations, queries, calls to external services or user
interfaces; their entries in `PROJECT.json` say what is taken from them.

The hazards in these parts, each at its line and with the properties that would
catch it going wrong, are the list `hazards` of `PROJECT.json`.

## 2. The modules

| module | stands for |
|---|---|
| `EventStream` | abstract: what the gateway promises one session |
| `GatewaySession` | one session, its connections and its client in detail |
| `ConversationLog` | abstract: what a conversation promises its readers |
| `MessageLog` | send, edit and remove as concurrent transactions |
| `ReadCursors` | cursors and mention badges of a conversation's members |
| `Membership` | joining, leaving, banning and counting the members of a group |
| `Calls` | one call of a conversation |
| `Topics` | one conversation's topic on one gateway: bus and subscriptions |
| `Presence` | one user's presence rows, gateways and sweeps |
| `PushOutbox` | one user's notifications: fan-out, outbox, drains, tokens |
| `X_proofs` | the theorems about module `X`, one for each of the eight detailed ones |
| `MCX` | values of the constants of `X` for TLC |

They meet at these places: an event that `MessageLog` commits is an entry of the
`log` of `Topics`; what `Topics` dispatches to a session is a `Dispatch` of
`GatewaySession`; the sends of `ReadCursors` are those of `MessageLog`, which
shows that they come one at a time; the fan-out of `PushOutbox` follows a
committed send.

`GatewaySession` implements `EventStream`, `MessageLog` implements
`ConversationLog`; both refinements are properties of a run and theorems. The
`map` of `PROJECT.json` gives for every definition the lines it stands for. A
definition whose comment begins with "Mutant:" is a plausible wrong version of
the one that follows; no specification uses it. Each property is shown to fail
when the mutant takes the place of the definition.

### GatewaySession

An event is its dispatch number. The server's side is the `Session` object
(`seq`, `replay`, `socket`, `disconnected` for `disconnectedAt # null`) and its
entry in the sessions map (`registered`). A connection has its `readyState`
(`conn`), whether its peer is gone (`dead`), how far its handshake got
(`request`), the `session` variable of its closure (`closure`) and the frames on
their way (`wire`). The client has its current socket, session id, `seq` and, as
history, the highest event processed (`high`).

| action | code |
|---|---|
| `Dispatch` | `Session.dispatch`, `send`, the slow-consumer close |
| `Identify`, `SendReady`, `FinishHandshake`, `FailHandshake` | `handleIdentify`, cut at its awaits; `fail` |
| `Resume`, `ResumeTooLate`, `RefuseResume` | `handleResume`, cut at its awaits |
| `Reject` | handshakes closed before anything is attached |
| `CloseEvent` | `socket.on("close")` and `onDisconnect` |
| `HeartbeatTimeout`, `Reap` | the two halves of `sweep` |
| `Evict` | revocation and the cap on sessions per user |
| `CloseSocket` | the closes of `onMessage` |
| `NodeRestart` | a stop or a crash of the gateway |
| `Open`, `Receive`, `Lose` | the client's `connect`, `onFrame`, `onclose` |

One module instance is one session; a client that has to IDENTIFY again gets
another session, which is another instance. Heartbeat and resume timers may fire
at any moment they are armed. A backlog can exceed `SLOW_CONSUMER_BYTES` as
soon as a frame is waiting.

### MessageLog

Requests are processes. A request is one step per query before its transaction
(`Send`, `EditRead`, `RemoveRead`, `Context`), one per row lock inside it
(`Begin`, `Allocate`, `Insert`, `Write`, `LockRoot`), and one for the commit,
which makes all writes visible and delivers the event. `Conflict` is the unique
index on sender and nonce, `Abort` a lost connection, a crash or PostgreSQL's
choice of a deadlock victim, `Suspend` a moderator's transaction on the user's
row. `message`, `head`, `last`, `preview`, `revisions` and `events` are what is
committed; `convLock` and `messageLock` are the row locks. The text a request
writes is named after the request. The root of a message's thread is the message
its client names as `threadRootId`, which nothing checks (`messages.ts` 488), or
else the one `loadReplyTarget` finds, so threads nest to any depth. A root that does
not exist violates the foreign key, an `Abort`; one in another conversation is left
out.

### ReadCursors

`named` is the log, reduced to who is mentioned by which message. `Allocate`,
`Lock`, `Commit` and `Rollback` are the send transaction as far as it touches
members; it is one at a time because `allocate_message_seq` holds the
conversation's row (what `MessageLog` shows). An acknowledgement is `RestRead`
followed by `RestUpdate`, `Command` followed by `ReadUpdate` or `DeliveryUpdate`,
or `CatchUp` followed by `CatchUpUpdate`. Between the two the statement waits for
the member's row: it continues with the new version of that row and the old
`message_seq`, which is what READ COMMITTED does. `Materialise` creates the row
of a channel member that has none yet (`Warm` are those who have one).

### Membership

`member` and `role` are the rows of `conversation_members`, `ban` those of
`conversation_bans`, `uses` is the invite's and `count` `member_count`. A request
is idle or at a step of its handler: what it asks before the transaction is the
first step (`OpenInvite`, `AskPublic`, `AskAdd`, `AskRemove`, `AskBan`, `AskRank`,
`AskTransfer`, `Send`); each statement that waits for a row is a step (`Look`,
`Write`, `Cut`, `InsertBan`, `BanRemoves`, `SetRank`, `Give`, `Take`, `Mark`), and
`Commit` makes the writes visible. `addMembers` takes any number of users: three
reads (`AskAdd`, `AddBans`, `AddRows`), an UPDATE that locks the rows of those who
were members once, one by one in any order (`AddUpdate`), its trigger, which locks
the conversation while rows are still to come (`AddHold`), an INSERT that writes the
others in the order the client chose (`AddInsert`), and the count of the last trigger
(`AddCount`). `back` and `new` are the rows it updates and inserts; a user whose
privacy refuses the add counts as not asked for. `held` are the row locks; `Victim` is
PostgreSQL undoing a transaction of a cycle. `seen` is what the trigger counted
before it waited for the conversation's row. History: `admitted` counts who came
by the invite, `fresh` are the changes since whose count nobody has committed,
`excused` the banned users whose way in or removal overlapped the ban, `contested`
whether a transfer was committed while another was under way. `asked` counts the
requests, up to `MaxAsked`.

### Topics

`wire` is what the listener connection carries, `cmds` the LISTEN and UNLISTEN
statements on their way out. `bus` is the bus's handler set for the topic (none,
still empty, with a handler), `callbacks` the listeners of the driver, `stop`
whether the bus knows how to undo its LISTEN. `known`, `topic`, `grace` and
`stray` are the manager's set, its timer and the timers whose handle was
overwritten. A Subscribe is `AskMembership`, then `AddFirst` and `Listened`, or
`AddToBus`, or `AddNext`. JavaScript compares sets by identity: an adder whose
sets were thrown away while it waited is an `orphan`, and joins nothing. `asof`
and `since` are history: up to which event the session's membership was read and
from which it has been in a topic that is listened to. `troubled` is history:
from then on the guarantees of the properties are not claimed.

### Presence

A connection goes through `Identify` (or `TakeOver`, a resume), `Connect`,
`Insert`, `Mark` and `Ready`, and through `Close`, `Delete`, `Count` and `Clear`:
one step per statement, each of which may fail. `local` is the tracker's map.
A row is fresh or not: `Refresh` takes the devices on the map, `RunRefresh` is its
UPDATE, which runs later or fails and renews the rows of whatever devices were on
the map then; `Expire` is the passing of `PRESENCE_TTL_SECONDS`. `SweepRows` and
`SweepUser` are the two statements of `sweep_presence` as the worker calls it. A
gateway that goes (`Down`) leaves the statements it has sent: refreshes in
`refreshing`, inserts and deletions of rows in `late`, which `RunLate` runs at any
moment or never. Of a live gateway a statement runs, or fails, in the step that
waits for it; equal refreshes under way at once count as one. `Crash` leaves the rows
with the id `Former`, because no later process has the same `NODE_ID`.

### PushOutbox

`job` is the `push.fanout` job (`Enqueue`, `FanoutQuery`, `FanoutInsert`,
`FanoutDone`, `FanoutFails`), `row`, `attempts`, `lease` and `expired` the outbox row.
A drain is a call of `deliverPending`: `Claim`, `ReadDevices`, a `Send` for each
row, `SettleOk`, `SettleFailed`, `ClearTokens`; `SendThrows` and `Crash` end it
early. `Register`, `Unregister` and `Rotate` change tokens; `valid` is the token
the push service accepts. A push may be taken and its answer lost: an error of the
request or ten seconds make it a failure to be retried like any other
(`apps/worker/src/lib/apns.ts` 156-160), which is `lost` in `Send` and one of the
`MaxFaults`. History: `pushes`, `doubtful` (rows whose drain was slower than the
lease, threw or crashed, and rows that only pushes without an answer reached) and
`bare` (rows for which a drain found no device).

### Calls

`call`, `part`, `aged`, `summaries` are the rows, `req` the handler that serves
each member, `timer` the `call.ring_timeout` job, `sweep` the running
`reconcileStaleCalls` with the roster it has read, `room` the LiveKit room. Every
query and every transaction of a handler is a step; the three queries of a join
before its transaction are one. Settling (joined for 90
seconds) and ageing (started two minutes ago) are actions of their own; the
six-hour bound is `SweepForce`, at any moment. `steady` is history: who never left
the room since the running reconciliation began. `Connect` and `Lose` are the
clients and the network; `SweepBlind` is a LiveKit that does not answer. The timeout
job runs when `ring_expires_at` has passed: the clocks of API and worker are taken
to agree, so that its early return (`jobs/calls.ts` 42) is left out.

## 3. The runs

| run | constants | distinct states | checks |
|---|---|---|---|
| `session_safety` | 3 sockets, buffer 2, 3 events | 208 244 | `TypeOK`, `OneRider`, `NotParkedWhileOpen`, `ImplementsStream`, `NoSkippedEvent`, `ResumedMeansCaughtUp` |
| `session_liveness` | 2 sockets, buffer 1, 2 events | 15 953 | `DeliveredOrToldSo` |
| `messages_safety` | 4 requests, 2 users, 2 nonces | 312 103 | `TypeOK`, `Gapless`, `PostedOnce`, `NoPhantomReplies`, `ImplementsLog`, `NoPostBySuspended` |
| `messages_liveness` | 3 requests, 1 user, 2 nonces | 16 482 | `Answered` |
| `cursors_safety` | 2 members, one without a row, 2 acknowledgements at a time, 2 messages | 1 960 411 | `TypeOK`, `CursorsWithinHead`, `BadgeExact`, `CatchUpNeverLowers` |
| `membership` | 3 users, one the founder, 3 requests at a time, 4 in all, an invite of 1 use, groups of 3 | 417 277 | `TypeOK`, `InviteNotOverspent`, `BannedIsOut`, `LockOrder`, `CountHeals` |
| `topics` | 2 sessions, 2 events, 2 subscriptions, 1 lost connection, 1 timer out of control | 3 836 780 | `TypeOK`, `ExactlyOnce`, `SmallInOrder`, `EvictedIsOut`, `IdleIsTemporary` |
| `presence` | 2 connections, 2 gateways, 1 device | 778 976 | `TypeOK`, `AgesOut` |
| `push` | 1 message, 2 drains, 1 device with 2 tokens, 2 attempts, 1 retry, 1 fault | 842 198 | `TypeOK`, `PushedOnce`, `NothingDropped`, `LiveTokenKept`, `EverySettles` |
| `calls` | 2 members, 2 requests after the start, 1 worker crash | 282 861 | `TypeOK`, `HealthySpared`, `TimeoutSparesAnswered`, `RingStops`, `CorpseCleared` |

Two more runs, `session_parked_once_closed` and `cursors_rest_backwards`, each find
a behaviour that contradicts a comment (section 5).

### What they show

*Sessions.* `ImplementsStream` says that sockets, replay buffer, resume and the
client's cursor together are a stream numbered 1, 2, 3, ... that the client reads
without a gap until it is told that the stream is lost. `NotParkedWhileOpen` and
`OneRider` are about the half-open socket: its close event comes long after the
session has moved on, and must neither park the session nor leave two sockets
that believe they carry it. `DeliveredOrToldSo` is liveness: an event dispatched
while the client is slow or away reaches it over a later connection, or it
learns that the session is lost.

*Messages.* `Gapless` at every moment, although numbers are taken inside
transactions that may abort; `PostedOnce` although a retry may be in flight
together with the first attempt; `NoPostBySuspended` although the check for the
suspension happens long before the insert; `NoPhantomReplies`, that a thread never
advertises more replies than there are; `Answered` although an edit and a reply
can deadlock.

*Cursors.* No clamp ever lets a cursor pass the conversation's head, and the badge
of a member with a row is exact for every interleaving of the two triggers. The
badge of a virtual member is not: mentions that were sent before the row existed
are not counted, which is why `BadgeExact` speaks of `Warm`.

*Membership.* Several people who redeem the last use of an invite are let in one
at a time, because the invite is read again under its lock. A ban and a join that
overlap can leave a banned member, which is why `BannedIsOut` speaks of
`excused`; nothing else does. `member_count` can be wrong after two overlapping
changes, because the trigger counts before it waits (`0002_triggers.sql` 96);
`CountHeals` says that the next change on its own puts it right. `LockOrder` says
which waits can form a cycle at all: there is always a message of a member whose
row is being changed, a transfer of the group, or an add of several people. Two adds
of the same people need neither of the others: each locks its rows in the order its
client named them, or holds the conversation for the rows it still has to insert.

*Topics.* The reference count, the grace period and the asynchronous LISTEN
together deliver every event exactly once, and never leave the node listening
for nobody: until the listener connection or a body is lost, or a timer fires
while a LISTEN is unanswered. After that they may do anything the model allows,
and some of it lasts: a handler registered twice dispatches every event twice.
A session that joins while another one's LISTEN is unanswered counts as
subscribed but hears only from when it is answered. `EvictedIsOut` names the one
way a removed member stays: its membership was read before the removal and
used after it. Order is promised for events that fit a notification only.

*Presence.* `AgesOut`: a user whom no gateway holds is offline in the end,
however many statements failed, ran after their device or their gateway was gone,
or never ran, and whichever gateway died in between. The
opposite does not hold: a device that is connected may be without its row until
it connects again, because a late DELETE may hit the row of its successor and
`refresh` only updates rows that are there.

*Push.* `PushedOnce` although the fan-out is repeated and drains overlap;
it fails only for a drain that outlives its own claim, that throws or crashes after
a send, or that did not get the answer to the pushes of a row: APNs may have taken
them, the row counts as failed and is pushed again (`apns.ts` 156-160). `NothingDropped` and `EverySettles`: a notification is neither
forgotten nor retried for ever. `LiveTokenKept` although the verdict on a token
arrives late.

*Calls.* The timeout may end an answered call's rows, mark everybody as gone and
announce `call.end`, but never end the call; the
reconciliation acts on old evidence but never on those who stayed in the room; a
ringing call stops ringing although callers vanish and workers crash; rows of
dead apps do not keep a call alive.

### Why the bounds are enough

* Sockets: one that is half-open, the one the session moved to and a third that
  resumes again; with three, a close event can be late by one and by two moves.
  Liveness needs one lost connection and one that works.
* Buffer and events: with a buffer of 2 and 3 events a RESUME can fall inside the
  buffer, at its old edge and behind it; a session can be full and be emptied.
* Requests: four are a message, its retry or its reply, a change of one of them
  and a transaction that competes. The unguarded thread count needs a root, two
  replies and two deletions of one reply: five. Four are also enough for a reply, its
  root and a root of that, and a change of one of them.
* Cursors: two acknowledgements of one member race with a send; two messages are
  needed for a cursor that lies behind, at and between heads.
* Membership: an actor and two affected users, so that an add has two rows; three
  requests at a time are what an invite's last use, a ban against a join, an uncounted
  change and a cycle of two or of three need. Requests in all are bounded
  (`MaxAsked`): one that leads to the situation, and the three that meet in it. The
  room of a group is never used up in this run; `GroupMax` keeps nothing else safe.
* Topics: two sessions are one that waits for LISTEN and one that comes or goes
  meanwhile; two events are a big one and one that passes it, or a removal and
  an event after it; two subscriptions are a session that comes back. One
  lost connection and one uncontrolled timer show what these leave behind.
* Presence: two connections of one device are an old and a new one, on one gateway
  or on two; other devices only add rows that keep the user online. Of the statements
  under way, a refresh, and an insert and a deletion of gateways that are down, are
  distinguished; more of them do the same again.
* Push: two drains are the holder of a claim and one that would take it; two
  attempts are one that is not the last and one that is; two tokens are a dead
  one and its successor.
* Calls: caller and callee; two requests are an answer and a departure or two
  answers; one crash loses the timer or the reconciliation once.

Symmetry is used where the constants are interchangeable and no liveness is
checked. `CHECK_DEADLOCK FALSE` because the models stop when requests, sockets, events or
messages are used up, and because a system with nothing to do is at rest;
`presence`, where something can always happen, checks for deadlock.

### Fairness

* `GatewaySession!FairSpec`: the event loop runs pending continuations and close
  events (`Handshake`, `CloseEvent`), frames on a live wire arrive (`Receive`), the
  client's reconnect timer fires (`Open`), and it notices a connection the server
  has closed. Nothing is assumed of dispatches, sweeps, restarts or the network
  staying up.
* `MessageLog!FairSpec`: a process whose next statement does not have to wait
  executes it; PostgreSQL's deadlock detector aborts some member of a circle
  (`deadlock_timeout`). Nothing is assumed of clients. Locks of transactions that
  end are therefore released, which is what `Answered` rests on.
* `Presence!Fairness`: a row nobody refreshes passes its time to live, and the
  worker's schedule runs the two statements of the sweep, which presupposes that the
  sweep before it in `cron.sweep_fast` does not fail each time. No gateway, client or
  statement of a connection is assumed to do anything.
* `PushOutbox!Fairness`: the cron starts a drain every minute, so while some drain
  can take a step (`Deliver`) some drain does, and a claim ages (`LeaseEnds`). One
  drain may hang for ever. Nothing is assumed of the fan-out, of devices, or of
  the absence of faults up to their bound.
* `Calls!Fairness`: the API serves what it has accepted, time passes, pg-boss runs
  its jobs and retries them, and LiveKit answers again and again (strong fairness
  of `SweepRoster`, because the sweep comes back every minute and each time may
  find LiveKit silent). It runs after four other sweeps in `cron.sweep_fast`, an
  exception in one of which ends the job, so it is assumed that they do not fail each
  time. `RingStops` begins with the scheduled job: a call whose job was never enqueued
  rings until the six-hour sweep. Nobody has to call, answer, hang up or connect, and the
  six-hour sweep is not relied upon.
* `Topics`, `ReadCursors` and `Membership` have safety properties only.

## 4. What is proved

Each detailed module has its theorems in a module of its own, checked to the last
leaf by tlapm. They hold for every value of the constants that satisfies the
module's named assumptions, and use no others:

| module | obligations | assumptions on the constants | theorems besides `Invariance` and `TypeCorrect` |
|---|---|---|---|
| `GatewaySession_proofs` | 1772 | "no socket" is not a socket, the buffer is not empty | `OneRiderHolds`, `NotParkedHolds`, `NoSkippedEventHolds`, `ResumedMeansCaughtUpHolds`, `Implementation` of `EventStream` |
| `MessageLog_proofs` | 1552 | "none" is not a request | `GaplessHolds`, `PostedOnceHolds`, `NoPostBySuspendedHolds`, `RowsLocked`, `DeadlockNeedsBoth`, `NoPhantomRepliesHolds`, `Implementation` of `ConversationLog` |
| `ReadCursors_proofs` | 489 | finitely many members, `Warm` among them | `CursorsWithinHeadHolds`, `BadgeExactHolds`, `CatchUpNeverLowersHolds`, `OnlyStaleAcksLowerHolds` |
| `Membership_proofs` | 1187 | finitely many users, the founder one of them, no user is called like a lock, limits are positive | `InviteNotOverspentHolds`, `BannedIsOutHolds`, `CountHealsHolds`, `LockOrderHolds`, `OneOwnerHolds` |
| `Topics_proofs` | 1814 | finitely many sessions | `ExactlyOnceHolds`, `SmallInOrderHolds`, `EvictedIsOutHolds`, `IdleIsTemporaryHolds` |
| `Presence_proofs` | 523 | a process that ended is no gateway; there is a gateway and a device | `GoneStaysGoneHolds`; no `Invariance`: `TypeOK` is inductive |
| `PushOutbox_proofs` | 746 | `GiveUp` is positive | `PushedOnceHolds`, `NothingDroppedHolds`, `LiveTokenKeptHolds`, `Truth`, `HonestVerdictsHolds`, `SettledForGoodHolds` |
| `Calls_proofs` | 514 | finitely many users, the initiator and those who may end a call among them | `HealthySparedHolds`, `TimeoutSparesAnsweredHolds`, `OnlyALateAnswerRevivesHolds` |

`Invariance` is `Spec => []IInv`, `TypeCorrect` is `Spec => []TypeOK`, and `XHolds`
is `Spec => []X`, or `Spec => X` for an action property. Where a bound of the model
is a constant it is assumed to be a number, of any size.

**The session.** None of its properties is inductive. That the client never skips
an event depends on what is on the wire, and what may be on the wire depends on
which socket is open and attached. `IInv` says:

* the replay buffer holds the last events without a hole (`Contiguous`);
* the client is never ahead of its own history nor that of the session (`CursorInv`);
* before IDENTIFY nothing has happened to the session, and an unused socket carries
  nothing (`IdleInv`, `UnusedInv`);
* the frames on the client's current socket are in order, each dispatch frame at
  most one ahead of the one before, no live frame after an end; and when that
  socket is the open rider, its wire reaches up to the newest event (`WireInv`).
  The last part makes it safe to dispatch the next event to it;
* only the socket the session rides is open and attached, and a session that is
  disconnected rides none (`RiderInv`).

Each conjunct has a lemma for its step (`BufferStep`, `CursorStep`, `WireStep`,
...), with one step per action below it. `AppendInOrder`, `TailInOrder` and
`CloseInOrder` say what sending, reading and closing do to a wire that is in
order. The refinement follows from `CursorInv` and `WireInv`: a frame that is
read maps to `Deliver` or to a stutter.

**The log.** That numbers are gapless rests on who holds the conversation's row:
`LockInv` says that the holder of the lock is the process whose step is between
allocation and the end of its transaction, and that the number it has taken is
the next one. With it at most one process can commit a message, with that number.
`NonceInv` keeps the nonce of an inserted row free of other messages until its
commit. `SenderInv` is what the share lock on the sender's row is for. `OwnInv`,
`KindInv` and `RootInv` relate a request to the messages it refers to. For the
refinement `WithSeq` picks the message with a number, which `Gapless` shows to be
unique; a commit maps to `Post` and each other step to `Change` or a stutter.

Three facts are proved on top of `IInv`. `RowsLocked`: threads have no circles,
because the root of a message is there before it and so has a lower number
(`ThreadInv`), and the message rows a process has locked are exactly those of the step
it is at (`RowInv`). `DeadlockNeedsBoth` follows, however deep clients nest the
threads: `Deadlocked` speaks of any set of processes that wait for each other. Who
waits for a row waits for the root of the one it holds, which has a lower number, so
that such a chain comes to an end, at one who waits for the conversation: an edit or a
removal of the last message. Whoever holds the conversation and waits is a send,
which waits for the root of its thread. Sends alone, or edits and removals alone, are no circle;
an `edit` and a `remove` that took the conversation before their rows would leave
none. `NoPhantomReplies` needs that the replies of a message are finitely many
(`FiniteInv`): a new reply raises count and replies by one, and a removal takes one
living reply or none away and lowers a count that is not zero.

**The cursors.** What an acknowledgement computed before it waited for the row is
safe because the head it saw is not ahead of today's (`AckInv`). The badge is
exact because the open transaction bumps the members with a row whom it mentions,
and no others (`BumpInv`, for `Warm`, whose rows never go away), and because both
triggers change badge and cursor in one step; that one more mention is one more
is a fact about `Cardinality`. `OnlyStaleAcksLower` uses both bounds: a clamp
lowers a cursor only if the head it uses is behind today's, because the cursor is
not ahead of today's. A cursor that goes back does so through an acknowledgement
of its own member with reads out of date: the two cases of section 5 are all there
are.

**Membership.** `InviteInv`: who redeems an invite holds its row and found a use
left. `DoorInv`: behind a ban, only those are on their way in whom the ban excuses.
`CountInv`: the count of a `fresh` change is the one its commit makes true.
For `LockOrder`, `KindInv` and `LockInv` say what a request at each step can
hold: but for a send, a transfer and an add of several, no request holds the
conversation, and whoever holds a member's row has the conversation to wait for and
nothing else, so a cycle of such requests alone would have to end at one that waits
for a row nobody in it holds. `OwnerInv`, on top of `IInv`, is that of `OneOwner`: as
long as no two transfers overlapped, the owner, if there is one, is the asker of each
transfer under way, whom its commit makes an admin. Overlapping transfers leave two
owners (section 5), which is why `contested` is there. No lost update is claimed of
membership rows: a change of rank decides on ranks it read before its transaction.

**The topic.** The invariant comes in layers, each of which uses the ones before:
`CallInv` (every adder that waits and every way to undo has a callback);
`BusInv`, until trouble: the bus has a set if and only if the manager has one,
the connection listens, or is about to, if and only if there is one, and an empty
topic has a timer; `OrderInv`: the log is numbered, the wire is part of it in its
order, and bodies in flight and events dispatched at once are older than what is
on the wire; `HearInv`: whose membership has been read is a member, or there is a
later removal. `ExactlyOnce` needs all of them: an event counts as on the wire,
in flight or heard, and never as two of these.

**Presence.** That a gateway which is down is named by no row, map or connection
depends on each statement belonging to the gateway of its connection, so the
lemmas go through the statements one at a time. `GoneStaysGone` is the safety half
of `AgesOut`. A device is attended (`Attended`) while a gateway holds it or a statement
that can insert or renew its row is under way: a connection's, a refresh sent before
the device left the map, or an insert of a gateway that is down. Of a device that is
not, each step, including a sweep or a deletion that was late, can only take the row
or its freshness away, and only a new connection makes it attended again; time and
the worker's schedule do the rest. While a statement is under way the row may come
back once more: that is why the property speaks of them.

**The outbox.** `HolderInv`: a row about which there is no doubt is in the batch
of one drain, and while it is pending its claim is fresh. `VerdictInv`: `settledOk`
means delivered, `settledFailed` means no attempt or no device was left.
`TokenInv`: a token found dead is older than the valid one. `TruthInv`: the lists of
a drain are apart, and the row of a list's entry is as the drain left it. With it
`HonestVerdicts` (what the row says is what happened) and `SettledForGood` (and
stays so). Both, and `PushedOnce`, except the rows of a drain that outlived its
claim, threw, crashed or missed the answer to a push.

**The call.** `GhostInv`: who stayed in the room since the reconciliation began is
in the roster it has read, hence not among its ghosts. The timeout's condition on
`ringing` does the rest. `OnlyALateAnswerRevives` says how far "ended" can be
relied on: only an answer that read `ringing` before the end undoes it, and no
call rings twice.

**Beyond the runs.** `DeadlockShape`, `OnlyStaleAcksLower`, `OneOwner`, `GoneStaysGone`, `HonestVerdicts`, `SettledForGood` and
`OnlyALateAnswerRevives` are theorems that no configuration lists. TLC found each
of them to hold on the instance of its module's run (`messages_safety`,
`cursors_safety`, `membership`, `presence`, `push`, `calls`) before it was proved.

**Only model-checked.** Liveness: `DeliveredOrToldSo`, `Answered`, `AgesOut`,
`EverySettles`, `RingStops`, `CorpseCleared`. It rests on fairness and on ENABLED,
which is outside what TLAPS proves. Every other property of a run that passes is
the property of a theorem.

## 5. Where the code disagrees with its comments

Two runs end in a counterexample, in the code's own terms.

* `session_parked_once_closed`: `server.ts` 266 ignores the close event of a
  socket whose handshake has not returned. Nothing parks such a session
  afterwards: neither the sweep nor the resume window ends it. `session.ts` 15
  says that a session is parked when its connection drops.
* `cursors_rest_backwards`: the UPDATE of `POST /:id/read` sets the cursor to what
  it computed from an earlier query (`routes/messages.ts` 469-486).

The following are behaviours of the models, or of the code beside them, that no
run singles out:

* the UPDATE of ReadAck joins the conversation; after waiting for the member's row
  it works with an old head, and its `least` lowers the cursor (`server.ts` 717-735);
* `remove` gives a reply's count back each time it is called, also for a reply
  that is already deleted (`messages.ts` 1383-1397), so a thread with a living
  reply may show zero; the count is guarded at zero, which is why
  `NoPhantomReplies` still holds;
* an edit that read the row before a deletion commits after it, rewrites it and
  announces `MessageUpdate` after `MessageDelete` (`messages.ts` 1207, 1292);
* a revision is the text of the read before the transaction: of two overlapping
  edits the first one's text is in no revision (`messages.ts` 1270-1283);
* `member_count` is wrong after two overlapping changes, until the next one
  (`0002_triggers.sql` 96);
* two adds of the same people, whose clients name them in different orders, deadlock;
  one of them fails (`services/conversations.ts` 375-389);
* a push whose answer is lost is sent again, although the first may have been
  delivered (`apns.ts` 156-160);
* a refresh or an insert that a gateway has sent runs after the device has
  disconnected or the gateway is down, and brings the row back until it expires
  (`presence.ts` 49, 228);
* a transfer to a user without a row leaves the group without an owner, also if
  that user joins before it commits; its checks are made before the transaction,
  so two transfers at once by the same owner leave two
  (`routes/conversations.ts` 1053-1067);
* `NODE_ID` holds the process id and the start time (`env.ts` 42), so the sweep at
  the start of a gateway never finds the rows of the process before it, which
  is what it is there for by its comment (`presence.ts` 34-45);
* a socket that closes during the handshake leaves its device on the gateway's
  map, which then refreshes the row for as long as it lives;
* a session destroyed while it subscribes is added to the topic afterwards, and
  nothing takes it out again; a `conversation.delete` that arrives after the user
  was added once more drops them from the topic; two grace timers may run for one
  topic although the manager keeps one handle (`subscriptions.ts` 141);
* a retry with a nonce that is in flight is answered with a conflict, while
  `docs/ERRORS.md` describes a replay;
* the reconciliation ends calls without the summary that `docs/ARCHITECTURE.md` 200
  promises for every call; the timeout job of a call that is answered while it runs
  marks everybody as `left`, writes a "missed" summary and announces `call.end`
  (`jobs/calls.ts` 44-110), although `routes/calls.ts` 202 says that it does nothing on
  an answered call; a call becomes active also when the initiator joins it
  (`routes/calls.ts` 276), while its line 41 and `ARCHITECTURE.md` 192 want a join
  "by someone other than the initiator"; a stale `/join` sets an ended call active again; two
  simultaneous starts open two calls, and simultaneous joins pass
  `max_participants` (`routes/calls.ts` 116, 243, 276).

## 6. What is not modelled

* Payloads, serialisation, wording, metrics and logs.
* In the gateway: several sessions of one user, each of which is an instance of
  its own; typing, viewing and the announcements of presence to friends; the
  contents of READY; several topics of one session; the sweep of `bus_overflow`.
* In the message service: forwarding, polls, reactions, pins, scheduled
  messages, mention fan-out and disappearing timers; channels' settings. In the
  cursors: the receipts other members see and unread reminders, and the order
  in which acknowledgements publish `ConversationStateUpdate`
  (`routes/messages.ts` 500).
* In membership: the creation and settings of conversations, custom roles and
  permission overrides, join requests, hidden conversations.
* In push: whom a message notifies (mutes, levels, quiet hours), VoIP pushes, a
  token handed from one device to another, devices of several users in a batch.
* In a call: microphone and camera flags, ad-hoc calls without a conversation, a
  second call started at the same moment, and the events that announce a change.
* Real time: windows and timeouts fire at any moment they could.
* Pool exhaustion: `edit` takes a second connection inside its transaction
  (`messages.ts` 1307), so as many concurrent edits as there are connections wait
  for one more.
* The reaction, poll and follower counters (`0002_triggers.sql` 43, 69), which read
  and then write.
* The web client's timeline. Merging a page that was composed earlier with live
  events is where it can lose messages: `store.ts` 690 drops a live message while no
  page is loaded, `MessageUpdate` inserts a row outside the loaded window,
  `loadOlder` stores a list read before it awaited, and `selectConversation` may
  acknowledge the sequence number of a pending row (`store.ts` 281, 1051). A
  faithful model has these outcomes in it, so the properties worth stating
  would be about what survives them.
* Token rotation (`routes/auth.ts` 731-815, `apps/webapp/src/lib/api.ts` 90-135): a
  refresh token is accepted again within a grace window, the client keeps one
  refresh in flight, and two tabs do not share it. The route reads and then
  updates the device: of two overlapping refreshes only one's answer is good
  afterwards, and a client that loses two answers in a row holds a token that is
  neither the current one nor the previous one (`auth.ts` 802).
* What runs on one device or in one statement: key bundles, encryption, profiles,
  search, moderation's forms, rendering, packaging, deployment.

## 7. Plan

Done: the eight detailed modules, their runs and proofs. The event stream and the
log came first because everything a user sees goes through them, then the topics
that join the two, then what depends on members and devices.

Further work, in this order:

1. `Timeline` (web client store and send pipeline): live events, history pages,
   pending sends, retries, jumps. Composed with `ConversationLog` as its server and
   with `EventStream` as its source of events. Properties: no message twice, a
   hole in the loaded window is one of the known ones, a pending row is resolved.
2. `Tokens`: refresh rotation and the client's single refresh in flight. Property: a
   client that follows the answers stays signed in.
3. The other counters, and the reference count of stored media.
4. A second call in `Calls`; membership changes in `ReadCursors`; the bot SDK as a
   second client of `GatewaySession`; several topics of one session in `Topics`.
5. Runs of their own for the theorems that no configuration lists.

## Running

```
tlc -config MessageLog_safety.cfg MCMessageLog.tla
tlapm MessageLog_proofs.tla
```

`PROJECT.json` lists the module and the configuration of every run.
