# TLA+ models of the THChaos backend

The THChaos backend is a relay between one game and several chat bots. The game
opens rounds of voting; bots submit votes (`vote.cast`); the backend checks them,
makes them unique in SQLite, forwards them to the game, and passes the game's
answer (`vote.ack`) back. The game alone counts votes. The backend is one asyncio
process: one event loop, plus the threads SQLite calls run in.

This directory holds TLA+ specifications of its core logic, configurations that
check them with TLC, and proofs checked with TLAPS. Paths below are relative to
`src/thchaos_backend/` unless they begin with `docs/` or `README.md`.

## 1. The system

| Component | State | Operations | Modelled in |
|---|---|---|---|
| Room runtime (`server/hub.py`, `RoomRuntime`) | `game`, `bots`, `active_vote`, `last_closed_round`, `ready`, `has_connected`, `generation`, `pending_casts` | `_register`, `_drop`, the game's messages | `VoteRelay`, `RoomFeed` |
| Vote handler (`_handle_bot`) | local variables across one `await`, `PendingCast` | door checks, `record_vote`, recheck, forward | `VoteRelay` |
| Ending a wait (`_resolve`, `_expire_pending`, ACK) | `pending_casts`, `attempted` | one verdict to the bot, one status to the audit | `VoteRelay`, `AuditStore` |
| Room feed (`_broadcast`, `_send_server_state`) | `state`, `latest_snapshot`, the bots' queues | relaying, greeting, `game.offline` | `RoomFeed` |
| Session (`handle`, `_receive`, `_send_error`) | `inbound_seq`, what the coroutine waits for | handshake, numbers, heartbeats, errors, the end | `Session` |
| Outbound queue and writer (`server/connection.py`) | `_queue`, `outbound_seq`, `closed`, `_writer`, frame in `send_text` | `send`, `_run`, `abort`, `flush`, `close` | `Session` (all of it), `VoteRelay` (the game's), `RoomFeed` (the bots') |
| Rate limit (`_rate_limit`) | `cast_timestamps` | sliding second | `Session` |
| Dispatch and replay window (`_dispatch`) | `RoomRuntime.messages` | idempotency, fatal errors | `Dispatch` |
| Error table (`protocol/errors.py`) | none | which errors end a session | `Session` |
| Audit store (`server/storage.py`) | two SQLite tables, bounded job queue, worker task, `dropped`, `failures` | `record_vote`, `queue_vote_status`, `record_event`, batches, `aclose`, restart | `AuditStore` |
| Payload rules (`protocol/payloads.py`) | none | rules that tie fields together | `Tally` |
| Simulated game (`tools/sim_game.py`) | the round's votes, its position in the script | count, acknowledge, close, report | `Tally` |
| Envelope formats, settings, HTTP endpoints, CLI, `tools/sim_bot.py` | configuration | single-field checks, read-only views, process start | no |

How they interact. Handlers of all connections, the writers, the sweeper and the
audit worker are tasks of one event loop and share the room objects and the audit
queue. A task gives way only at a real suspension: `websocket.receive`,
`send_text`, the SQLite thread of `record_vote` and of the audit batches, sleeps,
and joins of queues. `ClientConnection.send` is declared `async` but never
suspends; neither do `_resolve`, `_drop` and `_broadcast`, which await nothing
else. Hence a game message is handled in one step, while a vote's handler has two
halves around `record_vote`.

What is hard about it, and what must be right:

- a vote's handler uses after `record_vote` what it read before: `generation`
  exists for that;
- a vote can get its verdict from six places: the door, the database, the recheck,
  the ACK, the sweeper, a change of the room (sync, new round, closed round,
  disconnect, overflow); it must be exactly one, and it must agree with whether the
  writer had started on the vote;
- the writer may fail in the middle of a frame; a vote must not be sent twice, not
  even to a game that reconnects or after a restart of the backend;
- the audit gets its updates out of order, loses some, and must still not lie;
- one `message_id` may come twice, on two connections, or with another content;
- a bot joins, reads slowly, overflows and comes back while the game leaves, returns
  and opens rounds: what is queued for it must add up to the room as it is;
- reader and writer of a session wait for each other, and anyone may abort the
  session between any two steps, also before its writer has run at all: numbers,
  `task_done` counts and the last error must still be right, and the session must end.

`PROJECT.json` lists these as hazards, each at its line, with the properties that
cover it, and those that nothing covers yet.

## 2. Modules

```
VotePromise      what bots and game may rely on (abstract)
   ^ refined by
VoteRelay        hub, game connection, vote_attempts  <- MCVoteRelay
                 proofs: VoteRelayTypes -> VoteRelayInvariants -> VoteRelayTheorems
FeedPromise      what bots may rely on about rounds (abstract)
   ^ refined by
RoomFeed         the room, and each bot's queue       <- MCRoomFeed     RoomFeedTheorems
Session          one websocket session                <- MCSession      SessionTheorems
Dispatch         message_id window                    <- MCDispatch     DispatchTheorems
AuditStore       audit queue, worker, tables          <- MCAuditStore   AuditTheorems
Tally            payload rules and simulated game     <- MCTally        TallyTheorems
```

Each module looks at the same process from one side and reduces the others to what
they can do to it. `VoteRelay` composes the hub with the game's queue and writer and
with the rows of the database, `RoomFeed` the hub with all bots' queues and writers,
`Session` one reader with one writer. What one module leaves open another has: a
bot's queue "may be full" in `VoteRelay` and is explicit in `RoomFeed`; "a fatal
error" is any message in `VoteRelay` and `Dispatch` and has its causes in `Session`;
`record_vote` answers anything in `Session` and has its rows in `VoteRelay` and
`AuditStore`.

### VoteRelay

One room (rooms share no state but the database, whose constraints all begin with
`room_id`).

| Variable | Code |
|---|---|
| `game`, `active`, `lastClosed`, `ready`, `hasConnected`, `generation` | fields of `RoomRuntime`; rounds are numbers, 0 is `None` |
| `pending` | `pending_casts`, cast id to submission |
| `conn` | state of each websocket session; `Live` is registered and `not closed` |
| `outq`, `sending` | the game's `_queue` and the frame inside `send_text` |
| `phase`, `job` | where each run of `_handle_bot` stands, and its locals |
| `overdue` | `time.monotonic() >= deadline` |
| `reserved` | rows of `vote_attempts` |
| `attempted` | `PendingCast.attempted`, kept after the vote is forgotten |
| `answers` | verdicts put in the queue of the submitting bot |

A submission is one run of the `vote.cast` handler. Actions: `RegisterGame`,
`RefuseGame`, `ConnectBot` (handshake); `GameSync`, `VoteOpened`, `VoteClosed`,
`VoteAck`, `GameRelays`, `GameGetsReply`, `GameFatal`, `GameLeaves` (`_handle_game`
and what ends the game's session); `WriterSkips`, `WriterStarts`, `WriterFinishes`
(`ClientConnection._run`; a failure is `GameLeaves`); `CastRefused`,
`CastTurnedAway`, `CastAdmitted` (first half of the handler); `DbInserts`,
`DbRefuses`, `DbFails` (the SQLite thread); `ResumeDuplicate`, `ResumeOutdated`,
`ResumeBroken`, `ResumeForwards`, `ResumeOverflows` (second half);
`DeadlinePasses`, `Sweep`; `BotFatal`, `BotWriterFails`, `BotLeaves`; `Restart`.

Details that are easy to miss and are kept: a connection that was aborted while its
handler waits for a message may still handle one (`"dropped"`), because
`while not connection.closed` is tested between messages; `_drop` of the game
resolves votes before anything else can run; every frame to a bot may find its
queue full, and that drops the bot within the same step (`full`); a vote skipped
by the writer takes no sequence number, so it leaves no gap; `ResumeOverflows`
resolves the vote at hand and then all the others.

Abstractions: the choice a vote carries is left out (an ACK that disagrees with its
vote is `GameFatal`); bots' queues are reduced to "may be full"; heartbeats are
among `GameGetsReply`; which errors are fatal is left to the environment
(`GameFatal`, `BotFatal` can happen at any message).

### VotePromise

Three variables: what each submission carries, what was sent, and the verdict.
`Send` needs a submission without verdict and without a rival (same cast id, or
same voter in the same round of the same instance) among those sent; `Conclude`
gives any number of submissions their only verdict, "ack" only to one that was
sent, a refusal only to one that was not. `VoteRelay!KeepsPromise` is the
refinement.

### RoomFeed

`room` holds `state`, `active_vote`, `latest_snapshot` and `last_closed_round`;
`outbox` is every bot's queue. A handler of the game changes the room and queues its
broadcast without suspending, so each message is one action (`GameSync`,
`GameStateChanged`, `VoteOpened`, `VoteSnapshot`, `VoteClosed`, `EffectResolved`;
`GameLeaves` is `_drop` with `game.offline`); `SendsToAll` drops, in the same step,
the bots whose queue cannot take the frame. The votes such a message settles are
answered first: any set of bots may get a reply in front of the broadcast.
`BotJoins` queues the greeting, `WriterSends` hands one frame to the socket.
A game that registers is not announced to bots.

`view`, `heard` and `owed` are history: what a bot that applies every frame believes
(`Reads` takes each for what it did to the room), the first three kinds it was sent, and how many
announcements it has not been sent yet. `Beliefs` is a bot's reading of a whole
queue, frame by frame; `Foreseen` its beliefs after some of the frames queued for it,
`Sights` the rounds it sees on the way. `inherited` says that the room of a
connected game still remembers a round of an earlier session.
`Syncs` is a parameter since `GameSyncPayload` does not tie the active round, the
snapshot and the last closed round to each other.

### FeedPromise

Two variables: `rounds`, what the room keeps but for the game's state, and for each
bot `path`, the rounds it sees now and is going to see. A bot that stays gets every
new state of the rounds at the end of its path, and goes along the path at its own
pace; a bot that cannot be shown a state is cut off. Nothing else may happen to a
path: no state is left out, repeated out of turn, or made up. `RoomFeed!KeepsPromise`
is the refinement: a path is what the bot believes now, followed by what it will
believe after each frame of its queue.

### Session

`reader` is the `await` that `handle` is in; `conn` the `ClientConnection`: state of
the writer task, `closed`, a pending cancellation, the queue, its count of unfinished
frames, the frame in `send_text`, and the outbound numbers taken but not sent.
`Put`, `Abort` and `StopWriter` are `send`, `abort` and the end of `_run` up to its
first `await`; `Ends` is how a message ends: well, with an error and another turn of
the loop, or with a fatal error, `flush` and the `finally` clause (`Finish`).

Actions of the reader: `HelloFails`, `RefusalEnds`, `HelloAccepted` (which includes a
room that does not take the client, and a queue too short for the greeting);
`Unparsed`, `OutOfOrder`, `Message`, `Ping`, `Cast`, `Saved`; `Disconnected`,
`Flushed`, `FlushTimesOut`, `JoinEnds`, `Leave`. Of the writer: `WriterStarts`,
`WriterTakes`, `WriterSent`, `WriterFails`, `WriterCancelled`, `WriterCloses`. Of
others: `RoomSends` (broadcasts, votes, answers), `HubCloses`, `PeerLeaves`, `Tick`.
A cancellation takes effect when the writer runs again; one that reaches the writer
while it closes the socket cuts that short. Time is discrete, `SecondTicks` to the
second, and only for the rate limit; ages of a second and more are one age. Any
other timeout may expire at any moment.

### Tally

The rules of `payloads.py` that relate fields (`OpenedRule`, `AckRule`,
`SnapshotRule`, `ClosedRule`) as predicates, and the script of the simulated game as
the sequence `said` of its messages: `Opens`, `CountsCast` (an ACK and a snapshot),
`Closes`, `Reports` (one effect for each winner), `GivesUp`. An option's text is
nothing but its number, and a list of options is the sequence of their votes. The
script counts for itself, so voters may vote twice here; through this backend a second
vote does not get to the game (`vote_attempts` is unique by voter, `storage.py:60`).
`no_votes_random` is a branch the script never takes: it closes with three votes.

### AuditStore

`status` and `events` are the committed tables, `draft` the open transaction,
`queue`, `batch`, `worker`, `written` the audit queue and its worker. The hub is
reduced to the order in which it can decide about one vote: reserve, give up or
wait, start sending, finish sending, settle, acknowledge. `said`, `sent`, `handled`
and `lost` are history. `RecordVote` excludes an open batch since both hold the
SQLite lock. `Restart` stands for a crash at any point and for a start after a
clean exit. The game is assumed to acknowledge only votes that were handed to its
socket: an ACK for an unknown cast changes the audit row it names, whoever sent it.

### Dispatch

`window` is the OrderedDict of the room, `log` the history of executed messages.
A message's key has its role, the instance it names and its id (`KeysOf`): a game
must name its own instance, a bot may name any, but its vote goes nowhere unless it
is that of the game.
A game message is one step (`GameExecutes`, `GameTooEarly`, `Reuses`, `Fatal`); a
`vote.cast` is `CastArrives` and, after `record_vote`, `CastExecutes` or
`CastRefused`. A message that is refused without closing the connection, or is
ignored as a known one, changes nothing and is a stuttering step. What a full queue
or a failing writer does to another connection is `Leaves` of that connection.
Inbound numbers, the rate limit and malformed messages come before the window is
asked and leave no entry: they are in `Session`.

Operators marked "Mutant" in the modules are plausible bugs, one for each checked
property; they are not part of the specifications. With one of them in place of
the definition below it, TLC finds the property violated.

## 3. Runs

State counts are of the complete state graphs, up to symmetry where it is used.
Symmetric sets are those whose elements no definition tells apart (submissions,
cast ids, voters, bots; ids and contents); it is not used where liveness is checked.

| Run | Instance | Checks | States |
|---|---|---|---|
| `relay` | 2 sessions of one game, 1 bot, 2 submissions, 2 cast ids, 2 voters, queue 2, 3 generations | `Inductive`, `GameSessionLive`, `ForwardedOnce`, `RefusedNeverSent`, `AckedWasSent`, `OneVerdict` | 1.6 M |
| `reconnect` | 2 sessions of two instances, queue 1, 5 generations | `PendingIsCurrent`, `NeverResent` | 1.8 M |
| `rounds` | 1 game, 2 rounds, 2 submissions, 4 generations | `SendsOnlyCurrent`, `KeepsPromise` | 1.1 M |
| `concluded` | 1 game, 1 bot, 2 submissions, fairness | `EveryCastConcluded` | 100 k |
| `result_unknown` | 1 game, 1 vote | violates `UnknownWasSent` | |
| `audit` | 2 votes, 1 message, queue 2, batch 2, 1 ACK, 1 restart, fairness | `TypeOK`, `StatusTruthful`, `Reconciled`, `CleanExit`, `VerdictSticks`, `CloseEnds`, `QueueDrains` | 812 k |
| `same_id` | 1 vote, 2 messages with one id | violates `EventsComplete` | |
| `dispatch` | 2 sessions of one game and 1 of another instance, 1 bot, 3 ids, window 2, 4 executions | `TypeOK`, `WindowIsRecent`, `NoReplay` | 398 k |
| `reused_id` | 1 game, 2 bots, 2 ids, 2 contents, window 2 | violates `SameIdSameContent` | |
| `feed` | 1 instance, 2 bots, queue 3, 2 rounds, 1 sync | `TypeOK`, `RoomIsKnown`, `PhaseIsKnown`, `NothingSkipped`, `FramesFit`, `Greeted`, `ReadyIsOwn`, `KeepsPromise` | 427 k |
| `session` | queue 3, 2 casts a second of 3 ticks, 6 frames, fairness | `TypeOK`, `Exact`, `Contiguous`, `StaysInStep`, `FatalIsAnswered`, `RateExact`, `Closes`, `SessionEnds` | 141 k |
| `tally` | 4 voters, 5 casts, closed at 3 votes | `AlwaysPasses`, `AckedIsCounted`, `RulesKept` | 23 k |

What the runs show is said at each property in the modules; in short: a vote is
concluded once, sent at most once, in its own round and instance, and what its bot
and the audit are told agrees with that (`relay`, `reconnect`, `rounds`, `concluded`,
`audit`); a game's message is executed once as far as the window reaches
(`dispatch`); a bot's queue always brings it to the room as it is, through every state
the rounds were in and in an order that makes sense, or the bot is cut off (`feed`); a session numbers, counts, limits,
answers and ends as it should whoever aborts it and whenever (`session`); what the
simulated game announces is what it acknowledged (`tally`).

Bounds. Two submissions are what it takes for one to replace, duplicate or overtake
the other; a queue of one or two frames makes every overflow happen. One bot is
enough for the relay: submissions of two bots differ from two of one only in whose
disconnection ends which, and the verdicts' theorems hold for any number.
`MaxGeneration` limits how often the room may change between restarts: three changes
are connect, open and one more; five let a game connect, open a round, leave, come
back and open one again. It guards only registrations and the game's messages, never
what the server does by itself, so no cleanup is cut off by a bound. `MaxRound`
limits round numbers, `MaxLog` executed messages, `MaxIn` the numbers of a client's
frames, `MaxAcks`, `MaxRestarts` and `MaxCasts` what their names say. A window of two
with three identifiers makes entries fall out, move to the end, and be replayed
inside and outside the window. A queue of three is the shortest that holds the
greeting of a bot; the next frame overflows it unless the bot has begun to read, so
joining bots, slow ones and those that come back all occur. (A shorter one keeps every
bot out; that case is the theorems' alone.) The one sync of
`MCSyncs` is one that no careful game sends but the payload rules let pass: it forgets
the closed rounds, and has a snapshot of a round that is not the active one. One
instance is enough since a bot that joins without a game is told `Own`, which plays
the stale instance; the theorems hold for any number of instances and for every sync.
`SendsOnlyCurrent` is checked in `rounds`, which has two rounds; that a vote does not
outlive its instance is `PendingIsCurrent` in `reconnect`.
Three ticks are the coarsest second in which casts of equal, different and expired
age meet. Four voters and five casts let a round be tied, be won, and be voted in
twice by one voter.

`CHECK_DEADLOCK FALSE`: sessions, submissions, messages and casts are finite in
number, and one session ends; so these runs stop when they are used up. `feed` has
nothing that runs out, and is checked for deadlock.

Fairness. `concluded` assumes that the SQLite thread answers, that a handler that
can go on is scheduled, that time passes, that the sweeper wakes up (`_sweep` is an
endless loop of sleeps), and that a connection being flushed ends (`flush` has a
timeout, `send_timeout`). `audit` assumes progress of the worker task and its thread
and of `aclose`. `session` assumes that a coroutine or a writer that can go on is
run by the event loop and that every timeout expires (`WF_vars(Proceeds)`,
`WF_vars(Writes)`). Nothing is assumed of games, bots and their sockets: a client may
stay silent for ever. All of it is weak fairness: once such a step is possible, it
stays possible until it is taken or made pointless.

### Where code and documents disagree

- `result_unknown`: `docs/protocol-v1.md:64` says `round.result_unknown` means that
  sending had started. `game.sync` (`hub.py:235`) and the ACK timeout
  (`hub.py:353`) give it also to votes that were still in the queue and are then
  never sent, with `not_sent` in the audit.
- `same_id`: `events` is `UNIQUE(room_id, message_id)` (`storage.py:47`) and filled
  with `INSERT OR IGNORE`, while a message's identity includes role and instance
  (`docs/protocol-v1.md:28`, `hub.py:361`): the record of an accepted message can be
  ignored, and is not counted as lost (`README.md:50`).
- `reused_id`: `README.md:51` says that an id reused with another content is refused.
  Two `vote.cast`s under way at once, with one id and two contents, are both executed,
  since the window is asked before `record_vote` and entered after it
  (`hub.py:382`, `hub.py:396`). Each vote is still unique by cast id and voter.

## 4. Proofs

All theorems hold for every value of the constants that the modules' named
assumptions allow: any numbers of games, bots, submissions, cast ids, voters, ids,
instances and rounds, any limits.

| Module | Theorem | States |
|---|---|---|
| `VoteRelayTheorems` | `TypeCorrect`, `InductiveCorrect` | `TypeOK`, `Inductive` |
| | `GameSessionLiveCorrect` | a room never keeps a closed game |
| | `PendingIsCurrentCorrect` | what waits for an ACK belongs to the room as it is |
| | `ForwardedOnceCorrect` | the game never gets two rivals |
| | `OneVerdictCorrect`, `RefusedNeverSentCorrect`, `AckedWasSentCorrect` | one verdict, which agrees with what was sent |
| | `SendsOnlyCurrentCorrect`, `NeverResentCorrect` | the two action properties |
| | `PromiseKept` | `VoteRelay` implements `VotePromise` |
| `RoomFeedTheorems` | `FeedInvCorrect`, `FeedTypeCorrect` | the invariant, and `TypeOK` |
| | `NothingSkippedCorrect` | no announcement is lost for a bot that stays |
| | `GreetedCorrect` | the greeting comes first |
| | `ReadyIsOwnCorrect` | a ready room remembers no round of an earlier session |
| | `KnownInvCorrect` | the invariant behind the next four |
| | `RoomIsKnownCorrect`, `PhaseIsKnownCorrect` | a bot's queue tells it the room as it is |
| | `FramesFitCorrect` | no frame contradicts what its bot was told |
| | `FeedKeepsPromise` | `RoomFeed` implements `FeedPromise` |
| `SessionTheorems` | `SessionInvCorrect`, `SessionTypeCorrect` | the invariant, and `TypeOK` |
| | `ExactCorrect`, `ContiguousCorrect`, `StaysInStepCorrect` | frames and numbers are counted right |
| | `FatalIsAnsweredCorrect`, `RateExactCorrect` | the last error is sent; the sliding second is exact |
| `DispatchTheorems` | `DispatchInvCorrect`, `DispatchTypeCorrect` | the invariant, and `TypeOK` |
| | `WindowIsRecentCorrect`, `NoReplayCorrect` | the window holds the latest messages; within it nothing is replayed |
| `AuditTheorems` | `AuditInvCorrect`, `AuditTypeCorrect` | the invariant, and `TypeOK` |
| | `StatusTruthfulCorrect`, `ReconciledCorrect`, `CleanExitCorrect`, `VerdictSticksCorrect` | rows do not lie, end at what was decided, and keep verdicts |
| `TallyTheorems` | `TallyInvCorrect` | the invariant |
| | `AlwaysPassesCorrect`, `AckedIsCountedCorrect`, `RulesKeptCorrect` | the three invariants of the run |

Assumptions. `VoteRelay`: every session has an instance, sessions of games and bots
differ, `None` and `Control` are none of the other objects. `AuditStore`: the votes
are finitely many and `None` is not one of them. `RoomFeed`: `None` and `Own` are no
instances, and a sync carries a state a game may have. `Dispatch`: every game has
an instance, games and bots differ. Everywhere: bounds are naturals, limits positive.

The arguments. Hardly any of these properties is inductive alone.

- `VoteRelay`, `Inductive`. That a vote waiting for its ACK is current needs to know,
  of a handler in the SQLite thread, that equal generations mean equal game, round
  and readiness (`HandlerPart`). That a refused vote is never sent needs `QueuePart`:
  a vote stands at most once in a queue, put there by a handler that has finished,
  and has not been started; together with `Valid` (only a pending vote is started)
  and `PendingPart` (a pending vote has no verdict) it also gives `NeverResent`,
  and, with `RowPart`, that rivals are not both sent. `RoomPart` says that the only
  open game connection is the room's. `VoteRelayTypes` proves `TypeOK`,
  `VoteRelayInvariants` has one lemma per part, each by cases on the actions that can
  disturb it; `VoteRelayTheorems` puts them together. The run `relay` checks
  `Inductive` on a small instance.
- `AuditStore`, `AuditInv`. A row is reached by updates in queue, batch and open
  transaction. `RowPart`: each of them is one the vote's history justifies;
  `DraftPart`: the open transaction differs from the table only by the jobs it has
  written; `AccountPart`: what was said of a vote without losses is in its row or on
  its way, so that the row ends right in any order; `EndPart` and `StagePart` say
  when a vote can be open no more, which `CleanExit` needs.
- `Session`, `SessionInv`. `Sound` is about the connection alone and preserved by
  every operator on it, whoever calls. `OwedPart`: an error that is owed is in the
  queue of an open connection that somebody flushes; so `flush` ends only when it
  went out or was excused. `RatePart`: stamps are in the order of their age, said as
  "for each age, the older ones are a prefix", since then dropping from the left
  drops exactly the old ones, and what is left are the casts of the last second.
- `RoomFeed`, `FeedInv`. `Line` is about one bot: the greeting is what it was sent
  followed by what is queued, and the announcements due are counted by position, so
  that a frame sent moves every position by one and loses the first. `ReadyInv` is
  separate: before the first game a room is blank.
- `RoomFeed`, `KnownInv`. What a bot makes of its queue is a recursive function of
  it, and a theorem about all queues seems to need an induction whose hypothesis is
  an operator. `NumbersOneByOne` does without: a set of numbers that has 0 and every
  successor of its own has them all, by counting the missing ones, which are
  finitely many. From it follows that the beliefs along a queue are the only trail
  of readings that begins at what the bot believes (`BeliefsAreTrail`, `OneTrail`).
  A trail grows by one reading when a frame is queued and loses its first when one is
  sent (`TrailGrows`, `TrailShrinks`), and so do the sights of the refinement
  (`SightsGrow`, `SightsShrink`). `ViewPart` says that every bot's trail ends at the
  room and makes sense at each frame. It is preserved because an announcement means
  to a bot that knows the room what it meant to the room (`NewsIsTrue`), which for
  `game.offline` needs `RoundPart`: without a game the room is offline and has no
  active round, so that joining bots are told no round of a game that is gone. TLC
  checked both parts on the instance of `feed` before they were proved.
- `Dispatch`, `DispatchInv`. `WindowIsRecent` alone gives no bound on what was
  forgotten; `NoReplay` follows as a message that fell out of the window has
  `WindowLimit` later ones, all different, after it. `EpochPart` ties executions to
  sessions of the game: its first `game.sync` only is executed anew.
- `Tally`, `TallyInv`. The votes are those of the acknowledged voters (`AckPart`);
  counting by option and by voter is the same (`CountsTotal`); there is one result,
  made of those votes (`StagePart`, `EventPart`).

Only model-checked: liveness (`EveryCastConcluded`, `CloseEnds`, `QueueDrains`,
`Closes`, `SessionEnds`), as fairness and ENABLED are out of the prover's reach. Every
other property of a passing run is stated by a theorem.

## 5. Not modelled, and why

- Several processes on one database: the code forbids it (class comment of `Hub`).
- Contents of messages in the relay, choices, effects: the backend passes them on.
- Formats of single fields (`payloads.py`, `envelope.py`, `types.py`): a message
  parses or not; how the session goes on is in `Session`.
- `retryable` and the texts of errors: the server never reads them.
- Tokens and settings: a hello is accepted or not; limits are constants.
- Reading endpoints, metrics, CLI: they change nothing. `Hub.close` is `HubCloses`
  and `BeginClose`.
- Clients. The simulated bot (`tools/sim_bot.py`) follows only `vote.opened` and
  `vote.closed` and throws its greeting away; `Reads` is an observer of the feed, and
  no model of it. What `RoomFeed` states of a bot's knowledge is what the backend has
  told it, not what a client makes of it. Of `sim_bot.py` only `Greeting` is used: it
  takes three frames before it acts on any.
- Cancelled handlers at process exit: `Restart` covers a stop at any point.

## 6. Plan

1. Abstract specifications of the audit (a row is what was last said of its vote, or
   open) and of the replay window (a bag of executions without it), with `AuditStore`
   and `Dispatch` shown to implement them from the invariants of section 4.
2. The voter's slot: a vote that was saved and then found outdated keeps its row
   (`hub.py:325`), so its voter is refused in that round. The row is what makes
   retries safe; what a voter can still do is not stated as a property.
3. `Session` composed with `RoomFeed`: abort and cancellation of a bot's writer in the
   middle of a broadcast are now one step in the latter. The product is too large for
   one run with two bots; one bot and a queue of three should do.
4. `VoteRelay` with two bots and two cast ids is beyond a run of a few minutes; it
   rests on the theorems. The database and the audit could be composed with it, so
   that `Reconciled` is stated from the verdicts the bots got.
