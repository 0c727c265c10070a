------------------------------ MODULE VoteRelay ------------------------------
(***************************************************************************)
(* The life of a vote inside the hub (server/hub.py): a bot submits        *)
(* vote.cast, the vote is reserved in SQLite, queued for the game, written *)
(* by the game connection's writer task, and answered by the game's        *)
(* vote.ack, by a round.* error, or by the sweeper.  One room is modelled: *)
(* rooms share no state.                                                   *)
(*                                                                         *)
(* The program is one asyncio event loop, so everything between two real   *)
(* suspension points is one action here.  A vote.cast handler is split     *)
(* where it suspends, at the SQLite thread; the writer is split at         *)
(* send_text; the game's handler never suspends inside one message.        *)
(*                                                                         *)
(* The outbound queue of the game is modelled frame by frame, because      *)
(* votes wait in it.  Of a bot's queue only one fact matters here: a frame *)
(* for a bot may find the queue full, and then that bot is dropped in the  *)
(* same step.  The sets named "full" choose which bots that happens to.    *)
(*                                                                         *)
(* An operator marked "Mutant" is not part of the specification: put in    *)
(* place of the definition below it, it must break the property it names.  *)
(***************************************************************************)
EXTENDS Naturals, Sequences, FiniteSets

CONSTANTS
  Games,         \* game connections (one websocket session each)
  Bots,          \* bot connections (one websocket session each)
  Subs,          \* submissions: one run of the vote.cast handler each
  CastIds,       \* client-chosen vote identifiers
  Voters,        \* pseudonymous voter identifiers
  Instances,     \* game_instance_id values
  InstanceOf,    \* the instance a game connection authenticated with
  MaxRound,      \* bound: the rounds a game uses are 1 .. MaxRound
  MaxGeneration, \* bound: game messages and registrations stop at this generation
  QueueLimit,    \* Settings.outbound_queue_size, for the game's queue
  MaxBots,       \* Settings.max_bots_per_room
  None,          \* "no such object"
  Control        \* any frame to the game that is not a vote

ASSUME InstanceAssumption == InstanceOf \in [Games -> Instances]

ASSUME BoundAssumption ==
  /\ MaxRound \in Nat
  /\ MaxGeneration \in Nat
  /\ QueueLimit \in Nat \ {0}
  /\ MaxBots \in Nat

Rounds == 1 .. MaxRound

Codes == { "game_offline", "game_instance_mismatch", "not_open", "stale",
           "closed", "duplicate_vote", "turned_away", "result_unknown", "ack" }

\* The codes that tell a bot its vote was not forwarded.
Refusals == Codes \ {"result_unknown", "ack"}

\* What one run of the handler holds in its local variables, PendingCast included.
Jobs == [ cast : CastIds, voter : Voters, round : Rounds, instance : Instances,
          bot : Bots, game : Games, generation : Nat ]

\* The part of it that the bot chose.
Ballots == [ cast : CastIds, voter : Voters, round : Rounds, instance : Instances ]

ASSUME DistinctAssumption ==
  /\ Games \cap Bots = {}
  /\ None \notin Games \cup Bots \cup Subs \cup CastIds \cup {Control} \cup Jobs \cup Ballots
  /\ Control \notin Subs

VARIABLES
  game,          \* RoomRuntime.game
  active,        \* RoomRuntime.active_vote: its round, 0 when there is none
  lastClosed,    \* RoomRuntime.last_closed_round, 0 when there is none
  ready,         \* RoomRuntime.ready
  hasConnected,  \* RoomRuntime.has_connected
  generation,    \* RoomRuntime.generation
  pending,       \* RoomRuntime.pending_casts: cast id -> submission
  conn,          \* state of every websocket session
  outq,          \* outbound queue of each game connection
  sending,       \* frame the game's writer has handed to send_text
  phase,         \* where each run of the vote.cast handler stands
  job,           \* its local variables
  overdue,       \* submissions whose ACK deadline has passed
  reserved,      \* rows of vote_attempts (the content of a row is its job)
  attempted,     \* PendingCast.attempted: submissions whose sending started
  answers        \* verdicts queued to the submitting bot, in order

room == <<game, active, lastClosed, ready, hasConnected, generation>>
wire == <<outq, sending>>
vars == <<room, pending, conn, wire, phase, job, overdue, reserved, attempted, answers>>

-----------------------------------------------------------------------------
(* Helpers *)

\* "rejected": the handshake failed, its error is being flushed.
\* "flushing": a fatal error is queued and the handler waits for the queue.
\* "dropped": closed by the writer or an overflow while its handler waits for
\* a message: it may still handle one.  "gone": closed, and no message of it
\* will be handled any more.
ConnStates == {"new", "rejected", "open", "flushing", "dropped", "gone"}

Live(x) == conn[x] \in {"open", "flushing"}

\* room.bots: registered when the handshake succeeds, discarded by _drop.
RoomBots == {b \in Bots : Live(b)}

\* The handler of submission s has not finished.
Running(s) == phase[s] \in {"saving", "saved", "refused", "broken"}

\* A bot's messages are handled one after the other.
Busy(b) == \E s \in Subs : Running(s) /\ job[s].bot = b

Pendings == {pending[c] : c \in CastIds} \ {None}

\* Mutant: _resolve ignores pending.attempted (RefusedNeverSent, KeepsPromise).
VerdictForBlind(s, code) == code

\* _resolve: once the writer has started on a vote, no refusal may be given.
VerdictFor(s, code) == IF s \in attempted THEN "result_unknown" ELSE code

\* What a closed bot becomes: "while not connection.closed" is only tested
\* between two messages.
Closed(b) == IF conn[b] = "open" /\ ~Busy(b) THEN "dropped" ELSE "gone"

\* _drop of bots whose queue overflowed during this step.
Drop(full) == [x \in Games \cup Bots |-> IF x \in full THEN Closed(x) ELSE conn[x]]

\* The verdict reaches the queue of the submitting bot if that bot is still there.
Answered(S, code, full) ==
  [s \in Subs |-> IF s \in S /\ Live(job[s].bot) /\ job[s].bot \notin full
                  THEN Append(answers[s], VerdictFor(s, code))
                  ELSE answers[s]]

\* Mutant: _resolve leaves the vote in pending_casts (OneVerdict).
ForgottenNot(S) == pending

Forgotten(S) == [c \in CastIds |-> IF pending[c] \in S THEN None ELSE pending[c]]

\* _resolve for every submission of S.
Resolve(S, code, full) ==
  /\ answers' = Answered(S, code, full)
  /\ pending' = Forgotten(S)

\* One verdict to the bot of submission s.
ReplyTo(s, code, full) ==
  /\ full \subseteq {job[s].bot}
  /\ answers' = [answers EXCEPT ![s] = IF Live(job[s].bot) /\ job[s].bot \notin full
                                       THEN Append(@, code) ELSE @]
  /\ conn' = Drop(full)

\* _drop of the room's game: every pending vote is resolved, every bot is told.
GoOffline(g, S, full) ==
  /\ game' = None
  /\ ready' = FALSE
  /\ active' = 0
  /\ generation' = generation + 1
  /\ UNCHANGED <<lastClosed, hasConnected>>
  /\ Resolve(S, "game_offline", full)
  /\ conn' = [Drop(full) EXCEPT ![g] = "gone"]
  /\ outq' = [outq EXCEPT ![g] = <<>>]
  /\ sending' = [sending EXCEPT ![g] = None]

\* Mutant: the aborted connection is not dropped (GameSessionLive).
ToGameAborts(g, next, full) ==
  /\ UNCHANGED <<room, pending, sending, answers>>
  /\ IF Len(outq[g]) < QueueLimit
     THEN outq' = [outq EXCEPT ![g] = Append(@, Control)] /\ conn' = [conn EXCEPT ![g] = next]
     ELSE outq' = [outq EXCEPT ![g] = <<>>] /\ conn' = [Drop(full) EXCEPT ![g] = "gone"]

\* ClientConnection.send of a frame that is not a vote to the room's game;
\* a full queue aborts the connection and the caller drops it.
ToGame(g, next, full) ==
  IF Len(outq[g]) < QueueLimit
  THEN /\ outq' = [outq EXCEPT ![g] = Append(@, Control)]
       /\ conn' = [conn EXCEPT ![g] = next]
       /\ UNCHANGED <<room, pending, sending, answers>>
  ELSE GoOffline(g, Pendings, full)

-----------------------------------------------------------------------------
(* Handshake *)

RegisterGame(g) ==
  /\ conn[g] = "new"
  /\ game = None
  /\ generation < MaxGeneration
  /\ game' = g
  /\ ready' = ~hasConnected
  /\ hasConnected' = TRUE
  /\ generation' = generation + 1
  /\ conn' = [conn EXCEPT ![g] = "open"]
  /\ outq' = [outq EXCEPT ![g] = <<Control>>]
  /\ UNCHANGED <<active, lastClosed, pending, sending, phase, job, overdue,
                 reserved, attempted, answers>>

\* A second game gets auth.game_already_connected, never becomes the room's.
RefuseGame(g) ==
  /\ conn[g] = "new"
  /\ game # None
  /\ conn' = [conn EXCEPT ![g] = "rejected"]
  /\ UNCHANGED <<room, pending, wire, phase, job, overdue, reserved, attempted, answers>>

ConnectBot(b) ==
  /\ conn[b] = "new"
  /\ conn' = [conn EXCEPT ![b] = IF Cardinality(RoomBots) < MaxBots THEN "open" ELSE "rejected"]
  /\ UNCHANGED <<room, pending, wire, phase, job, overdue, reserved, attempted, answers>>

-----------------------------------------------------------------------------
(* Messages of the game.  conn[g] = "open" says its handler is reading. *)

\* game.sync replaces the room's view of the game, whatever it was.
GameSync(g, round, closedRound, full) ==
  /\ conn[g] = "open" /\ game = g
  /\ generation < MaxGeneration
  /\ generation' = generation + 1
  /\ active' = round
  /\ lastClosed' = closedRound
  /\ ready' = TRUE
  /\ Resolve(Pendings, "result_unknown", full)
  /\ conn' = Drop(full)
  /\ UNCHANGED <<game, hasConnected, wire, phase, job, overdue, reserved, attempted>>

VoteOpened(g, round, full) ==
  /\ conn[g] = "open" /\ game = g /\ ready
  /\ round > lastClosed
  /\ round > active
  /\ generation < MaxGeneration
  /\ generation' = generation + 1
  /\ active' = round
  /\ Resolve(Pendings, "stale", full)
  /\ conn' = Drop(full)
  /\ UNCHANGED <<game, lastClosed, ready, hasConnected, wire, phase, job, overdue,
                 reserved, attempted>>

\* Mutant: the generation is left alone (Inductive).
VoteClosedQuietly(g, full) ==
  /\ conn[g] = "open" /\ game = g /\ ready
  /\ active # 0
  /\ active' = 0
  /\ lastClosed' = active
  /\ Resolve(Pendings, "closed", full)
  /\ conn' = Drop(full)
  /\ UNCHANGED <<game, ready, hasConnected, generation, wire, phase, job, overdue, reserved,
                 attempted>>

VoteClosed(g, full) ==
  /\ conn[g] = "open" /\ game = g /\ ready
  /\ active # 0
  /\ generation < MaxGeneration
  /\ generation' = generation + 1
  /\ active' = 0
  /\ lastClosed' = active
  /\ Resolve(Pendings, "closed", full)
  /\ conn' = Drop(full)
  /\ UNCHANGED <<game, ready, hasConnected, wire, phase, job, overdue, reserved, attempted>>

\* Mutant: the ACK of a vote that was not sent is accepted (AckedWasSent).
VoteAckUnsent(g, c, full) ==
  /\ conn[g] = "open" /\ game = g /\ ready
  /\ pending[c] # None
  /\ job[pending[c]].instance = InstanceOf[g]
  /\ pending' = [pending EXCEPT ![c] = None]
  /\ ReplyTo(pending[c], "ack", full)
  /\ UNCHANGED <<room, wire, phase, job, overdue, reserved, attempted>>

\* vote.ack for a pending vote, agreeing with it in round and choice.  An ACK
\* for no pending vote changes the audit only; one that disagrees, or comes
\* before the vote was sent, is a fatal error (GameFatal).
VoteAck(g, c, full) ==
  /\ conn[g] = "open" /\ game = g /\ ready
  /\ pending[c] # None
  /\ job[pending[c]].instance = InstanceOf[g]
  /\ pending[c] \in attempted
  /\ pending' = [pending EXCEPT ![c] = None]
  /\ ReplyTo(pending[c], "ack", full)
  /\ UNCHANGED <<room, wire, phase, job, overdue, reserved, attempted>>

\* game.state_changed, vote.snapshot, effect.resolved: relayed to the bots.  What
\* the first two leave in the room no vote depends on (it is in RoomFeed).
GameRelays(g, full) ==
  /\ conn[g] = "open" /\ game = g /\ ready
  /\ conn' = Drop(full)
  /\ UNCHANGED <<room, pending, wire, phase, job, overdue, reserved, attempted, answers>>

\* heartbeat.ping, or a message refused with an error that is not fatal.
GameGetsReply(g, full) ==
  /\ conn[g] = "open" /\ game = g
  /\ ToGame(g, "open", full)
  /\ UNCHANGED <<phase, job, overdue, reserved, attempted>>

\* Any error that closes the connection: malformed, mismatched or too early.
GameFatal(g, full) ==
  /\ conn[g] = "open" /\ game = g
  /\ ToGame(g, "flushing", full)
  /\ UNCHANGED <<phase, job, overdue, reserved, attempted>>

\* The game disconnects, its flush ends, or its writer fails or times out.
GameLeaves(g, full) ==
  /\ game = g
  /\ GoOffline(g, Pendings, full)
  /\ UNCHANGED <<phase, job, overdue, reserved, attempted>>

\* _drop of a game connection that is not the room's leaves the room alone.
RejectedGameLeaves(g) ==
  /\ conn[g] = "rejected"
  /\ conn' = [conn EXCEPT ![g] = "gone"]
  /\ UNCHANGED <<room, pending, wire, phase, job, overdue, reserved, attempted, answers>>

-----------------------------------------------------------------------------
(* The game's writer task *)

\* Mutant: a queued vote is sent whatever became of it (SendsOnlyCurrent).
ValidForGame(s, g) == game = g

\* The closure "valid" of a queued vote.
Valid(s, g) ==
  /\ game = g
  /\ generation = job[s].generation
  /\ pending[job[s].cast] = s
  /\ s \notin overdue

\* A vote that is no longer valid leaves the queue without a sequence number.
WriterSkips(g) ==
  /\ game = g /\ sending[g] = None /\ outq[g] # <<>>
  /\ Head(outq[g]) # Control
  /\ ~Valid(Head(outq[g]), g)
  /\ outq' = [outq EXCEPT ![g] = Tail(@)]
  /\ UNCHANGED <<room, pending, conn, sending, phase, job, overdue, reserved, attempted, answers>>

WriterStarts(g) ==
  /\ game = g /\ sending[g] = None /\ outq[g] # <<>>
  /\ Head(outq[g]) # Control => Valid(Head(outq[g]), g)
  /\ outq' = [outq EXCEPT ![g] = Tail(@)]
  /\ sending' = [sending EXCEPT ![g] = Head(outq[g])]
  /\ attempted' = attempted \cup ({Head(outq[g])} \ {Control})
  /\ UNCHANGED <<room, pending, conn, phase, job, overdue, reserved, answers>>

\* Mutant: a frame whose sending failed is queued again (NeverResent).
WriterRetries(g) ==
  /\ game = g /\ sending[g] # None
  /\ sending' = [sending EXCEPT ![g] = None]
  /\ \E again \in BOOLEAN :
       outq' = IF again /\ outq[g] = <<>> THEN [outq EXCEPT ![g] = <<sending[g]>>] ELSE outq
  /\ UNCHANGED <<room, pending, conn, phase, job, overdue, reserved, attempted, answers>>

WriterFinishes(g) ==
  /\ game = g /\ sending[g] # None
  /\ sending' = [sending EXCEPT ![g] = None]
  /\ UNCHANGED <<room, pending, conn, outq, phase, job, overdue, reserved, attempted, answers>>

-----------------------------------------------------------------------------
(* The vote.cast handler *)

\* The handler of bot b takes submission s from the socket.  A dropped
\* connection may still have one message to handle before its loop ends.
Receives(b, s) ==
  /\ conn[b] \in {"open", "dropped"}
  /\ ~Busy(b)
  /\ phase[s] = "idle"

AfterReceive(b, full) ==
  [conn EXCEPT ![b] = IF conn[b] = "dropped" \/ b \in full THEN "gone" ELSE @]

\* The checks made before SQLite is asked, in their order.
DoorCode(round, instance) ==
  IF game = None THEN "game_offline"
  ELSE IF InstanceOf[game] # instance THEN "game_instance_mismatch"
  ELSE IF ~ready \/ active = 0 THEN "not_open"
  ELSE IF round # active THEN "stale"
  ELSE "admitted"

Refuse(b, s, code, full) ==
  /\ phase' = [phase EXCEPT ![s] = "done"]
  /\ answers' = [answers EXCEPT ![s] = IF Live(b) /\ b \notin full THEN Append(@, code) ELSE @]
  /\ conn' = AfterReceive(b, full)
  /\ UNCHANGED <<room, pending, wire, job, overdue, reserved, attempted>>

CastRefused(b, s, round, instance, full) ==
  /\ Receives(b, s)
  /\ DoorCode(round, instance) # "admitted"
  /\ Refuse(b, s, DoorCode(round, instance), full)

\* _dispatch turns the message away: rate limit, or its message_id was used.
CastTurnedAway(b, s, full) ==
  /\ Receives(b, s)
  /\ Refuse(b, s, "turned_away", full)

\* The vote passes the door; the handler waits for the SQLite thread.
CastAdmitted(b, s, cast, voter, round, instance) ==
  /\ Receives(b, s)
  /\ DoorCode(round, instance) = "admitted"
  /\ phase' = [phase EXCEPT ![s] = "saving"]
  /\ job' = [job EXCEPT ![s] =
       [cast |-> cast, voter |-> voter, round |-> round, instance |-> instance,
        bot |-> b, game |-> game, generation |-> generation]]
  /\ conn' = AfterReceive(b, {})
  /\ UNCHANGED <<room, pending, wire, overdue, reserved, attempted, answers>>

\* The two UNIQUE constraints of vote_attempts.
Conflict(s, t) ==
  \/ job[s].cast = job[t].cast
  \/ /\ job[s].instance = job[t].instance
     /\ job[s].round = job[t].round
     /\ job[s].voter = job[t].voter

\* Mutant: the table has no UNIQUE constraint (ForwardedOnce).
DbInsertsAnyway(s) ==
  /\ phase[s] = "saving"
  /\ reserved' = reserved \cup {s}
  /\ phase' = [phase EXCEPT ![s] = "saved"]
  /\ UNCHANGED <<room, pending, conn, wire, job, overdue, attempted, answers>>

DbInserts(s) ==
  /\ phase[s] = "saving"
  /\ \A t \in reserved : ~Conflict(s, t)
  /\ reserved' = reserved \cup {s}
  /\ phase' = [phase EXCEPT ![s] = "saved"]
  /\ UNCHANGED <<room, pending, conn, wire, job, overdue, attempted, answers>>

DbRefuses(s) ==
  /\ phase[s] = "saving"
  /\ \E t \in reserved : Conflict(s, t)
  /\ phase' = [phase EXCEPT ![s] = "refused"]
  /\ UNCHANGED <<room, pending, conn, wire, job, overdue, reserved, attempted, answers>>

DbFails(s) ==
  /\ phase[s] = "saving"
  /\ phase' = [phase EXCEPT ![s] = "broken"]
  /\ UNCHANGED <<room, pending, conn, wire, job, overdue, reserved, attempted, answers>>

Finish(s) == phase' = [phase EXCEPT ![s] = "done"]

\* Mutant: only the game is compared, not the generation (PendingIsCurrent).
OutdatedByGame(s) == game # job[s].game \/ ~Live(job[s].bot) \/ s \in overdue

\* What the handler compares with the room it read before the await.
Outdated(s) ==
  \/ game # job[s].game
  \/ ~Live(job[s].bot)
  \/ generation # job[s].generation
  \/ s \in overdue

ResumeDuplicate(s, full) ==
  /\ phase[s] = "refused"
  /\ Finish(s)
  /\ ReplyTo(s, "duplicate_vote", full)
  /\ UNCHANGED <<room, pending, wire, job, overdue, reserved, attempted>>

ResumeOutdated(s, full) ==
  /\ phase[s] = "saved"
  /\ Outdated(s)
  /\ Finish(s)
  /\ ReplyTo(s, "stale", full)
  /\ UNCHANGED <<room, pending, wire, job, overdue, reserved, attempted>>

\* SQLite failed: the bot gets server.internal_error and is disconnected.
ResumeBroken(s, full) ==
  /\ phase[s] = "broken"
  /\ full \subseteq {job[s].bot}
  /\ Finish(s)
  /\ conn' = [Drop(full) EXCEPT ![job[s].bot] = IF @ = "open" THEN "flushing" ELSE @]
  /\ UNCHANGED <<room, pending, wire, job, overdue, reserved, attempted, answers>>

ResumeForwards(s) ==
  /\ phase[s] = "saved"
  /\ ~Outdated(s)
  /\ Len(outq[game]) < QueueLimit
  /\ Finish(s)
  /\ pending' = [pending EXCEPT ![job[s].cast] = s]
  /\ outq' = [outq EXCEPT ![game] = Append(@, s)]
  /\ UNCHANGED <<room, conn, sending, job, overdue, reserved, attempted, answers>>

\* The game's queue is full: this vote, then all others, are resolved as
\* game_offline and the game is dropped.
ResumeOverflows(s, full) ==
  /\ phase[s] = "saved"
  /\ ~Outdated(s)
  /\ Len(outq[game]) = QueueLimit
  /\ Finish(s)
  /\ GoOffline(game, Pendings \cup {s}, full)
  /\ UNCHANGED <<job, overdue, reserved, attempted>>

-----------------------------------------------------------------------------
(* Time, bots leaving, restart *)

DeadlinePasses(s) ==
  /\ phase[s] \in {"saving", "saved"} \/ s \in Pendings
  /\ s \notin overdue
  /\ overdue' = overdue \cup {s}
  /\ UNCHANGED <<room, pending, conn, wire, phase, job, reserved, attempted, answers>>

\* Mutant: only votes whose sending started time out (EveryCastConcluded).
SweepStarted(full) ==
  /\ Pendings \cap overdue \cap attempted # {}
  /\ full \subseteq {job[s].bot : s \in Pendings \cap overdue}
  /\ Resolve(Pendings \cap overdue \cap attempted, "result_unknown", full)
  /\ conn' = Drop(full)
  /\ UNCHANGED <<room, wire, phase, job, overdue, reserved, attempted>>

\* _expire_pending resolves everything that is overdue, in one go.
Sweep(full) ==
  /\ Pendings \cap overdue # {}
  /\ full \subseteq {job[s].bot : s \in Pendings \cap overdue}
  /\ Resolve(Pendings \cap overdue, "result_unknown", full)
  /\ conn' = Drop(full)
  /\ UNCHANGED <<room, wire, phase, job, overdue, reserved, attempted>>

\* The bot sends something fatal; the error may find its queue full.
BotFatal(b, full) ==
  /\ conn[b] = "open" /\ ~Busy(b)
  /\ conn' = [conn EXCEPT ![b] = IF b \in full THEN "gone" ELSE "flushing"]
  /\ UNCHANGED <<room, pending, wire, phase, job, overdue, reserved, attempted, answers>>

\* The bot's writer fails or times out, whatever its handler is doing.
BotWriterFails(b) ==
  /\ Live(b)
  /\ conn' = [conn EXCEPT ![b] = Closed(b)]
  /\ UNCHANGED <<room, pending, wire, phase, job, overdue, reserved, attempted, answers>>

\* The handler of the bot ends: disconnected, flushed, or its socket closed.
BotLeaves(b) ==
  /\ conn[b] \in {"rejected", "open", "flushing", "dropped"}
  /\ ~Busy(b)
  /\ conn' = [conn EXCEPT ![b] = "gone"]
  /\ UNCHANGED <<room, pending, wire, phase, job, overdue, reserved, attempted, answers>>

\* The process stops and is started again on the same database.
Restart ==
  /\ game' = None
  /\ active' = 0
  /\ lastClosed' = 0
  /\ ready' = FALSE
  /\ hasConnected' = FALSE
  /\ generation' = 0
  /\ pending' = [c \in CastIds |-> None]
  /\ conn' = [x \in Games \cup Bots |-> IF conn[x] = "new" THEN "new" ELSE "gone"]
  /\ outq' = [g \in Games |-> <<>>]
  /\ sending' = [g \in Games |-> None]
  /\ phase' = [s \in Subs |-> IF phase[s] = "idle" THEN "idle" ELSE "done"]
  /\ overdue' = {}
  /\ UNCHANGED <<job, reserved, attempted, answers>>

-----------------------------------------------------------------------------

Init ==
  /\ game = None /\ active = 0 /\ lastClosed = 0
  /\ ready = FALSE /\ hasConnected = FALSE /\ generation = 0
  /\ pending = [c \in CastIds |-> None]
  /\ conn = [x \in Games \cup Bots |-> "new"]
  /\ outq = [g \in Games |-> <<>>]
  /\ sending = [g \in Games |-> None]
  /\ phase = [s \in Subs |-> "idle"]
  /\ job = [s \in Subs |-> None]
  /\ overdue = {} /\ reserved = {} /\ attempted = {}
  /\ answers = [s \in Subs |-> <<>>]

GameActs(g) ==
  \/ RegisterGame(g)
  \/ RefuseGame(g)
  \/ RejectedGameLeaves(g)
  \/ \E full \in SUBSET RoomBots :
       \/ \E r, l \in 0 .. MaxRound : GameSync(g, r, l, full)
       \/ \E r \in Rounds : VoteOpened(g, r, full)
       \/ VoteClosed(g, full)
       \/ \E c \in CastIds : VoteAck(g, c, full)
       \/ GameRelays(g, full)
       \/ GameGetsReply(g, full)
       \/ GameFatal(g, full)
       \/ GameLeaves(g, full)

WriterActs(g) == WriterSkips(g) \/ WriterStarts(g) \/ WriterFinishes(g)

BotActs(b) ==
  \/ ConnectBot(b)
  \/ BotWriterFails(b)
  \/ BotLeaves(b)
  \/ \E full \in SUBSET {b} :
       \/ BotFatal(b, full)
       \/ \E s \in Subs, r \in Rounds, i \in Instances : CastRefused(b, s, r, i, full)
       \/ \E s \in Subs : CastTurnedAway(b, s, full)
  \/ \E s \in Subs, c \in CastIds, v \in Voters, r \in Rounds, i \in Instances :
       CastAdmitted(b, s, c, v, r, i)

DbActs(s) == DbInserts(s) \/ DbRefuses(s) \/ DbFails(s)

Resume(s) ==
  \/ ResumeForwards(s)
  \/ \E full \in SUBSET RoomBots :
       \/ ResumeDuplicate(s, full)
       \/ ResumeOutdated(s, full)
       \/ ResumeBroken(s, full)
       \/ ResumeOverflows(s, full)

SweepActs == \E full \in SUBSET RoomBots : Sweep(full)

Next ==
  \/ \E g \in Games : GameActs(g) \/ WriterActs(g)
  \/ \E b \in Bots : BotActs(b)
  \/ \E s \in Subs : DbActs(s) \/ Resume(s) \/ DeadlinePasses(s)
  \/ SweepActs
  \/ Restart

Spec == Init /\ [][Next]_vars

-----------------------------------------------------------------------------
(* Properties *)

\* Every variable holds a value the program can hold.
TypeOK ==
  /\ game \in Games \cup {None}
  /\ active \in 0 .. MaxRound
  /\ lastClosed \in 0 .. MaxRound
  /\ ready \in BOOLEAN
  /\ hasConnected \in BOOLEAN
  /\ generation \in Nat
  /\ pending \in [CastIds -> Subs \cup {None}]
  /\ conn \in [Games \cup Bots -> ConnStates]
  /\ outq \in [Games -> Seq(Subs \cup {Control})]
  /\ sending \in [Games -> Subs \cup {Control, None}]
  /\ phase \in [Subs -> {"idle", "saving", "saved", "refused", "broken", "done"}]
  /\ job \in [Subs -> Jobs \cup {None}]
  /\ \A s \in Subs : Running(s) => job[s] \in Jobs
  /\ overdue \subseteq Subs
  /\ reserved \subseteq Subs
  /\ attempted \subseteq Subs
  /\ answers \in [Subs -> Seq(Codes)]

\* The room's game is always a connection that is still open: every path that
\* closes it (writer failure, overflow, disconnect, fatal error) takes the room
\* offline in the same step.
GameSessionLive ==
  /\ game # None => Live(game)
  /\ ready => game # None
  /\ active # 0 => game # None

\* A vote waiting for its ACK belongs to the room as it is now: every change of
\* game, round or readiness resolves it in the same step (the generation rule).
PendingIsCurrent ==
  \A c \in CastIds : pending[c] # None =>
    LET j == job[pending[c]]
    IN /\ j.cast = c
       /\ j.game = game
       /\ j.generation = generation
       /\ j.round = active
       /\ ready

\* No vote is handed to the game before its row is committed, and the rows
\* admit one vote per cast id and one per voter and round of an instance, also
\* across reconnections and restarts: the game never sees a vote twice.
ForwardedOnce ==
  /\ attempted \subseteq reserved
  /\ \A s, t \in attempted : s # t => ~Conflict(s, t)

\* A bot gets at most one verdict for a submission, whoever gives it: the door,
\* the database, the ACK, the sweeper, or a change of the room.
OneVerdict == \A s \in Subs : Len(answers[s]) <= 1

\* A refusal is final: a vote that was answered with a refusal has not been
\* handed to the game, and never will be.
RefusedNeverSent ==
  \A s \in attempted : \A k \in 1 .. Len(answers[s]) : answers[s][k] \notin Refusals

\* An ACK is passed on only for a vote that was really handed to the game.
AckedWasSent ==
  \A s \in Subs \ attempted : \A k \in 1 .. Len(answers[s]) : answers[s][k] # "ack"

\* What docs/protocol-v1.md says of round.result_unknown: "the vote has started
\* to be sent".  The code also gives it to votes still in the queue.
UnknownWasSent ==
  \A s \in Subs \ attempted : \A k \in 1 .. Len(answers[s]) : answers[s][k] # "result_unknown"

\* No submission leaves for the game a second time, not even to a game that
\* reconnected: a vote whose sending failed is never retried.
NeverResent ==
  [][\A g \in Games, s \in Subs :
       sending'[g] = s /\ sending[g] # s => s \notin attempted]_vars

\* A vote leaves for the game only while that game is the room's, is ready, runs
\* the instance the bot named and holds open the round the bot named.
SendsOnlyCurrent ==
  [][\A g \in Games, s \in Subs :
       sending'[g] = s /\ sending[g] # s =>
         /\ game = g /\ ready
         /\ job[s].round = active
         /\ job[s].instance = InstanceOf[g]]_vars

\* The abstract specification of the votes, and this one seen as it.
BallotOf(j) == [cast |-> j.cast, voter |-> j.voter, round |-> j.round, instance |-> j.instance]

Promise == INSTANCE VotePromise WITH
  ballot <- [s \in Subs |-> IF job[s] = None THEN None ELSE BallotOf(job[s])],
  sent <- attempted,
  verdict <- answers

\* The relay keeps the promise: no vote sent after a verdict, no second verdict,
\* no verdict that contradicts what was sent, no rival of a sent vote sent.
KeepsPromise == Promise!Spec

-----------------------------------------------------------------------------
(* The inductive invariant behind the safety properties *)

\* The only open game connection is the room's.
RoomPart ==
  /\ \A g \in Games : Live(g) <=> game = g
  /\ ready => game # None
  /\ active # 0 => game # None

\* What a submission's local variables say as long as the handler runs: equal
\* generations mean that nothing it read before the await has changed.
HandlerPart ==
  \A s \in Subs :
    /\ phase[s] = "idle" => job[s] = None /\ answers[s] = <<>>
    /\ Running(s) =>
         /\ answers[s] = <<>>
         /\ job[s].generation <= generation
         /\ job[s].generation = generation =>
              job[s].game = game /\ job[s].round = active /\ ready
    /\ phase[s] \in {"idle", "saving", "refused", "broken"} => s \notin reserved
    /\ phase[s] = "saved" => s \in reserved /\ s \notin attempted
    /\ job[s] # None => job[s].instance = InstanceOf[job[s].game]

\* A pending vote is current, reserved, and still without a verdict.
PendingPart ==
  \A c \in CastIds : pending[c] # None =>
    /\ phase[pending[c]] = "done"
    /\ answers[pending[c]] = <<>>
    /\ pending[c] \in reserved
    /\ job[pending[c]].cast = c
    /\ job[pending[c]].game = game
    /\ job[pending[c]].generation = generation
    /\ job[pending[c]].round = active
    /\ ready

\* A vote in a queue was put there once, by a handler that then finished, and
\* has not been started.
QueuePart ==
  \A g \in Games : \A k \in 1 .. Len(outq[g]) : outq[g][k] # Control =>
    /\ phase[outq[g][k]] = "done"
    /\ job[outq[g][k]] # None
    /\ job[outq[g][k]].game = g
    /\ outq[g][k] \notin attempted
    /\ \A m \in 1 .. Len(outq[g]) : outq[g][m] = outq[g][k] => m = k

\* Rows have content and respect both UNIQUE constraints; only reserved votes
\* are ever attempted.
RowPart ==
  /\ attempted \subseteq reserved
  /\ \A s \in reserved : job[s] # None
  /\ \A s, t \in reserved : s # t => ~Conflict(s, t)

\* Verdicts are single and agree with what was sent.
VerdictPart == OneVerdict /\ RefusedNeverSent /\ AckedWasSent

Inductive ==
  /\ TypeOK
  /\ RoomPart
  /\ HandlerPart
  /\ PendingPart
  /\ QueuePart
  /\ RowPart
  /\ VerdictPart

-----------------------------------------------------------------------------
(* Liveness *)

\* The event loop and the SQLite thread make progress, time passes, the sweeper
\* wakes up, and a flush ends, at the latest at its send_timeout.  Nothing is
\* assumed of games, bots or their writers.
Fairness ==
  /\ \A s \in Subs : /\ WF_vars(DbActs(s))
                     /\ WF_vars(Resume(s))
                     /\ WF_vars(DeadlinePasses(s))
  /\ \A b \in Bots : WF_vars(conn[b] = "flushing" /\ BotLeaves(b))
  /\ WF_vars(SweepActs)

FairSpec == Spec /\ Fairness

\* Every vote that passes the door gets its verdict, or its bot is disconnected,
\* whatever the game does: no submission is forgotten.
EveryCastConcluded ==
  \A s \in Subs : phase[s] = "saving" ~>
    \/ answers[s] # <<>>
    \/ job[s] # None /\ conn[job[s].bot] \in {"dropped", "gone"}

=============================================================================
