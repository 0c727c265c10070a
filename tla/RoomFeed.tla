------------------------------ MODULE RoomFeed ------------------------------
(***************************************************************************)
(* What the bots of a room are told (server/hub.py: _register, _broadcast, *)
(* _send_server_state, _drop, _handle_game), frame by frame through each   *)
(* bot's outbound queue.                                                   *)
(*                                                                         *)
(* A handler changes the room and queues its frames without suspending, so *)
(* each message of the game is one action; a bot's writer hands the frames *)
(* to the socket one at a time, later.  A frame that a bot's full queue    *)
(* cannot take costs the bot its connection, in the same step.             *)
(*                                                                         *)
(* Votes appear only as replies to their bots (ack, error, pong): they     *)
(* take room in a queue.  A game whose message is refused has either done  *)
(* nothing or left.  Games are told apart by their instance, of which one  *)
(* is connected at a time; a bot may come back after it was cut off.       *)
(*                                                                         *)
(* An operator marked "Mutant" is not part of the specification: put in    *)
(* place of the definition below it, it must break the property it names.  *)
(***************************************************************************)
EXTENDS Naturals, FiniteSets, SequencesExt

CONSTANTS
  Instances,  \* game instances
  Bots,       \* bot connections
  Phases,     \* what a game may say of its state
  Tallies,    \* what a snapshot may say of the votes
  Syncs,      \* what a game.sync may say: GameSyncPayload ties no two fields
  MaxRound,   \* bound: round numbers
  QueueLimit, \* outbound_queue_size
  MaxBots,    \* max_bots_per_room
  Own,        \* the instance a bot named in its hello: sent when there is no game
  None        \* "no such object"; 0 for rounds

ASSUME FeedAssumption ==
  /\ MaxRound \in Nat /\ QueueLimit \in Nat \ {0} /\ MaxBots \in Nat
  /\ None \notin Instances \cup {Own} /\ Own \notin Instances

Rounds == 1 .. MaxRound
Snapshots == [round : Rounds, tally : Tallies]
States == Phases \cup {"TITLE", "OFFLINE"}

\* What a room keeps, and a game.sync carries.
Rooms == [phase : States, active : 0 .. MaxRound,
          snap : Snapshots \cup {None}, closed : 0 .. MaxRound]

ASSUME SyncAssumption == Syncs \subseteq {r \in Rooms : r.phase \in Phases}

VARIABLES
  game,         \* RoomRuntime.game: the instance connected, or None
  ready,        \* RoomRuntime.ready
  hasConnected, \* RoomRuntime.has_connected
  room,         \* state, active_vote, latest_snapshot and last_closed_round
  bots,         \* RoomRuntime.bots
  outbox,       \* each bot's outbound queue
  inherited,    \* history: the room remembers a round of an earlier session
  owed,         \* history: announcements a bot has not been sent yet
  heard,        \* history: the kinds of the first three frames sent to a bot
  view          \* history: what one would make of the frames sent to a bot

vars == <<game, ready, hasConnected, room, bots, outbox, inherited, owed, heard, view>>

-----------------------------------------------------------------------------
(* Frames, and what is to be made of them *)

Frame(kind, inst, body) == [kind |-> kind, inst |-> inst, body |-> body]

\* An answer to this bot alone: vote.ack, error or heartbeat.pong.
Reply == Frame("reply", Own, None)

Greeting == <<"authenticated", "info", "sync">>
Announcements == {"sync", "state", "opened", "snapshot", "closed", "effect", "offline"}

Offline == [phase |-> "OFFLINE", active |-> 0, snap |-> None, closed |-> 0]
NothingYet == [inst |-> None, room |-> Offline]

\* An observer of what a bot is sent, who takes each announcement for what it did
\* to the room.  No client is modelled: the observer shows what the backend tells,
\* not what is done with it (tools/sim_bot.py follows two kinds of frames only).
Reads(v, f) ==
  CASE f.kind = "sync"     -> [inst |-> f.inst, room |-> f.body]
    [] f.kind = "state"    -> [v EXCEPT !.room.phase = f.body]
    [] f.kind = "opened"   -> [inst |-> f.inst,
                               room |-> [v.room EXCEPT !.active = f.body, !.snap = None]]
    [] f.kind = "snapshot" -> [v EXCEPT !.room.snap = f.body]
    [] f.kind = "closed"   -> [v EXCEPT !.room.active = 0, !.room.snap = None,
                                        !.room.closed = f.body]
    [] f.kind = "offline"  -> [v EXCEPT !.room.phase = "OFFLINE", !.room.active = 0,
                                        !.room.snap = None]
    [] OTHER               -> v

-----------------------------------------------------------------------------
(* Queues *)

\* Mutant: the queue is full one frame too late (TypeOK).
FitsOneMore(q, frames) == Len(q \o frames) <= QueueLimit + 1

\* ClientConnection.send, several times: put_nowait succeeds for every frame.
Fits(q, frames) == Len(q \o frames) <= QueueLimit

\* What is left of f for the bots still there; the others start afresh.
Kept(f, afresh) == [b \in Bots |-> IF b \in bots' THEN f[b] ELSE afresh]

\* Mutant: a frame that does not fit is lost, and the bot stays (NothingSkipped).
SendsToAllLossy(to) ==
  /\ bots' = bots
  /\ outbox' = [b \in Bots |-> IF Fits(outbox[b], to[b]) THEN outbox[b] \o to[b]
                               ELSE outbox[b]]

\* Mutant: a full queue gives up its oldest frames for new ones (KeepsPromise).
SendsToAllNewest(to) ==
  /\ bots' = bots
  /\ outbox' = [b \in Bots |-> LET q == outbox[b] \o to[b]
                               IN  IF Fits(outbox[b], to[b]) THEN q
                                   ELSE SubSeq(q, Len(q) - QueueLimit + 1, Len(q))]

\* Every bot is sent its frames; one whose queue overflows is aborted and
\* dropped, and what was queued for it is lost.
SendsToAll(to) ==
  /\ bots' = {b \in bots : Fits(outbox[b], to[b])}
  /\ outbox' = Kept([b \in Bots |-> outbox[b] \o to[b]], <<>>)

\* _broadcast, after _resolve_all has answered votes of the bots `answered`.
Broadcast(f, answered) ==
  /\ SendsToAll([b \in Bots |-> (IF b \in answered THEN <<Reply>> ELSE <<>>)
                                \o (IF b \in bots THEN <<f>> ELSE <<>>)])
  /\ owed' = Kept([b \in Bots |-> owed[b] + 1], 0)
  /\ heard' = Kept(heard, <<>>)
  /\ view' = Kept(view, NothingYet)

\* The handlers of the game's connection: _handle_game broadcasts f.
GameTells(kind, body, answered) ==
  /\ game # None
  /\ Broadcast(Frame(kind, game, body), answered)
  /\ UNCHANGED <<game, hasConnected>>

-----------------------------------------------------------------------------
(* Connections *)

\* Mutant: a game that connects is ready whatever happened before (ReadyIsOwn).
RegisterGameReady(i) ==
  /\ game = None
  /\ game' = i
  /\ ready' = TRUE
  /\ hasConnected' = TRUE
  /\ room' = [room EXCEPT !.phase = "TITLE"]
  /\ inherited' = (room.closed # 0)
  /\ UNCHANGED <<bots, outbox, owed, heard, view>>

\* _register: a game that comes back must send game.sync first.  Bots are not
\* told that it is there.
RegisterGame(i) ==
  /\ game = None
  /\ game' = i
  /\ ready' = ~hasConnected
  /\ hasConnected' = TRUE
  /\ room' = [room EXCEPT !.phase = "TITLE"]
  /\ inherited' = (room.closed # 0)
  /\ UNCHANGED <<bots, outbox, owed, heard, view>>

\* Mutant: the active round outlives the game (RoomIsKnown).
GameLeavesRound ==
  /\ game # None
  /\ \E answered \in SUBSET bots : Broadcast(Frame("offline", game, None), answered)
  /\ game' = None
  /\ ready' = FALSE
  /\ room' = [room EXCEPT !.phase = "OFFLINE"]
  /\ UNCHANGED <<hasConnected, inherited>>

\* _drop of the game, whatever ended its connection.  The last closed round is
\* remembered.
GameLeaves ==
  /\ game # None
  /\ \E answered \in SUBSET bots : Broadcast(Frame("offline", game, None), answered)
  /\ game' = None
  /\ ready' = FALSE
  /\ room' = [Offline EXCEPT !.closed = room.closed]
  /\ UNCHANGED <<hasConnected, inherited>>

\* Mutant: the room's state goes to bots only while a game is there (Greeted).
GreetingFramesOnline ==
  LET inst == IF game = None THEN Own ELSE game
  IN  <<Frame("authenticated", inst, None), Frame("info", inst, None)>>
      \o IF game = None THEN <<>> ELSE <<Frame("sync", inst, room)>>

\* AUTHENTICATED and _send_server_state; ClientConnection.send puts the bot's
\* own instance where there is none.
GreetingFrames ==
  LET inst == IF game = None THEN Own ELSE game
  IN  <<Frame("authenticated", inst, None), Frame("info", inst, None),
        Frame("sync", inst, room)>>

\* The handshake of a bot, up to its first wait.  If the queue is too short for
\* the greeting the bot is dropped again before it was sent anything.
BotJoins(b) ==
  /\ b \notin bots
  /\ Cardinality(bots) < MaxBots
  /\ Fits(<<>>, GreetingFrames)
  /\ bots' = bots \cup {b}
  /\ outbox' = [outbox EXCEPT ![b] = GreetingFrames]
  /\ UNCHANGED <<game, ready, hasConnected, room, inherited, owed, heard, view>>

\* The bot's session ends: it leaves, is refused something fatal, or its writer
\* fails or times out.
BotLeaves(b) ==
  /\ b \in bots
  /\ bots' = bots \ {b}
  /\ outbox' = Kept(outbox, <<>>)
  /\ owed' = Kept(owed, 0)
  /\ heard' = Kept(heard, <<>>)
  /\ view' = Kept(view, NothingYet)
  /\ UNCHANGED <<game, ready, hasConnected, room, inherited>>

\* An answer to a vote or a ping of bot b alone.
BotAnswered(b) ==
  /\ b \in bots
  /\ SendsToAll([c \in Bots |-> IF c = b THEN <<Reply>> ELSE <<>>])
  /\ owed' = Kept(owed, 0)
  /\ heard' = Kept(heard, <<>>)
  /\ view' = Kept(view, NothingYet)
  /\ UNCHANGED <<game, ready, hasConnected, room, inherited>>

\* ClientConnection._run hands the next frame to the socket.
WriterSends(b) ==
  /\ outbox[b] # <<>>
  /\ LET f == Head(outbox[b])
     IN  /\ view' = [view EXCEPT ![b] = Reads(@, f)]
         /\ heard' = [heard EXCEPT ![b] = IF Len(@) < 3 THEN Append(@, f.kind) ELSE @]
         /\ owed' = [owed EXCEPT ![b] = IF Len(heard[b]) >= 3 /\ f.kind \in Announcements
                                        THEN @ - 1 ELSE @]
  /\ outbox' = [outbox EXCEPT ![b] = Tail(@)]
  /\ UNCHANGED <<game, ready, hasConnected, room, bots, inherited>>

-----------------------------------------------------------------------------
(* Messages of the game (_handle_game) *)

\* Mutant: the sync is relayed, and its state forgotten (PhaseIsKnown).
GameSyncKeepsState(r) ==
  /\ \E answered \in SUBSET bots : GameTells("sync", r, answered)
  /\ room' = [r EXCEPT !.phase = room.phase]
  /\ ready' = TRUE
  /\ inherited' = FALSE

GameSync(r) ==
  /\ \E answered \in SUBSET bots : GameTells("sync", r, answered)
  /\ room' = r
  /\ ready' = TRUE
  /\ inherited' = FALSE

GameStateChanged(p) ==
  /\ ready
  /\ GameTells("state", p, {})
  /\ room' = [room EXCEPT !.phase = p]
  /\ UNCHANGED <<ready, inherited>>

\* Mutant: a closed round may be opened again (FramesFit).
VoteOpenedAgain(n) ==
  /\ ready /\ n > room.active
  /\ \E answered \in SUBSET bots : GameTells("opened", n, answered)
  /\ room' = [room EXCEPT !.active = n, !.snap = None]
  /\ UNCHANGED <<ready, inherited>>

VoteOpened(n) ==
  /\ ready /\ n > room.closed /\ n > room.active
  /\ \E answered \in SUBSET bots : GameTells("opened", n, answered)
  /\ room' = [room EXCEPT !.active = n, !.snap = None]
  /\ UNCHANGED <<ready, inherited>>

\* A snapshot of another round is ignored.
VoteSnapshot(s) ==
  /\ ready /\ s.round = room.active
  /\ GameTells("snapshot", s, {})
  /\ room' = [room EXCEPT !.snap = s]
  /\ UNCHANGED <<ready, inherited>>

VoteClosed(n) ==
  /\ ready /\ n = room.active
  /\ \E answered \in SUBSET bots : GameTells("closed", n, answered)
  /\ room' = [room EXCEPT !.active = 0, !.snap = None, !.closed = n]
  /\ UNCHANGED <<ready, inherited>>

EffectResolved ==
  /\ ready
  /\ GameTells("effect", None, {})
  /\ UNCHANGED <<room, ready, inherited>>

-----------------------------------------------------------------------------

Init ==
  /\ game = None /\ ready = FALSE /\ hasConnected = FALSE
  /\ room = Offline
  /\ bots = {}
  /\ outbox = [b \in Bots |-> <<>>]
  /\ inherited = FALSE
  /\ owed = [b \in Bots |-> 0]
  /\ heard = [b \in Bots |-> <<>>]
  /\ view = [b \in Bots |-> NothingYet]

\* The process is restarted: Hub.rooms is empty, all connections are lost.
Restart ==
  /\ game' = None /\ ready' = FALSE /\ hasConnected' = FALSE
  /\ room' = Offline
  /\ bots' = {}
  /\ outbox' = [b \in Bots |-> <<>>]
  /\ inherited' = FALSE
  /\ owed' = [b \in Bots |-> 0]
  /\ heard' = [b \in Bots |-> <<>>]
  /\ view' = [b \in Bots |-> NothingYet]

Next ==
  \/ \E i \in Instances : RegisterGame(i)
  \/ GameLeaves
  \/ \E b \in Bots : BotJoins(b) \/ BotLeaves(b) \/ BotAnswered(b) \/ WriterSends(b)
  \/ \E r \in Syncs : GameSync(r)
  \/ \E p \in Phases : GameStateChanged(p)
  \/ \E n \in Rounds : VoteOpened(n) \/ VoteClosed(n)
  \/ EffectResolved
  \/ \E s \in Snapshots : VoteSnapshot(s)
  \/ Restart

Spec == Init /\ [][Next]_vars

-----------------------------------------------------------------------------
(* Properties *)

Bodies == {None} \cup States \cup Rounds \cup Snapshots \cup Rooms
Frames == [kind : Announcements \cup {"authenticated", "info", "reply"},
           inst : Instances \cup {Own}, body : Bodies]

\* Types: a queue never holds more than outbound_queue_size frames, and only
\* bots of the room have one.
TypeOK ==
  /\ game \in Instances \cup {None}
  /\ ready \in BOOLEAN /\ hasConnected \in BOOLEAN /\ inherited \in BOOLEAN
  /\ room \in Rooms
  /\ bots \subseteq Bots /\ Cardinality(bots) <= MaxBots
  /\ DOMAIN outbox = Bots /\ DOMAIN view = Bots /\ DOMAIN heard = Bots
  /\ \A b \in Bots : Len(outbox[b]) <= QueueLimit /\ (b \notin bots => outbox[b] = <<>>)
  /\ owed \in [Bots -> 0 .. QueueLimit]

\* What who believes v believes after each frame of the queue q.
Beliefs(v, q) ==
  LET after[k \in 0 .. Len(q)] == IF k = 0 THEN v ELSE Reads(after[k - 1], q[k])
  IN  after

\* What bot b will believe when it has been sent the first n frames queued for it.
Foreseen(b, n) == Beliefs(view[b], outbox[b])[n]

Believed(b) == Foreseen(b, Len(outbox[b]))

\* A bot that applies every frame knows the room's rounds: what is queued for it
\* brings it to the active round, the latest snapshot and the last closed round
\* of the room as it is now, and to the instance that runs an active round,
\* whenever it joined and whatever was broadcast, in whatever order, since.
RoomIsKnown ==
  \A b \in bots : LET v == Believed(b)
                  IN  /\ v.room.active = room.active
                      /\ v.room.snap = room.snap
                      /\ v.room.closed = room.closed
                      /\ room.active # 0 => v.inst = game

\* A bot also knows the game's state, but for one thing nobody tells it: that a
\* game has connected and has not said anything of its state yet.
PhaseIsKnown ==
  \A b \in bots : LET p == Believed(b).room.phase
                  IN  p = room.phase \/ (p = "OFFLINE" /\ room.phase = "TITLE" /\ game # None)

\* "Critical messages are not silently dropped" (README.md:49): while a bot is
\* in the room, everything announced since it joined has been sent to it or is
\* in its queue.
NothingSkipped ==
  \A b \in bots :
    owed[b] = Cardinality({k \in 1 .. Len(outbox[b]) :
                /\ outbox[b][k].kind \in Announcements
                /\ Len(heard[b]) + k > 3})

\* What frame f tells is new to a bot that knows r.
MakesSense(f, r) ==
  CASE f.kind = "opened"   -> f.body > r.closed /\ f.body > r.active
    [] f.kind = "closed"   -> f.body = r.active
    [] f.kind = "snapshot" -> f.body.round = r.active
    [] OTHER               -> TRUE

\* Whatever a bot is sent makes sense to it when it gets it: no round is opened
\* that it knows as closed or as older than the active one, and only the active
\* round gets a snapshot or is closed.
FramesFit ==
  \A b \in bots : \A k \in 1 .. Len(outbox[b]) :
    MakesSense(outbox[b][k], Foreseen(b, k - 1).room)

\* A bot's first frames are authenticated, protocol.info and game.sync, whatever
\* else happens to the room while it joins: tools/sim_bot.py:38 takes three frames
\* without looking, and would miss a round that is opened among them.
Greeted ==
  \A b \in bots :
    LET kinds == heard[b] \o [k \in 1 .. Len(outbox[b]) |-> outbox[b][k].kind]
    IN  IsPrefix(Greeting, kinds)

\* A room that takes a game's vote messages remembers no round of an earlier
\* session, also after a restart of the backend, when no game.sync is asked for.
ReadyIsOwn == ready => game # None /\ ~inherited

\* A room, or what a bot takes for one, but for the game's state.
RoundsOf(r) == [r EXCEPT !.phase = None]

\* The rounds a bot that believes v sees as it reads the queue q.
Sights(v, q) == [k \in 1 .. Len(q) + 1 |-> RoundsOf(Beliefs(v, q)[k - 1].room)]

\* The abstract specification of the rounds, and this one seen as it.
Promise == INSTANCE FeedPromise WITH
  Blank <- RoundsOf(Offline),
  rounds <- RoundsOf(room),
  path <- [b \in Bots |-> IF b \in bots THEN Sights(view[b], outbox[b]) ELSE <<>>]

\* The feed keeps the promise: a bot sees every state of the room's rounds since
\* it joined, in their order and nothing else, or is cut off.
KeepsPromise == Promise!Spec
=============================================================================
