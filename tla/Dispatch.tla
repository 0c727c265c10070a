------------------------------ MODULE Dispatch ------------------------------
(***************************************************************************)
(* Which messages of a room are executed (server/hub.py, handle and        *)
(* _dispatch): the handshake, the replay window that makes message_id an   *)
(* idempotency key, and the errors that end a connection.                  *)
(*                                                                         *)
(* A game's message is handled without suspension.  A bot's vote.cast      *)
(* suspends in record_vote, and is entered into the window only when it    *)
(* comes back, so that votes of several bots can be under way at once.     *)
(*                                                                         *)
(* A wrong seq leaves no trace (a gap) or ends the connection (Fatal), so  *)
(* sequence numbers are left out, and so are heartbeats, which neither     *)
(* enter the window nor the audit.  One process is modelled: the window    *)
(* does not survive it.                                                    *)
(*                                                                         *)
(* An operator marked "Mutant" is not part of the specification: put in    *)
(* place of the definition below it, it must break the property it names.  *)
(***************************************************************************)
EXTENDS Naturals, Sequences, FiniteSets

CONSTANTS
  Games,       \* game connections
  Bots,        \* bot connections
  Instances,   \* game instances a message may name
  InstanceOf,  \* the instance of a game connection
  Ids,         \* client-chosen message_id values
  Contents,    \* payloads
  WindowLimit, \* size of the replay window (4096 in the code)
  MaxLog,      \* bound: executed messages
  None         \* "no such object"

Clients == Games \cup Bots

ASSUME InstanceAssumption == InstanceOf \in [Games -> Instances]

ASSUME WindowAssumption == WindowLimit \in Nat \ {0} /\ MaxLog \in Nat

\* _message_key and _fingerprint.
Keys == [role : {"game", "bot"}, instance : Instances, id : Ids]
Digests == [kind : {"sync", "event", "cast"}, content : Contents]

ASSUME ClientAssumption == None \notin Clients /\ Games \cap Bots = {}

VARIABLES
  link,    \* "new", "open" or "ended", for every websocket session
  game,    \* RoomRuntime.game
  ready,   \* RoomRuntime.ready
  epoch,   \* game registrations so far; has_connected when positive
  saving,  \* the vote.cast each bot's handler waits for, or None
  rows,    \* contents of the votes SQLite has accepted
  window,  \* RoomRuntime.messages, oldest first
  log      \* history: executed messages

vars == <<link, game, ready, epoch, saving, rows, window, log>>

-----------------------------------------------------------------------------
(* The replay window *)

\* The keys a message of x can have: a game must name the instance of its
\* connection, a bot may name any.
KeysOf(x) ==
  IF x \in Games THEN [role : {"game"}, instance : {InstanceOf[x]}, id : Ids]
  ELSE [role : {"bot"}, instance : Instances, id : Ids]

Known(k) == \E i \in 1 .. Len(window) : window[i].key = k

SameAsKnown(k, d) == \E i \in 1 .. Len(window) : window[i].key = k /\ window[i].digest = d

\* The window without the entry of k, which it has once.
Without(k) ==
  IF ~Known(k) THEN window
  ELSE LET i == CHOOSE i \in 1 .. Len(window) : window[i].key = k
       IN  SubSeq(window, 1, i - 1) \o SubSeq(window, i + 1, Len(window))

\* Mutant: the limit is tested before the entry is added (TypeOK).
RememberOneMore(k, d) ==
  LET moved == Append(Without(k), [key |-> k, digest |-> d])
  IN  window' = IF Len(window) > WindowLimit THEN Tail(moved) ELSE moved

\* Mutant: a known entry keeps its place (WindowIsRecent).
RememberInPlace(k, d) ==
  LET more == IF Known(k) THEN window ELSE Append(window, [key |-> k, digest |-> d])
  IN  window' = IF Len(more) > WindowLimit THEN Tail(more) ELSE more

\* The entry goes to the end of the OrderedDict, the oldest falls out.
Remember(k, d) ==
  LET moved == Append(Without(k), [key |-> k, digest |-> d])
  IN  window' = IF Len(moved) > WindowLimit THEN Tail(moved) ELSE moved

Execute(k, d) ==
  /\ Len(log) < MaxLog
  /\ log' = Append(log, [key |-> k, digest |-> d, epoch |-> epoch])
  /\ Remember(k, d)

\* _drop, with the room's game if it is that one.
Drop(x) ==
  /\ link' = [link EXCEPT ![x] = "ended"]
  /\ game' = IF game = x THEN None ELSE game
  /\ ready' = IF game = x THEN FALSE ELSE ready

-----------------------------------------------------------------------------
(* Connections *)

ConnectGame(g) ==
  /\ link[g] = "new"
  /\ game = None
  /\ game' = g
  /\ ready' = (epoch = 0)
  /\ epoch' = epoch + 1
  /\ link' = [link EXCEPT ![g] = "open"]
  /\ UNCHANGED <<saving, rows, window, log>>

ConnectBot(b) ==
  /\ link[b] = "new"
  /\ link' = [link EXCEPT ![b] = "open"]
  /\ UNCHANGED <<game, ready, epoch, saving, rows, window, log>>

\* No hello in time, a hello that is not accepted, or a second game.
HandshakeFails(x) ==
  /\ link[x] = "new"
  /\ link' = [link EXCEPT ![x] = "ended"]
  /\ UNCHANGED <<game, ready, epoch, saving, rows, window, log>>

\* Disconnected, or closed by the writer, whatever the handler waits for.
Leaves(x) ==
  /\ link[x] = "open"
  /\ Drop(x)
  /\ UNCHANGED <<epoch, saving, rows, window, log>>

\* A connection handles one message at a time.
Reads(x) == link[x] = "open" /\ (x \in Bots => saving[x] = None)

\* An error that closes the connection, before the window is consulted.
Fatal(x) ==
  /\ Reads(x)
  /\ Drop(x)
  /\ UNCHANGED <<epoch, saving, rows, window, log>>

-----------------------------------------------------------------------------
(* Messages *)

\* A known message_id with another type or payload ends the connection.
Reuses(x, k, d) ==
  /\ Reads(x)
  /\ Known(k) /\ ~SameAsKnown(k, d)
  /\ Drop(x)
  /\ UNCHANGED <<epoch, saving, rows, window, log>>

\* Mutant: a known game.sync is executed even when the game is ready (NoReplay).
GameExecutesAnySync(g, k, d) ==
  /\ Reads(g)
  /\ d.kind # "cast"
  /\ Known(k) => SameAsKnown(k, d) /\ d.kind = "sync"
  /\ ready \/ d.kind = "sync"
  /\ ready' = TRUE
  /\ Execute(k, d)
  /\ UNCHANGED <<link, game, epoch, saving, rows>>

\* A message of the game that is executed.  A known one is not, except the first
\* game.sync after a reconnect; before that sync nothing else is.
GameExecutes(g, k, d) ==
  /\ Reads(g)
  /\ d.kind # "cast"
  /\ \/ ~Known(k)
     \/ SameAsKnown(k, d) /\ d.kind = "sync" /\ ~ready
  /\ ready \/ d.kind = "sync"
  /\ ready' = TRUE
  /\ Execute(k, d)
  /\ UNCHANGED <<link, game, epoch, saving, rows>>

\* Anything but game.sync from a game that reconnected and did not sync.
GameTooEarly(g, k, d) ==
  /\ Reads(g)
  /\ ~Known(k)
  /\ ~ready /\ d.kind = "event"
  /\ Drop(g)
  /\ UNCHANGED <<epoch, saving, rows, window, log>>

\* A vote.cast for the game that is there, with a message_id that is not known,
\* passes the door.
CastArrives(b, k, d) ==
  /\ Reads(b)
  /\ d.kind = "cast"
  /\ game # None /\ ready /\ k.instance = InstanceOf[game]
  /\ ~Known(k)
  /\ saving' = [saving EXCEPT ![b] = [key |-> k, digest |-> d, epoch |-> epoch]]
  /\ UNCHANGED <<link, game, ready, epoch, rows, window, log>>

\* record_vote accepts the vote, and the game and the bot are still there (a change
\* of the round is among the reasons of CastRefused, which is always possible).
\* Nobody asks the window again.  A vote that finds the game's queue full drops
\* the game and is executed all the same: its bot has its answer.
CastExecutes(b) ==
  /\ saving[b] # None
  /\ saving[b].digest.content \notin rows
  /\ link[b] = "open" /\ game # None /\ saving[b].epoch = epoch
  /\ rows' = rows \cup {saving[b].digest.content}
  /\ Execute(saving[b].key, saving[b].digest)
  /\ saving' = [saving EXCEPT ![b] = None]
  /\ UNCHANGED <<link, game, ready>> \/ Drop(game)
  /\ UNCHANGED epoch

\* The vote is refused: by SQLite, or because the room or the connection changed
\* after SQLite accepted it.  A refused message does not enter the window.
CastRefused(b) ==
  /\ saving[b] # None
  /\ rows' \in {rows, rows \cup {saving[b].digest.content}}
  /\ saving' = [saving EXCEPT ![b] = None]
  /\ UNCHANGED <<link, game, ready, epoch, window, log>>

-----------------------------------------------------------------------------

Init ==
  /\ link = [x \in Clients |-> "new"]
  /\ game = None /\ ready = FALSE /\ epoch = 0
  /\ saving = [b \in Bots |-> None]
  /\ rows = {}
  /\ window = <<>> /\ log = <<>>

Next ==
  \/ \E g \in Games : ConnectGame(g)
  \/ \E b \in Bots : ConnectBot(b) \/ CastExecutes(b) \/ CastRefused(b)
  \/ \E x \in Clients : HandshakeFails(x) \/ Leaves(x) \/ Fatal(x)
  \/ \E x \in Clients, d \in Digests : \E k \in KeysOf(x) : Reuses(x, k, d)
  \/ \E g \in Games, d \in Digests : \E k \in KeysOf(g) :
       GameExecutes(g, k, d) \/ GameTooEarly(g, k, d)
  \/ \E b \in Bots, d \in Digests : \E k \in KeysOf(b) : CastArrives(b, k, d)

Spec == Init /\ [][Next]_vars

-----------------------------------------------------------------------------
(* Properties *)

Executions == [key : Keys, digest : Digests, epoch : Nat]

\* Every variable holds a value the program can hold.
TypeOK ==
  /\ link \in [Clients -> {"new", "open", "ended"}]
  /\ game \in Games \cup {None}
  /\ ready \in BOOLEAN
  /\ epoch \in Nat
  /\ saving \in [Bots -> Executions \cup {None}]
  /\ rows \subseteq Contents
  /\ window \in Seq([key : Keys, digest : Digests]) /\ Len(window) <= WindowLimit
  /\ log \in Seq(Executions)

InWindow == {window[i].key : i \in 1 .. Len(window)}

\* In the run, n is the last execution of the message k.
IsLast(run, n, k) ==
  /\ n \in 1 .. Len(run) /\ run[n].key = k
  /\ \A m \in n + 1 .. Len(run) : run[m].key # k

\* The window is what an OrderedDict used this way should be: the messages
\* executed last, each once and in the order of their last execution, with the
\* content they had then; and one that is not there is older than all of them,
\* and found no room.
WindowIsRecent ==
  /\ \A i \in 1 .. Len(window) :
       \E n \in 1 .. Len(log) : IsLast(log, n, window[i].key) /\ log[n].digest = window[i].digest
  /\ \A i, j \in 1 .. Len(window), m, n \in 1 .. Len(log) :
       i < j /\ IsLast(log, m, window[i].key) /\ IsLast(log, n, window[j].key) => m < n
  /\ \A n \in 1 .. Len(log) : log[n].key \notin InWindow =>
       /\ Len(window) = WindowLimit
       /\ \A i \in 1 .. Len(window), m \in 1 .. Len(log) : IsLast(log, m, window[i].key) => n < m

\* Fewer than WindowLimit other messages were executed between two executions.
WithinWindow(m, n) == Cardinality({log[l].key : l \in m + 1 .. n - 1}) < WindowLimit

\* A game's message is executed once, however often it is sent, on the same
\* connection or after a reconnect, as long as the window reaches; only game.sync
\* is executed again, once per connection.
NoReplay ==
  \A m, n \in 1 .. Len(log) :
    m < n /\ log[m].key = log[n].key /\ log[n].digest.kind # "cast" /\ WithinWindow(m, n) =>
      log[n].digest = log[m].digest /\ log[n].digest.kind = "sync" /\ log[m].epoch # log[n].epoch

\* README.md: reusing an id of an executed message with another content is refused.
SameIdSameContent ==
  \A m, n \in 1 .. Len(log) :
    m < n /\ log[m].key = log[n].key /\ WithinWindow(m, n) => log[m].digest = log[n].digest
=============================================================================
