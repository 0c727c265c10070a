------------------------------- MODULE Session -------------------------------
(***************************************************************************)
(* One websocket session of the backend: the coroutine that reads it       *)
(* (server/hub.py: handle, _receive, the first half of _dispatch,          *)
(* _rate_limit, _send_error), the task that writes it and the queue        *)
(* between them (server/connection.py), and which errors end it            *)
(* (protocol/errors.py).  What handlers do to the room is elsewhere; here  *)
(* a message ends well or with an error code.                              *)
(*                                                                         *)
(* Other tasks share the connection: broadcasts, votes and answers are     *)
(* queued at any time and may overflow the queue, which aborts the         *)
(* session; Hub.close does so too.  An abort cancels the writer, and the   *)
(* cancellation takes effect when the writer runs again.                   *)
(*                                                                         *)
(* Time is a clock of SecondTicks ticks a second, for the rate limit; any  *)
(* other timeout may expire at any moment.                                 *)
(*                                                                         *)
(* An operator marked "Mutant" is not part of the specification: put in    *)
(* place of the definition below it, it must break the property it names.  *)
(***************************************************************************)
EXTENDS Naturals, Sequences

CONSTANTS
  QueueLimit,  \* outbound_queue_size
  CastLimit,   \* max_casts_per_second
  SecondTicks, \* ticks of the clock in a second
  MaxIn        \* bound: frames a client numbers

ASSUME SessionAssumption ==
  /\ QueueLimit \in Nat \ {0} /\ CastLimit \in Nat \ {0} /\ SecondTicks \in Nat \ {0}
  /\ MaxIn \in Nat

VARIABLES
  reader,    \* where handle() is: the await it is in
  role,      \* the role accepted in hello, or "none"
  place,     \* "out", "known" to Hub.connections, or in the "room" as well
  conn,      \* the ClientConnection: writer task, closed, queue
  socket,    \* "open", "closed" by the backend, or "gone"
  inSeq,     \* inbound_seq
  stamps,    \* cast_timestamps, as ages in ticks; a second and more is one age
  clientSeq, \* history: the client's next number; 0 if it does not count by one
  owes,      \* history: the error that ends the session, see Owed
  recent,    \* history: ages of the casts let through in the last second
  wronged,   \* history: a cast was turned away with fewer than CastLimit recent
  unclosed   \* history: a close by the writer failed or was interrupted

vars == <<reader, role, place, conn, socket, inSeq, stamps,
          clientSeq, owes, recent, wronged, unclosed>>

-----------------------------------------------------------------------------
(* Error codes (protocol/errors.py) *)

\* Mutant: an unknown message type is forgiven (StaysInStep).
FatalCodesFew ==
  {"protocol.malformed_message", "protocol.origin_mismatch", "protocol.seq_regression",
   "protocol.not_authenticated", "server.internal_error"}

\* FATAL_ERROR_CODES, as far as a session meets them after its handshake, and
\* the internal error, which handle() declares fatal.
FatalCodes ==
  {"protocol.version_unsupported", "protocol.unknown_message_type",
   "protocol.malformed_message", "protocol.unknown_field", "protocol.origin_mismatch",
   "protocol.seq_regression", "protocol.message_too_large", "protocol.not_authenticated",
   "server.internal_error"}

\* parse_message, or a frame that is not text: nothing is known of the message.
ParseCodes ==
  {"protocol.version_unsupported", "protocol.unknown_message_type",
   "protocol.malformed_message", "protocol.unknown_field", "protocol.message_too_large"}

\* How a message can end whose seq was the next one: "ok", or the error raised.
\* A game may have no sync yet, a message_id may be reused.
EndsOf(message, r) ==
  CASE message = "hello"       -> {"protocol.already_authenticated"}
    [] message = "misdirected" -> {"protocol.direction_not_allowed", "protocol.malformed_message"}
                                  \cup IF r = "bot" THEN {}
                                       ELSE {"protocol.not_authenticated", "protocol.origin_mismatch"}
    [] message = "event"       -> {"ok", "round.stale", "protocol.origin_mismatch",
                                   "protocol.not_authenticated", "protocol.malformed_message"}
    [] message = "cast"        -> {"protocol.malformed_message", "round.duplicate_vote",
                                   "round.game_offline", "round.game_instance_mismatch",
                                   "round.not_open", "round.stale"}

-----------------------------------------------------------------------------
(* ClientConnection *)

\* writer: "absent", "new" (created, has not run), "waiting" in Queue.get,
\* "sending" what it has in hand, "closing" the socket, "done".  cancel: the
\* task is to be cancelled.  ahead: outbound_seq, less the frames the client got.
NoConnection == [writer |-> "absent", closed |-> FALSE, cancel |-> FALSE,
                 queue |-> <<>>, unfinished |-> 0, hand |-> "none", ahead |-> 0]

\* Mutant: a task that has not started is cancelled and never runs (Closes).
AbortAnyway(c) ==
  [c EXCEPT !.closed = TRUE, !.cancel = c.writer \notin {"new", "done"},
            !.writer = IF @ = "new" THEN "done" ELSE @]

\* abort(): a writer that has not run yet is left to find the connection closed.
Abort(c) == [c EXCEPT !.closed = TRUE, !.cancel = c.writer \notin {"new", "done"}]

\* Whether send() raises ConnectionError.
Refuses(c) == c.closed \/ Len(c.queue) = QueueLimit

\* Mutant: the queue is full one frame too late (TypeOK).
PutOneMore(c, frame) ==
  IF c.closed THEN c
  ELSE IF Len(c.queue) > QueueLimit THEN Abort(c)
  ELSE [c EXCEPT !.queue = Append(@, frame), !.unfinished = @ + 1]

\* send(): put_nowait, or abort when the queue is full.
Put(c, frame) ==
  IF c.closed THEN c
  ELSE IF Len(c.queue) = QueueLimit THEN Abort(c)
  ELSE [c EXCEPT !.queue = Append(@, frame), !.unfinished = @ + 1]

\* Mutant: what is thrown away is not marked done (Exact).
StopWriterUndone(c) ==
  [c EXCEPT !.writer = "closing", !.closed = TRUE, !.cancel = FALSE, !.queue = <<>>,
            !.hand = "none", !.ahead = 0,
            !.unfinished = IF c.writer = "sending" THEN @ - 1 ELSE @]

\* The end of _run, up to its first await: task_done for the frame in hand and
\* for every frame thrown away.
StopWriter(c) ==
  [c EXCEPT !.writer = "closing", !.closed = TRUE, !.cancel = FALSE, !.queue = <<>>,
            !.hand = "none", !.ahead = 0,
            !.unfinished = @ - Len(c.queue) - IF c.writer = "sending" THEN 1 ELSE 0]

-----------------------------------------------------------------------------
(* How a step of handle() ends *)

\* owes: "no", "owed" once a fatal error is raised, then "answered" when it has
\* gone out, or "excused" when the connection failed or was aborted before.
Excused == IF owes = "owed" THEN "excused" ELSE owes

\* Mutant: close() waits for a writer it did not cancel (SessionEnds).
FinishWaiting(c, o) ==
  /\ conn' = c
  /\ place' = "out"
  /\ reader' = "joining"
  /\ owes' = o

\* The finally clause: _drop, abort, and wait for the writer.
Finish(c, o) ==
  /\ conn' = Abort(c)
  /\ place' = "out"
  /\ reader' = "joining"
  /\ owes' = o

\* Back to the loop, which ends if the connection was closed meanwhile.
Continue(c) ==
  IF c.closed THEN Finish(c, owes)
  ELSE /\ conn' = c
       /\ reader' = "receiving"
       /\ UNCHANGED <<place, owes>>

\* _send_error: a connection that cannot take the error is dropped.
Raise(c, how) ==
  /\ conn' = Put(c, "fatal")
  /\ owes' = IF Refuses(c) THEN "excused" ELSE "owed"
  /\ place' = IF Refuses(c) THEN "out" ELSE place
  /\ reader' = how

\* Mutant: a fatal error ends the session without a flush (FatalIsAnswered).
EndsWithoutFlush(c, code) ==
  IF code = "ok" THEN Continue(c)
  ELSE IF code \in FatalCodes
       THEN Finish(Put(c, "fatal"), IF Refuses(c) THEN "excused" ELSE "owed")
       ELSE Continue(Put(c, "frame"))

\* A message ends with `code`: a fatal error is followed by flush().
Ends(c, code) ==
  IF code = "ok" THEN Continue(c)
  ELSE IF code \in FatalCodes
       THEN Raise(c, IF code = "server.internal_error" THEN "flushing last" ELSE "flushing")
       ELSE Continue(Put(c, "frame"))

-----------------------------------------------------------------------------
(* Handshake *)

ReaderUnchanged == UNCHANGED <<inSeq, stamps, clientSeq, recent, wronged>>

\* No acceptable hello in time: the error is sent straight to the socket.
HelloFails ==
  /\ reader = "hello" /\ socket = "open"
  /\ reader' = "refusing"
  /\ owes' = "owed"
  /\ ReaderUnchanged /\ UNCHANGED <<role, place, conn, socket, unclosed>>

RefusalEnds ==
  /\ reader = "refusing"
  /\ \/ socket = "open" /\ owes' = "answered"
     \/ owes' = "excused"
  /\ reader' = "leaving"
  /\ ReaderUnchanged /\ UNCHANGED <<role, place, conn, socket, unclosed>>

\* Frames a client is sent when it joins: authenticated, and for a bot
\* protocol.info and game.sync.
Joined(r) ==
  LET one == Put([NoConnection EXCEPT !.writer = "new"], "frame")
  IN  IF r = "game" THEN one ELSE Put(Put(one, "frame"), "frame")

\* The client is authenticated.  The room takes it, or has a game already or
\* too many bots.  A queue that is too short for the greeting is an internal
\* error, which can only be told to a closed connection.
HelloAccepted(r) ==
  /\ reader = "hello" /\ socket = "open"
  /\ role' = r
  /\ inSeq' = 1 /\ clientSeq' = 2
  /\ \/ /\ conn' = Joined(r)
        /\ reader' = IF Joined(r).closed THEN "flushing last" ELSE "receiving"
        /\ place' = IF Joined(r).closed THEN "out" ELSE "room"
        /\ owes' = IF Joined(r).closed THEN "excused" ELSE "no"
     \/ /\ conn' = Put([NoConnection EXCEPT !.writer = "new"], "fatal")
        /\ reader' = "flushing last" /\ place' = "known" /\ owes' = "owed"
  /\ UNCHANGED <<socket, stamps, recent, wronged, unclosed>>

-----------------------------------------------------------------------------
(* Messages *)

\* The client sends its frame with number n.
Numbers(n) ==
  /\ reader = "receiving" /\ socket = "open"
  /\ n <= MaxIn
  /\ clientSeq' = IF n = clientSeq THEN n + 1 ELSE 0
  /\ UNCHANGED <<role, socket, unclosed>>

\* Refused before seq is looked at: not parsed, or for another room.
Unparsed(n) ==
  /\ Numbers(n)
  /\ \E code \in ParseCodes \cup {"protocol.origin_mismatch"} : Ends(conn, code)
  /\ UNCHANGED <<inSeq, stamps, recent, wronged>>

\* A gap is forgiven and leaves no trace, a number used before is fatal.
OutOfOrder(n) ==
  /\ Numbers(n)
  /\ n # inSeq + 1
  /\ Ends(conn, IF n <= inSeq THEN "protocol.seq_regression" ELSE "protocol.seq_gap")
  /\ UNCHANGED <<inSeq, stamps, recent, wronged>>

\* The next message, whose handler does not wait.
Message(n, kind) ==
  /\ Numbers(n)
  /\ n = inSeq + 1 /\ inSeq' = n
  /\ kind = "event" => role = "game"
  /\ \E code \in EndsOf(kind, role) : Ends(conn, code)
  /\ UNCHANGED <<stamps, recent, wronged>>

\* A heartbeat is answered; if that fails it is an internal error.
Ping(n) ==
  /\ Numbers(n)
  /\ n = inSeq + 1 /\ inSeq' = n
  /\ IF Refuses(conn) THEN Ends(Put(conn, "frame"), "server.internal_error")
                      ELSE Ends(Put(conn, "frame"), "ok")
  /\ UNCHANGED <<stamps, recent, wronged>>

-----------------------------------------------------------------------------
(* The rate limit *)

\* What popleft leaves of s, called while the first age is `age` or more.
Younger(s, age) ==
  LET n == CHOOSE n \in 0 .. Len(s) :
             /\ \A i \in 1 .. n : s[i] >= age
             /\ n < Len(s) => s[n + 1] < age
  IN  SubSeq(s, n + 1, Len(s))

\* Mutant: a stamp is dropped one tick too early (RateExact).
FreshEarly == Younger(stamps, SecondTicks - 1)

\* The stamps that are left: now - cast_timestamps[0] >= 1 are dropped.
Fresh == Younger(stamps, SecondTicks)

\* A vote.cast: turned away by the limit, ended by the checks that need no
\* database, or handed to record_vote.
Cast(n) ==
  /\ Numbers(n)
  /\ role = "bot"
  /\ n = inSeq + 1 /\ inSeq' = n
  /\ IF Len(Fresh) >= CastLimit
     THEN /\ Ends(conn, "protocol.rate_limited")
          /\ stamps' = Fresh
          /\ wronged' = (wronged \/ Len(recent) < CastLimit)
          /\ UNCHANGED recent
     ELSE /\ stamps' = Append(Fresh, 0)
          /\ recent' = Append(recent, 0)
          /\ \/ \E code \in EndsOf("cast", role) : Ends(conn, code)
             \/ reader' = "saving" /\ UNCHANGED <<conn, place, owes>>
          /\ UNCHANGED wronged

\* record_vote is back: the vote goes on or is refused, or SQLite failed.
Saved ==
  /\ reader = "saving"
  /\ \E code \in {"ok", "round.duplicate_vote", "round.stale", "server.internal_error"} :
       Ends(conn, code)
  /\ ReaderUnchanged /\ UNCHANGED <<role, socket, unclosed>>

\* Time passes; nobody can tell two ages of a second and more apart.
Tick ==
  /\ stamps # <<>> \/ recent # <<>>
  /\ stamps' = [i \in DOMAIN stamps |-> IF stamps[i] < SecondTicks THEN stamps[i] + 1
                                        ELSE stamps[i]]
  /\ recent' = Younger([i \in DOMAIN recent |-> recent[i] + 1], SecondTicks)
  /\ UNCHANGED <<reader, role, place, conn, socket, inSeq, clientSeq, owes, wronged, unclosed>>

-----------------------------------------------------------------------------
(* The end of a session *)

\* The read returns a disconnect.
Disconnected ==
  /\ socket # "open"
  /\ \/ reader = "hello" /\ reader' = "leaving" /\ UNCHANGED <<conn, place, owes>>
     \/ reader = "receiving" /\ Finish(conn, owes)
  /\ ReaderUnchanged /\ UNCHANGED <<role, socket, unclosed>>

\* Queue.join: every frame is marked done.
Flushed ==
  /\ reader \in {"flushing", "flushing last"}
  /\ conn.unfinished = 0
  /\ Finish(conn, owes)
  /\ ReaderUnchanged /\ UNCHANGED <<role, socket, unclosed>>

\* A flush that takes too long is an internal error, once.
FlushTimesOut ==
  /\ conn.unfinished # 0
  /\ \/ reader = "flushing" /\ Raise(conn, "flushing last")
     \/ reader = "flushing last" /\ Finish(conn, Excused)
  /\ ReaderUnchanged /\ UNCHANGED <<role, socket, unclosed>>

\* gather(self._writer)
JoinEnds ==
  /\ reader = "joining" /\ conn.writer = "done"
  /\ reader' = "leaving"
  /\ ReaderUnchanged /\ UNCHANGED <<role, place, conn, socket, owes, unclosed>>

\* The last websocket.close; if that fails, the server closes the socket of a
\* handler that returned.
Leave ==
  /\ reader = "leaving"
  /\ reader' = "done"
  /\ socket' = IF socket = "open" THEN "closed" ELSE socket
  /\ ReaderUnchanged /\ UNCHANGED <<role, place, conn, owes, unclosed>>

PeerLeaves ==
  /\ socket = "open"
  /\ socket' = "gone"
  /\ ReaderUnchanged /\ UNCHANGED <<reader, role, place, conn, owes, unclosed>>

-----------------------------------------------------------------------------
(* The writer (ClientConnection._run) *)

WriterUnchanged == ReaderUnchanged /\ UNCHANGED <<reader, role>>

\* on_disconnect is _drop, which does not wait.
WriterStops(o) ==
  /\ conn' = StopWriter(conn)
  /\ place' = "out"
  /\ owes' = o

WriterStarts ==
  /\ conn.writer = "new"
  /\ IF conn.closed THEN WriterStops(owes)
     ELSE conn' = [conn EXCEPT !.writer = "waiting"] /\ UNCHANGED <<place, owes>>
  /\ WriterUnchanged /\ UNCHANGED <<socket, unclosed>>

\* Mutant: a number is taken before the frame is known to be sent (Contiguous).
WriterTakesNumberFirst(valid) ==
  /\ conn.writer = "waiting" /\ ~conn.cancel /\ conn.queue # <<>>
  /\ ~valid => Head(conn.queue) = "vote"
  /\ conn' = IF valid
             THEN [conn EXCEPT !.writer = "sending", !.hand = Head(conn.queue),
                               !.queue = Tail(@), !.ahead = @ + 1]
             ELSE [conn EXCEPT !.queue = Tail(@), !.unfinished = @ - 1, !.ahead = @ + 1]
  /\ WriterUnchanged /\ UNCHANGED <<socket, unclosed, place, owes>>

\* A vote that is not valid any more is skipped; any other frame gets the next
\* outbound number and is handed to the socket.
WriterTakes(valid) ==
  /\ conn.writer = "waiting" /\ ~conn.cancel /\ conn.queue # <<>>
  /\ ~valid => Head(conn.queue) = "vote"
  /\ conn' = IF valid
             THEN [conn EXCEPT !.writer = "sending", !.hand = Head(conn.queue),
                               !.queue = Tail(@), !.ahead = @ + 1]
             ELSE [conn EXCEPT !.queue = Tail(@), !.unfinished = @ - 1]
  /\ WriterUnchanged /\ UNCHANGED <<socket, unclosed, place, owes>>

WriterSent ==
  /\ conn.writer = "sending" /\ ~conn.cancel /\ socket = "open"
  /\ conn' = [conn EXCEPT !.writer = "waiting", !.hand = "none", !.unfinished = @ - 1,
                          !.ahead = @ - 1]
  /\ owes' = IF conn.hand = "fatal" THEN "answered" ELSE owes
  /\ WriterUnchanged /\ UNCHANGED <<socket, unclosed, place>>

\* send_text fails or takes longer than send_timeout.
WriterFails ==
  /\ conn.writer = "sending"
  /\ WriterStops(Excused)
  /\ WriterUnchanged /\ UNCHANGED <<socket, unclosed>>

WriterCancelled ==
  /\ conn.writer \in {"waiting", "sending"} /\ conn.cancel
  /\ WriterStops(owes)
  /\ WriterUnchanged /\ UNCHANGED <<socket, unclosed>>

\* The writer's websocket.close succeeds; or it fails, takes too long, or is
\* cut short by a second cancellation.
WriterCloses ==
  /\ conn.writer = "closing"
  /\ conn' = [conn EXCEPT !.writer = "done", !.cancel = FALSE]
  /\ \/ socket' = (IF socket = "open" THEN "closed" ELSE socket) /\ UNCHANGED unclosed
     \/ unclosed' = TRUE /\ UNCHANGED socket
  /\ WriterUnchanged /\ UNCHANGED <<place, owes>>

-----------------------------------------------------------------------------
(* Other tasks *)

\* A broadcast, a vote for a game or an answer is queued; if it does not fit the
\* connection is aborted and dropped.
RoomSends(frame) ==
  /\ place = "room"
  /\ frame = "vote" => role = "game"
  /\ conn' = Put(conn, frame)
  /\ IF Refuses(conn) THEN place' = "out" /\ owes' = Excused
                      ELSE UNCHANGED <<place, owes>>
  /\ WriterUnchanged /\ UNCHANGED <<socket, unclosed>>

\* Hub.close
HubCloses ==
  /\ place \in {"known", "room"}
  /\ conn' = Abort(conn)
  /\ place' = "out"
  /\ owes' = Excused
  /\ WriterUnchanged /\ UNCHANGED <<socket, unclosed>>

-----------------------------------------------------------------------------

Init ==
  /\ reader = "hello" /\ role = "none" /\ place = "out"
  /\ conn = NoConnection
  /\ socket = "open"
  /\ inSeq = 0 /\ stamps = <<>>
  /\ clientSeq = 1 /\ owes = "no" /\ recent = <<>> /\ wronged = FALSE /\ unclosed = FALSE

\* What a client can make happen.
Reads ==
  \/ HelloFails \/ \E r \in {"game", "bot"} : HelloAccepted(r)
  \/ \E n \in 1 .. MaxIn :
       \/ Unparsed(n) \/ OutOfOrder(n) \/ Ping(n) \/ Cast(n)
       \/ \E kind \in {"hello", "misdirected", "event"} : Message(n, kind)

\* What goes on by itself: reads of a lost socket, timeouts, the SQLite thread.
Proceeds == Disconnected \/ Saved \/ Flushed \/ FlushTimesOut \/ JoinEnds \/ Leave \/ RefusalEnds

Writes ==
  \/ WriterStarts \/ \E valid \in BOOLEAN : WriterTakes(valid)
  \/ WriterSent \/ WriterFails \/ WriterCancelled \/ WriterCloses

Next ==
  \/ Reads \/ Proceeds \/ Writes
  \/ Tick \/ PeerLeaves \/ HubCloses
  \/ \E frame \in {"frame", "vote"} : RoomSends(frame)

Spec == Init /\ [][Next]_vars

\* The event loop runs every task that can go on, and every timeout expires.
\* Nothing is assumed of the client.
FairSpec == Spec /\ WF_vars(Proceeds) /\ WF_vars(Writes)

-----------------------------------------------------------------------------
(* Properties *)

\* Types: the queue holds at most outbound_queue_size frames, the rate limit keeps
\* at most max_casts_per_second stamps, and whoever is in the room is open.
TypeOK ==
  /\ reader \in {"hello", "refusing", "receiving", "saving", "flushing", "flushing last",
                 "joining", "leaving", "done"}
  /\ place \in {"out", "known", "room"} /\ socket \in {"open", "closed", "gone"}
  /\ Len(conn.queue) <= QueueLimit /\ Len(stamps) <= CastLimit
  /\ place = "room" => role # "none" /\ ~conn.closed
  /\ conn.writer = "absent" <=> role = "none"

\* The queue's count of unfinished frames is exact, so that flush() ends when
\* everything has been sent, and cannot hang on frames that were skipped or
\* thrown away.
Exact == conn.unfinished = Len(conn.queue) + IF conn.hand = "none" THEN 0 ELSE 1

\* The client gets outbound numbers without a gap: the next number is the one
\* after the frames it was sent, whatever votes were skipped in between.
Contiguous == conn.ahead = IF conn.writer = "sending" THEN 1 ELSE 0

\* A client that counts its frames by one is never refused a number: no error
\* that leaves the connection open leaves the backend out of step with it
\* (comment at hub.py:440).
StaysInStep ==
  clientSeq # 0 /\ reader \in {"receiving", "saving"} => clientSeq = inSeq + 1

\* An error that ends the session is sent before the socket is closed, unless
\* the connection itself failed, timed out or was aborted
\* (docs/protocol-v1.md:62 says so of the handshake).
FatalIsAnswered == reader \in {"joining", "leaving", "done"} => owes # "owed"

\* No second has more than CastLimit casts let through, and no cast is turned
\* away while fewer than CastLimit were let through in the second before it.
RateExact == Len(recent) <= CastLimit /\ ~wronged

\* A connection that is closed by anyone, at any moment, also before its writer
\* first runs, leaves the room and has its socket closed (comment at
\* connection.py:105); only if the writer's close fails, a socket may stay open
\* as long as its client says nothing.
Closes ==
  conn.closed ~> place = "out" /\ (socket # "open" \/ (unclosed /\ reader = "receiving"))

\* A session that has to end, because its socket is lost or an error is fatal,
\* ends: reader and writer do not wait for each other for ever.
SessionEnds == (socket # "open" \/ owes # "no") ~> reader = "done"
=============================================================================
