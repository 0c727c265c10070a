--------------------------- MODULE SessionTheorems ---------------------------
(***************************************************************************)
(* What holds of every session, for any sizes of queue and rate limit and  *)
(* any number of frames: its types and limits, the bookkeeping of the      *)
(* queue, the numbers the client gets and gives, the sliding second of the *)
(* rate limit, and the answer to a fatal error.                            *)
(***************************************************************************)
EXTENDS Session, SequenceTheorems, TLAPS

Kinds == {"frame", "vote", "fatal"}

Connections ==
  [writer : {"absent", "new", "waiting", "sending", "closing", "done"},
   closed : BOOLEAN, cancel : BOOLEAN, queue : Seq(Kinds), unfinished : Nat,
   hand : Kinds \cup {"none"}, ahead : Nat]

\* The writer has a frame in hand exactly while it sends; the unfinished frames
\* are those queued and that one; only what is closed is cancelled.
Sound(c) ==
  /\ c \in Connections
  /\ c.hand = "none" <=> c.writer # "sending"
  /\ c.unfinished = Len(c.queue) + IF c.hand = "none" THEN 0 ELSE 1
  /\ c.ahead = IF c.writer = "sending" THEN 1 ELSE 0
  /\ c.cancel => c.closed

\* The error that ends the session is still to be sent.
Waits(c) == c.hand = "fatal" \/ \E k \in 1 .. Len(c.queue) : c.queue[k] = "fatal"

\* An error that is owed is being sent to the bare socket, or it waits in a
\* queue that somebody flushes.
OwedPart ==
  owes = "owed" => \/ reader = "refusing"
                   \/ /\ reader \in {"flushing", "flushing last"}
                      /\ ~conn.closed
                      /\ Waits(conn)

NumberPart == inSeq \in Nat /\ clientSeq \in Nat

\* The first n stamps are those that are a ticks old or older.
Cut(s, a, n) == n \in 0 .. Len(s) /\ \A i \in 1 .. Len(s) : s[i] >= a <=> i <= n

\* Stamps are in the order of their age, and those that count are the casts let
\* through in the last second.
RatePart ==
  /\ stamps \in Seq(0 .. SecondTicks) /\ Len(stamps) <= CastLimit
  /\ \A a \in 1 .. SecondTicks : \E n : Cut(stamps, a, n)
  /\ recent = Fresh /\ ~wronged

\* What TypeOK says of reader, connection and place.
Fits(c, r) ==
  /\ Len(c.queue) <= QueueLimit
  /\ c.writer = "absent" <=> r = "none"

ReaderPart ==
  reader \in {"hello", "refusing", "receiving", "saving", "flushing", "flushing last",
              "joining", "leaving", "done"}

PlacePart ==
  /\ place \in {"out", "known", "room"}
  /\ place = "room" => role # "none" /\ ~conn.closed

RoomPart ==
  /\ ReaderPart /\ PlacePart /\ Fits(conn, role)
  /\ socket \in {"open", "closed", "gone"}

SessionInv ==
  Sound(conn) /\ OwedPart /\ NumberPart /\ StaysInStep /\ RatePart /\ RoomPart

-----------------------------------------------------------------------------
(* The connection *)

\* A connection stays one when its queue changes.
LEMMA QueueTypes ==
  ASSUME NEW c \in Connections, NEW q \in Seq(Kinds), NEW u \in Nat
  PROVE  [c EXCEPT !.queue = q, !.unfinished = u] \in Connections
BY DEF Connections

\* So it does when the writer takes a frame,
LEMMA TakeTypes ==
  ASSUME NEW c \in Connections, NEW h \in Kinds, NEW q \in Seq(Kinds), NEW a \in Nat
  PROVE  [c EXCEPT !.writer = "sending", !.hand = h, !.queue = q, !.ahead = a] \in Connections
BY DEF Connections

\* has sent it,
LEMMA SentTypes ==
  ASSUME NEW c \in Connections, NEW u \in Nat, NEW a \in Nat
  PROVE  [c EXCEPT !.writer = "waiting", !.hand = "none", !.unfinished = u, !.ahead = a]
           \in Connections
BY DEF Connections

\* is created,
LEMMA NewTypes ==
  ASSUME NEW c \in Connections
  PROVE  [c EXCEPT !.writer = "new"] \in Connections
BY DEF Connections

\* or stops with nothing left to do.
LEMMA StopTypes ==
  ASSUME NEW c \in Connections
  PROVE  [c EXCEPT !.writer = "closing", !.closed = TRUE, !.cancel = FALSE, !.queue = <<>>,
                   !.hand = "none", !.ahead = 0, !.unfinished = 0] \in Connections
<1>1. <<>> \in Seq(Kinds) /\ 0 \in Nat
  OBVIOUS
<1> QED
  BY <1>1 DEF Connections

\* abort() touches no frame.
LEMMA AbortSound ==
  ASSUME NEW c, Sound(c)
  PROVE  Sound(Abort(c)) /\ Abort(c).closed /\ (Waits(Abort(c)) <=> Waits(c))
BY DEF Sound, Connections, Abort, Waits

\* send() adds one unfinished frame, or closes the connection.
LEMMA PutSound ==
  ASSUME NEW c, Sound(c), NEW frame \in Kinds
  PROVE  /\ Sound(Put(c, frame))
         /\ Put(c, frame).closed <=> Refuses(c)
         /\ ~Refuses(c) => (Waits(Put(c, frame)) <=> Waits(c) \/ frame = "fatal")
<1>1. CASE c.closed
  BY <1>1 DEF Put, Refuses
<1>2. CASE ~c.closed /\ Len(c.queue) = QueueLimit
  BY <1>2, AbortSound DEF Put, Refuses
<1>3. CASE ~c.closed /\ Len(c.queue) # QueueLimit
  <2> DEFINE d == [c EXCEPT !.queue = Append(@, frame), !.unfinished = @ + 1]
  <2>1. Put(c, frame) = d /\ ~Refuses(c)
    BY <1>3 DEF Put, Refuses
  <2>2. /\ c.queue \in Seq(Kinds) /\ d.queue = Append(c.queue, frame)
        /\ d.hand = c.hand /\ ~d.closed
    BY <1>3 DEF Sound, Connections
  <2>3. Sound(d)
    <3>1. Append(c.queue, frame) \in Seq(Kinds) /\ Len(Append(c.queue, frame)) = Len(c.queue) + 1
      BY <2>2
    <3>2. c \in Connections /\ c.unfinished + 1 \in Nat
      BY DEF Sound, Connections
    <3>3. d \in Connections
      BY <3>1, <3>2, QueueTypes
    <3> QED
      BY <3>1, <3>3 DEF Sound, Connections
  <2>4. Waits(d) <=> Waits(c) \/ frame = "fatal"
    <3>1. Len(d.queue) = Len(c.queue) + 1 /\ d.queue[Len(c.queue) + 1] = frame
      BY <2>2
    <3>2. \A k \in 1 .. Len(c.queue) : d.queue[k] = c.queue[k]
      BY <2>2
    <3>3. Len(c.queue) \in Nat
      BY <2>2
    <3> QED
      BY <2>2, <3>1, <3>2, <3>3 DEF Waits
  <2> QED
    BY <2>1, <2>2, <2>3, <2>4
<1> QED
  BY <1>1, <1>2, <1>3

\* The end of _run leaves nothing unfinished.
LEMMA StopSound ==
  ASSUME NEW c, Sound(c)
  PROVE  Sound(StopWriter(c)) /\ StopWriter(c).closed
<1>1. c.unfinished - Len(c.queue) - (IF c.writer = "sending" THEN 1 ELSE 0) = 0
  BY DEF Sound, Connections
<1>2. StopWriter(c) = [c EXCEPT !.writer = "closing", !.closed = TRUE, !.cancel = FALSE,
                                !.queue = <<>>, !.hand = "none", !.ahead = 0, !.unfinished = 0]
  BY <1>1 DEF StopWriter
<1>3. StopWriter(c) \in Connections
  <2>1. c \in Connections /\ <<>> \in Seq(Kinds)
    BY DEF Sound
  <2> QED
    BY <1>2, <2>1, StopTypes
<1> QED
  BY <1>2, <1>3 DEF Sound, Connections

-----------------------------------------------------------------------------
(* How a step of handle() ends *)

\* The finally clause owes nothing if nothing was owed.
LEMMA FinishKeeps ==
  ASSUME NEW c, Sound(c), NEW o, o # "owed", Finish(c, o)
  PROVE  Sound(conn') /\ OwedPart' /\ reader' = "joining"
BY AbortSound DEF Finish, OwedPart

\* Going on with the loop.
LEMMA ContinueKeeps ==
  ASSUME NEW c, Sound(c), owes # "owed", Continue(c)
  PROVE  Sound(conn') /\ OwedPart' /\ reader' \in {"joining", "receiving"}
<1>1. CASE c.closed
  BY <1>1, FinishKeeps DEF Continue
<1>2. CASE ~c.closed
  BY <1>2 DEF Continue, OwedPart
<1> QED
  BY <1>1, <1>2

\* A fatal error is queued, or the connection is gone.
LEMMA RaiseKeeps ==
  ASSUME NEW c, Sound(c), NEW how \in {"flushing", "flushing last"}, Raise(c, how)
  PROVE  Sound(conn') /\ OwedPart' /\ reader' = how
BY PutSound DEF Raise, OwedPart, Kinds

\* However a message ends, the connection stays sound and an error is owed only
\* while it waits in the queue; a fatal one ends the loop.
LEMMA EndsKeeps ==
  ASSUME NEW c, Sound(c), owes # "owed", NEW code, Ends(c, code)
  PROVE  /\ Sound(conn') /\ OwedPart'
         /\ code \in FatalCodes \ {"ok"} => reader' \notin {"receiving", "saving"}
         /\ reader' # "saving"
<1>1. CASE code = "ok"
  BY <1>1, ContinueKeeps DEF Ends
<1>2. CASE code # "ok" /\ code \in FatalCodes
  BY <1>2, RaiseKeeps DEF Ends
<1>3. CASE code # "ok" /\ code \notin FatalCodes
  <2>1. Sound(Put(c, "frame"))
    BY PutSound DEF Kinds
  <2>2. Continue(Put(c, "frame"))
    BY <1>3 DEF Ends
  <2> QED
    BY <1>3, <2>1, <2>2, ContinueKeeps
<1> QED
  BY <1>1, <1>2, <1>3

-----------------------------------------------------------------------------
(* Steps of the reader *)

\* A connection that does not exist yet, and one whose writer has not run.
LEMMA NothingYetSound == Sound(NoConnection) /\ Sound([NoConnection EXCEPT !.writer = "new"])
<1>1. <<>> \in Seq(Kinds) /\ Len(<<>>) = 0
  OBVIOUS
<1>2. Sound(NoConnection)
  BY <1>1 DEF NoConnection, Sound, Connections
<1>3. ASSUME NEW c, Sound(c), c.writer # "sending"
      PROVE  Sound([c EXCEPT !.writer = "new"])
  BY <1>3, NewTypes DEF Sound, Connections
<1>4. NoConnection.writer # "sending"
  BY DEF NoConnection
<1> QED
  BY <1>2, <1>3, <1>4

\* When nothing is unfinished, nothing waits.
LEMMA NothingWaits ==
  ASSUME NEW c, Sound(c), c.unfinished = 0
  PROVE  ~Waits(c)
<1>1. Len(c.queue) = 0 /\ c.hand = "none"
  BY DEF Sound, Connections
<1> QED
  BY <1>1 DEF Waits

\* The greeting of a client: its connection is sound, and nothing is owed.
LEMMA JoinedSound ==
  ASSUME NEW r
  PROVE  Sound(Joined(r))
<1> DEFINE one == Put([NoConnection EXCEPT !.writer = "new"], "frame")
<1>1. Sound(one)
  BY NothingYetSound, PutSound DEF Kinds
<1>2. Sound(Put(one, "frame"))
  BY <1>1, PutSound DEF Kinds
<1>3. Sound(Put(Put(one, "frame"), "frame"))
  BY <1>2, PutSound DEF Kinds
<1> QED
  BY <1>1, <1>3 DEF Joined

\* The first frame of a client that is turned away fits.
LEMMA RefusalFits ==
  LET new == [NoConnection EXCEPT !.writer = "new"]
  IN  ~Refuses(new)
<1>1. Len(<<>>) = 0 /\ QueueLimit # 0
  BY SessionAssumption
<1> QED
  BY <1>1 DEF NoConnection, Refuses

\* Handshake, messages and what follows them: each step of handle().
LEMMA ReadsKeep ==
  ASSUME SessionInv, Reads
  PROVE  Sound(conn') /\ OwedPart'
<1> USE DEF SessionInv
<1>1. CASE HelloFails
  BY <1>1 DEF HelloFails, OwedPart
<1>2. ASSUME NEW r \in {"game", "bot"}, HelloAccepted(r)
      PROVE  Sound(conn') /\ OwedPart'
  <2>1. CASE conn' = Joined(r) /\ owes' \in {"no", "excused"}
    BY <2>1, JoinedSound DEF OwedPart
  <2>2. CASE /\ conn' = Put([NoConnection EXCEPT !.writer = "new"], "fatal")
             /\ reader' = "flushing last" /\ owes' = "owed"
    <3>1. Sound(conn') /\ ~conn'.closed /\ Waits(conn')
      BY <2>2, NothingYetSound, RefusalFits, PutSound DEF Kinds
    <3> QED
      BY <2>2, <3>1 DEF OwedPart
  <2> QED
    BY <1>2, <2>1, <2>2 DEF HelloAccepted
<1>3. ASSUME NEW n \in 1 .. MaxIn, Numbers(n)
      PROVE  owes # "owed"
  BY <1>3 DEF Numbers, OwedPart
<1>4. ASSUME NEW n \in 1 .. MaxIn,
             Unparsed(n) \/ OutOfOrder(n) \/ \E kind \in {"hello", "misdirected", "event"} : Message(n, kind)
      PROVE  Sound(conn') /\ OwedPart'
  <2>1. Numbers(n) /\ \E code : Ends(conn, code)
    BY <1>4 DEF Unparsed, OutOfOrder, Message
  <2> QED
    BY <1>3, <2>1, EndsKeeps
<1>5. ASSUME NEW n \in 1 .. MaxIn, Ping(n)
      PROVE  Sound(conn') /\ OwedPart'
  <2>1. Numbers(n) /\ \E code : Ends(Put(conn, "frame"), code)
    BY <1>5 DEF Ping
  <2>2. Sound(Put(conn, "frame"))
    BY PutSound DEF Kinds
  <2> QED
    BY <1>3, <2>1, <2>2, EndsKeeps
<1>6. ASSUME NEW n \in 1 .. MaxIn, Cast(n)
      PROVE  Sound(conn') /\ OwedPart'
  <2>1. /\ Numbers(n)
        /\ \/ \E code : Ends(conn, code)
           \/ UNCHANGED <<conn, owes>>
    BY <1>6 DEF Cast
  <2> QED
    BY <1>3, <2>1, EndsKeeps DEF OwedPart
<1> QED
  BY <1>1, <1>2, <1>4, <1>5, <1>6 DEF Reads

\* What goes on without the client: the flush of an empty queue owes nothing.
LEMMA ProceedsKeep ==
  ASSUME SessionInv, Proceeds
  PROVE  Sound(conn') /\ OwedPart'
<1> USE DEF SessionInv
<1>1. CASE Disconnected
  BY <1>1, FinishKeeps DEF Disconnected, OwedPart
<1>2. CASE Saved
  BY <1>2, EndsKeeps DEF Saved, OwedPart
<1>3. CASE Flushed
  <2>1. ~Waits(conn) /\ reader # "refusing"
    BY <1>3, NothingWaits DEF Flushed
  <2> QED
    BY <1>3, <2>1, FinishKeeps DEF Flushed, OwedPart
<1>4. CASE FlushTimesOut
  <2>1. Excused # "owed"
    BY DEF Excused
  <2> QED
    BY <1>4, <2>1, RaiseKeeps, FinishKeeps DEF FlushTimesOut
<1>5. CASE JoinEnds \/ Leave
  BY <1>5 DEF JoinEnds, Leave, OwedPart
<1>6. CASE RefusalEnds
  BY <1>6 DEF RefusalEnds, OwedPart
<1> QED
  BY <1>1, <1>2, <1>3, <1>4, <1>5, <1>6 DEF Proceeds

-----------------------------------------------------------------------------
(* Steps of the writer, and of other tasks *)

\* The writer takes a frame, or skips a vote: a fatal error still waits.
LEMMA TakesKeeps ==
  ASSUME SessionInv, NEW valid \in BOOLEAN, WriterTakes(valid)
  PROVE  Sound(conn') /\ OwedPart'
<1>1. /\ conn \in Connections /\ conn.writer = "waiting" /\ conn.queue # <<>>
      /\ conn.hand = "none" /\ Sound(conn)
  BY DEF SessionInv, WriterTakes, Sound
<1>2. conn.queue \in Seq(Kinds) /\ conn.queue # <<>>
  BY <1>1 DEF Connections
<1>3. /\ Head(conn.queue) \in Kinds /\ Tail(conn.queue) \in Seq(Kinds)
      /\ Len(conn.queue) \in Nat \ {0} /\ Len(Tail(conn.queue)) = Len(conn.queue) - 1
      /\ \A k \in 1 .. Len(conn.queue) - 1 : Tail(conn.queue)[k] = conn.queue[k + 1]
      /\ Head(conn.queue) = conn.queue[1]
  BY <1>2
<1>4. ASSUME NEW hand, hand = "fatal" \/ conn.queue[1] # "fatal"
      PROVE  Waits(conn) =>
               hand = "fatal" \/ \E k \in 1 .. Len(Tail(conn.queue)) : Tail(conn.queue)[k] = "fatal"
  <2>1. SUFFICES ASSUME NEW k \in 1 .. Len(conn.queue), conn.queue[k] = "fatal", hand # "fatal"
                 PROVE  \E j \in 1 .. Len(Tail(conn.queue)) : Tail(conn.queue)[j] = "fatal"
    BY <1>1 DEF Waits
  <2>2. k # 1 /\ k \in Nat /\ k - 1 \in 1 .. Len(conn.queue) - 1
    BY <1>3, <1>4, <2>1
  <2>3. Tail(conn.queue)[k - 1] = conn.queue[k]
    BY <1>3, <2>2
  <2> QED
    BY <1>3, <2>1, <2>2, <2>3
<1>5. CASE valid
  <2> DEFINE taken == [conn EXCEPT !.writer = "sending", !.hand = Head(conn.queue),
                                   !.queue = Tail(@), !.ahead = @ + 1]
  <2>1. conn' = taken /\ UNCHANGED <<owes, reader>>
    BY <1>5 DEF WriterTakes, WriterUnchanged
  <2>2. conn.ahead = 0 /\ conn.ahead + 1 \in Nat
    BY <1>1 DEF Sound
  <2>3. taken \in Connections
    BY <1>1, <1>3, <2>2, TakeTypes
  <2>4. /\ taken.hand = Head(conn.queue) /\ taken.queue = Tail(conn.queue)
        /\ taken.writer = "sending" /\ taken.ahead = 1
        /\ taken.unfinished = conn.unfinished
        /\ taken.closed = conn.closed /\ taken.cancel = conn.cancel
    BY <1>1, <2>2 DEF Connections
  <2> HIDE DEF taken
  <2>5. taken.hand # "none"
    BY <1>3, <2>4 DEF Kinds
  <2>6. Sound(taken)
    BY <1>1, <1>3, <2>3, <2>4, <2>5 DEF Sound, Connections
  <2>7. Waits(conn) => Waits(taken)
    BY <1>3, <1>4, <2>4 DEF Waits
  <2> QED
    BY <2>1, <2>4, <2>6, <2>7 DEF OwedPart, SessionInv
<1>6. CASE ~valid
  <2> DEFINE skipped == [conn EXCEPT !.queue = Tail(@), !.unfinished = @ - 1]
  <2>1. conn' = skipped /\ UNCHANGED <<owes, reader>> /\ conn.queue[1] = "vote"
    BY <1>3, <1>6 DEF WriterTakes, WriterUnchanged
  <2>2. conn.unfinished - 1 \in Nat /\ conn.unfinished = Len(conn.queue)
    BY <1>1, <1>3 DEF Sound, Connections
  <2>3. skipped \in Connections
    BY <1>1, <1>3, <2>2, QueueTypes
  <2>4. /\ skipped.queue = Tail(conn.queue) /\ skipped.unfinished = conn.unfinished - 1
        /\ skipped.hand = "none" /\ skipped.writer = "waiting" /\ skipped.ahead = conn.ahead
        /\ skipped.closed = conn.closed /\ skipped.cancel = conn.cancel
    BY <1>1 DEF Connections
  <2> HIDE DEF skipped
  <2>5. Sound(skipped)
    BY <1>1, <1>3, <2>2, <2>3, <2>4 DEF Sound, Connections
  <2>6. Waits(conn) => Waits(skipped)
    BY <1>4, <2>1, <2>4 DEF Waits
  <2> QED
    BY <2>1, <2>4, <2>5, <2>6 DEF OwedPart, SessionInv
<1> QED
  BY <1>5, <1>6

\* Each step of _run: what it takes, sends, skips or throws away is accounted for.
LEMMA WritesKeep ==
  ASSUME SessionInv, Writes
  PROVE  Sound(conn') /\ OwedPart'
<1> USE DEF SessionInv, WriterUnchanged
<1>1. CASE WriterStarts
  <2>1. CASE conn.closed
    BY <1>1, <2>1, StopSound DEF WriterStarts, WriterStops, OwedPart
  <2>2. CASE ~conn.closed
    <3>1. conn' = [conn EXCEPT !.writer = "waiting"] /\ UNCHANGED <<owes, reader>>
      BY <1>1, <2>2 DEF WriterStarts
    <3>2. Sound(conn')
      BY <1>1, <3>1 DEF Sound, Connections, WriterStarts
    <3>3. conn'.closed = conn.closed /\ (Waits(conn') <=> Waits(conn))
      BY <3>1 DEF Sound, Connections, Waits
    <3> QED
      BY <3>1, <3>2, <3>3 DEF OwedPart
  <2> QED
    BY <2>1, <2>2
<1>2. ASSUME NEW valid \in BOOLEAN, WriterTakes(valid)
      PROVE  Sound(conn') /\ OwedPart'
  BY <1>2, TakesKeeps
<1>3. CASE WriterSent
  <2> DEFINE rest == [conn EXCEPT !.writer = "waiting", !.hand = "none", !.unfinished = @ - 1,
                                  !.ahead = @ - 1]
  <2>1. conn' = rest /\ UNCHANGED reader /\ conn.writer = "sending"
        /\ owes' = IF conn.hand = "fatal" THEN "answered" ELSE owes
    BY <1>3 DEF WriterSent
  <2>2. conn.unfinished - 1 = Len(conn.queue) /\ conn.ahead - 1 = 0 /\ Len(conn.queue) \in Nat
    BY <2>1 DEF Sound, Connections
  <2>3. Sound(rest)
    <3>1. conn \in Connections /\ conn.unfinished - 1 \in Nat /\ conn.ahead - 1 \in Nat
      BY <2>2 DEF Sound, Connections
    <3>2. rest \in Connections
      BY <3>1, SentTypes
    <3>3. /\ rest.queue = conn.queue /\ rest.unfinished = conn.unfinished - 1
          /\ rest.hand = "none" /\ rest.writer = "waiting" /\ rest.ahead = conn.ahead - 1
          /\ rest.closed = conn.closed /\ rest.cancel = conn.cancel
      BY <3>1 DEF Connections
    <3> HIDE DEF rest
    <3> QED
      BY <2>2, <3>1, <3>2, <3>3 DEF Sound, Connections
  <2>4. conn.hand # "fatal" => (Waits(conn) => Waits(rest))
    BY DEF Waits, Sound, Connections
  <2>5. rest.closed = conn.closed
    BY DEF Sound, Connections
  <2> QED
    BY <2>1, <2>3, <2>4, <2>5 DEF OwedPart
<1>4. CASE WriterFails
  BY <1>4, StopSound DEF WriterFails, WriterStops, Excused, OwedPart
<1>5. CASE WriterCancelled
  <2>1. conn.closed
    BY <1>5 DEF WriterCancelled, Sound
  <2> QED
    BY <1>5, <2>1, StopSound DEF WriterCancelled, WriterStops, OwedPart
<1>6. CASE WriterCloses
  <2>1. conn' = [conn EXCEPT !.writer = "done", !.cancel = FALSE] /\ UNCHANGED <<owes, reader>>
    BY <1>6 DEF WriterCloses
  <2>2. Sound(conn')
    BY <1>6, <2>1 DEF WriterCloses, Sound, Connections
  <2>3. conn'.closed = conn.closed /\ (Waits(conn') <=> Waits(conn))
    BY <2>1 DEF Sound, Connections, Waits
  <2> QED
    BY <2>1, <2>2, <2>3 DEF OwedPart
<1> QED
  BY <1>1, <1>2, <1>3, <1>4, <1>5, <1>6 DEF Writes

\* What other tasks do to the connection: an abort excuses what is owed.
LEMMA OthersKeep ==
  ASSUME SessionInv,
         Tick \/ PeerLeaves \/ HubCloses \/ \E frame \in {"frame", "vote"} : RoomSends(frame)
  PROVE  Sound(conn') /\ OwedPart'
<1> USE DEF SessionInv, WriterUnchanged
<1>1. CASE Tick \/ PeerLeaves
  BY <1>1 DEF Tick, PeerLeaves, OwedPart
<1>2. CASE HubCloses
  BY <1>2, AbortSound DEF HubCloses, Excused, OwedPart
<1>3. ASSUME NEW frame \in {"frame", "vote"}, RoomSends(frame)
      PROVE  Sound(conn') /\ OwedPart'
  BY <1>3, PutSound DEF RoomSends, Excused, OwedPart, Kinds
<1> QED
  BY <1>1, <1>2, <1>3

-----------------------------------------------------------------------------
(* Numbers *)

\* A message that ends with an error of the parser, with a wrong room or with a
\* used number is the last one: whoever counts by one is not left behind.
LEMMA NumberedKeeps ==
  ASSUME SessionInv, NEW n \in 1 .. MaxIn, Numbers(n)
  PROVE  /\ clientSeq' \in Nat
         /\ n = inSeq + 1 /\ inSeq' = n => inSeq' \in Nat /\ StaysInStep'
         /\ n # inSeq + 1 /\ UNCHANGED inSeq => StaysInStep'
<1>1. /\ reader = "receiving" /\ n \in Nat
      /\ clientSeq' = IF n = clientSeq THEN n + 1 ELSE 0
      /\ inSeq \in Nat /\ clientSeq \in Nat
      /\ clientSeq # 0 => clientSeq = inSeq + 1
  BY DEF SessionInv, NumberPart, StaysInStep, Numbers
<1>2. n # inSeq + 1 => clientSeq' = 0
  BY <1>1
<1> QED
  BY <1>1, <1>2 DEF StaysInStep

\* Only a message that was read, or a vote that was saved, brings handle() back
\* to its loop.
LEMMA NumbersKeep ==
  ASSUME SessionInv, [Next]_vars
  PROVE  NumberPart' /\ StaysInStep'
<1>0. inSeq \in Nat /\ clientSeq \in Nat
  BY DEF SessionInv, NumberPart
<1>1. CASE HelloFails
  BY <1>0, <1>1 DEF HelloFails, ReaderUnchanged, NumberPart, StaysInStep
<1>2. ASSUME NEW r \in {"game", "bot"}, HelloAccepted(r)
      PROVE  NumberPart' /\ StaysInStep'
  <2>1. inSeq' = 1 /\ clientSeq' = 2
    BY <1>2 DEF HelloAccepted
  <2> QED
    BY <2>1 DEF NumberPart, StaysInStep
<1>3. ASSUME NEW n \in 1 .. MaxIn, Unparsed(n)
      PROVE  NumberPart' /\ StaysInStep'
  <2>1. /\ Numbers(n) /\ UNCHANGED inSeq
        /\ \E code \in ParseCodes \cup {"protocol.origin_mismatch"} : Ends(conn, code)
    BY <1>3 DEF Unparsed
  <2>2. ParseCodes \cup {"protocol.origin_mismatch"} \subseteq FatalCodes \ {"ok"}
    BY DEF ParseCodes, FatalCodes
  <2>3. Sound(conn) /\ owes # "owed"
    BY <2>1 DEF SessionInv, OwedPart, Numbers
  <2>4. reader' \notin {"receiving", "saving"}
    BY <2>1, <2>2, <2>3, EndsKeeps
  <2> QED
    BY <1>0, <2>1, <2>4, NumberedKeeps DEF NumberPart, StaysInStep
<1>4. ASSUME NEW n \in 1 .. MaxIn, OutOfOrder(n)
      PROVE  NumberPart' /\ StaysInStep'
  <2>1. Numbers(n) /\ UNCHANGED inSeq /\ n # inSeq + 1
    BY <1>4 DEF OutOfOrder
  <2> QED
    BY <1>0, <2>1, NumberedKeeps DEF NumberPart
<1>5. ASSUME NEW n \in 1 .. MaxIn,
             Ping(n) \/ Cast(n) \/ \E kind \in {"hello", "misdirected", "event"} : Message(n, kind)
      PROVE  NumberPart' /\ StaysInStep'
  <2>1. Numbers(n) /\ n = inSeq + 1 /\ inSeq' = n
    BY <1>5 DEF Ping, Cast, Message
  <2> QED
    BY <2>1, NumberedKeeps DEF NumberPart
<1>6. CASE Proceeds
  <2>1. UNCHANGED <<inSeq, clientSeq>>
    BY <1>6 DEF Proceeds, Disconnected, Saved, Flushed, FlushTimesOut, JoinEnds, Leave,
                RefusalEnds, ReaderUnchanged
  <2>2. reader = "saving" \/ reader' \notin {"receiving", "saving"}
    BY <1>6 DEF Proceeds, Disconnected, Saved, Flushed, FlushTimesOut, JoinEnds, Leave,
                RefusalEnds, Finish, Raise
  <2> QED
    BY <1>0, <2>1, <2>2 DEF SessionInv, NumberPart, StaysInStep
<1>7. CASE \/ Writes \/ Tick \/ PeerLeaves \/ HubCloses \/ UNCHANGED vars
           \/ \E frame \in {"frame", "vote"} : RoomSends(frame)
  <2>1. UNCHANGED <<reader, inSeq, clientSeq>>
    BY <1>7 DEF Writes, WriterStarts, WriterTakes, WriterSent, WriterFails, WriterCancelled,
                WriterCloses, WriterUnchanged, ReaderUnchanged, Tick, PeerLeaves, HubCloses,
                RoomSends, vars
  <2> QED
    BY <1>0, <2>1 DEF SessionInv, NumberPart, StaysInStep
<1> QED
  BY <1>1, <1>2, <1>3, <1>4, <1>5, <1>6, <1>7 DEF Next, Reads

-----------------------------------------------------------------------------
(* The rate limit *)

\* popleft stops at the cut.
LEMMA YoungerIsCut ==
  ASSUME NEW s \in Seq(Nat), NEW a \in Nat, NEW n, Cut(s, a, n)
  PROVE  Younger(s, a) = SubSeq(s, n + 1, Len(s))
<1> DEFINE Stops(c) == /\ \A i \in 1 .. c : s[i] >= a
                       /\ c < Len(s) => s[c + 1] < a
           c == CHOOSE c \in 0 .. Len(s) : Stops(c)
<1>1. Len(s) \in Nat /\ n \in 0 .. Len(s) /\ \A i \in 1 .. Len(s) : s[i] \in Nat
  BY DEF Cut
<1>2. Stops(n)
  <2>1. ASSUME n < Len(s)
        PROVE  s[n + 1] < a
    <3>1. n + 1 \in 1 .. Len(s) /\ ~(n + 1 <= n)
      BY <1>1, <2>1
    <3>2. ~(s[n + 1] >= a)
      BY <3>1 DEF Cut
    <3> QED
      BY <1>1, <3>1, <3>2
  <2>2. \A i \in 1 .. n : i \in 1 .. Len(s) /\ i <= n
    BY <1>1
  <2> QED
    BY <2>1, <2>2 DEF Cut
<1>3. c \in 0 .. Len(s) /\ Stops(c)
  <2> HIDE DEF Stops
  <2> QED
    BY <1>1, <1>2
<1> HIDE DEF c
<1>4. c <= n
  <2>1. SUFFICES ASSUME c # 0
                 PROVE  c <= n
    BY <1>1, <1>3
  <2>2. c \in 1 .. c /\ c \in 1 .. Len(s)
    BY <1>1, <1>3, <2>1
  <2> QED
    BY <1>3, <2>2 DEF Cut
<1>5. n <= c
  <2>1. SUFFICES ASSUME c < Len(s)
                 PROVE  n <= c
    BY <1>1, <1>3
  <2>2. c + 1 \in 1 .. Len(s) /\ s[c + 1] < a /\ s[c + 1] \in Nat
    BY <1>1, <1>3, <2>1
  <2>3. ~(s[c + 1] >= a)
    BY <2>2
  <2>4. ~(c + 1 <= n)
    BY <2>2, <2>3 DEF Cut
  <2> QED
    BY <1>1, <1>3, <2>4
<1>6. c = n
  BY <1>1, <1>3, <1>4, <1>5
<1> QED
  BY <1>6 DEF Younger, c

\* What is left of the stamps: the young ones, in the same order.
LEMMA FreshShape ==
  ASSUME RatePart, NEW n, Cut(stamps, SecondTicks, n)
  PROVE  /\ n \in Nat /\ Len(stamps) \in Nat /\ n <= Len(stamps)
         /\ Fresh = SubSeq(stamps, n + 1, Len(stamps))
         /\ Fresh \in Seq(0 .. SecondTicks) /\ Len(Fresh) = Len(stamps) - n
         /\ \A i \in 1 .. Len(Fresh) : Fresh[i] = stamps[n + i] /\ Fresh[i] < SecondTicks
<1>1. /\ stamps \in Seq(0 .. SecondTicks) /\ stamps \in Seq(Nat) /\ SecondTicks \in Nat
      /\ n \in 0 .. Len(stamps) /\ Len(stamps) \in Nat
  BY SessionAssumption DEF RatePart, Cut
<1>2. Fresh = SubSeq(stamps, n + 1, Len(stamps))
  BY <1>1, YoungerIsCut DEF Fresh
<1>3. /\ Fresh \in Seq(0 .. SecondTicks) /\ Len(Fresh) = Len(stamps) - n
      /\ \A i \in 1 .. Len(stamps) - n : Fresh[i] = stamps[n + i]
  BY <1>1, <1>2
<1>4. ASSUME NEW i \in 1 .. Len(stamps) - n
      PROVE  stamps[n + i] < SecondTicks
  <2>1. n + i \in 1 .. Len(stamps) /\ ~(n + i <= n) /\ stamps[n + i] \in Nat
    BY <1>1
  <2> QED
    BY <1>1, <2>1 DEF Cut
<1>5. \A i \in 1 .. Len(Fresh) : Fresh[i] = stamps[n + i] /\ Fresh[i] < SecondTicks
  BY <1>3, <1>4
<1>6. n \in Nat /\ n <= Len(stamps)
  BY <1>1
<1> QED
  BY <1>1, <1>2, <1>3, <1>5, <1>6

\* A second is at least a tick, so the stamps have a cut there.
LEMMA SecondCut ==
  ASSUME RatePart
  PROVE  \E n : Cut(stamps, SecondTicks, n)
<1>1. SecondTicks \in 1 .. SecondTicks
  BY SessionAssumption
<1> QED
  BY <1>1 DEF RatePart

\* Nothing more is dropped from what is left, with or without a new stamp.
LEMMA FreshIsFresh ==
  ASSUME RatePart, NEW s, s = Fresh \/ s = Append(Fresh, 0)
  PROVE  /\ s \in Seq(0 .. SecondTicks)
         /\ \A a \in 1 .. SecondTicks : \E m : Cut(s, a, m)
         /\ Younger(s, SecondTicks) = s
<1>0. PICK n : Cut(stamps, SecondTicks, n)
  BY SecondCut
<1>1. /\ n \in Nat /\ Len(stamps) \in Nat /\ n <= Len(stamps)
      /\ Fresh \in Seq(0 .. SecondTicks) /\ Len(Fresh) = Len(stamps) - n
      /\ \A i \in 1 .. Len(Fresh) : Fresh[i] = stamps[n + i] /\ Fresh[i] < SecondTicks
  BY <1>0, FreshShape
<1>2. SecondTicks \in Nat \ {0} /\ stamps \in Seq(0 .. SecondTicks)
  BY SessionAssumption DEF RatePart
<1>3. /\ s \in Seq(0 .. SecondTicks) /\ Len(s) \in {Len(Fresh), Len(Fresh) + 1} /\ Len(s) \in Nat
      /\ \A i \in 1 .. Len(Fresh) : s[i] = Fresh[i]
      /\ \A i \in 1 .. Len(s) : i \in 1 .. Len(Fresh) \/ s[i] = 0
  <2>1. CASE s = Fresh
    BY <1>1, <2>1
  <2>2. CASE s = Append(Fresh, 0)
    <3>1. 0 \in 0 .. SecondTicks
      BY <1>2
    <3>2. /\ s \in Seq(0 .. SecondTicks) /\ Len(s) = Len(Fresh) + 1 /\ s[Len(Fresh) + 1] = 0
          /\ \A i \in 1 .. Len(Fresh) : s[i] = Fresh[i]
      BY <1>1, <2>2, <3>1
    <3> QED
      BY <1>1, <3>2
  <2> QED
    BY <2>1, <2>2
<1>4. ASSUME NEW a \in 1 .. SecondTicks
      PROVE  \E m : Cut(s, a, m)
  <2>1. PICK k : Cut(stamps, a, k)
    BY DEF RatePart
  <2>2. k \in 0 .. Len(stamps) /\ \A i \in 1 .. Len(stamps) : stamps[i] >= a <=> i <= k
    BY <2>1 DEF Cut
  <2>3. n <= k
    <3>1. SUFFICES ASSUME n # 0
                   PROVE  n <= k
      BY <1>1, <2>2
    <3>2. n \in 1 .. Len(stamps) /\ stamps[n] >= SecondTicks /\ stamps[n] \in Nat
      BY <1>0, <1>1, <1>2, <3>1 DEF Cut
    <3>3. stamps[n] >= a
      BY <1>2, <3>2
    <3> QED
      BY <2>2, <3>2, <3>3
  <2> DEFINE m == k - n
  <2>4. m \in 0 .. Len(Fresh) /\ m \in 0 .. Len(s)
    BY <1>1, <1>3, <2>2, <2>3
  <2>5. ASSUME NEW i \in 1 .. Len(s)
        PROVE  s[i] >= a <=> i <= m
    <3>1. CASE i \in 1 .. Len(Fresh)
      <4>1. s[i] = stamps[n + i] /\ n + i \in 1 .. Len(stamps)
        BY <1>1, <1>3, <3>1
      <4>2. n + i <= k <=> i <= m
        BY <1>1, <2>2
      <4> QED
        BY <2>2, <4>1, <4>2
    <3>2. CASE i \notin 1 .. Len(Fresh)
      BY <1>1, <1>2, <1>3, <2>4, <3>2
    <3> QED
      BY <3>1, <3>2
  <2> HIDE DEF m
  <2> QED
    BY <2>4, <2>5 DEF Cut
<1>5. Cut(s, SecondTicks, 0)
  <2>1. ASSUME NEW i \in 1 .. Len(s)
        PROVE  ~(s[i] >= SecondTicks)
    <3>1. CASE i \in 1 .. Len(Fresh)
      <4>1. Fresh \in Seq(0 .. SecondTicks) /\ i \in 1 .. Len(Fresh)
        BY <1>1, <3>1
      <4>2. Fresh[i] \in 0 .. SecondTicks
        BY <4>1, ElementOfSeq
      <4>3. s[i] = Fresh[i] /\ Fresh[i] < SecondTicks
        BY <1>1, <1>3, <4>1, Zenon
      <4> QED
        BY <1>2, <4>2, <4>3
    <3>2. CASE s[i] = 0
      BY <1>2, <3>2
    <3> QED
      BY <1>3, <3>1, <3>2
  <2>2. 0 \in 0 .. Len(s) /\ \A i \in 1 .. Len(s) : ~(i <= 0)
    BY <1>3
  <2> QED
    BY <2>1, <2>2 DEF Cut
<1>6. s \in Seq(Nat) /\ SubSeq(s, 1, Len(s)) = s
  <2>1. s \in Seq(Nat)
    BY <1>2, <1>3
  <2>2. /\ SubSeq(s, 1, Len(s)) \in Seq(Nat) /\ Len(SubSeq(s, 1, Len(s))) = Len(s)
        /\ \A i \in 1 .. Len(s) : SubSeq(s, 1, Len(s))[i] = s[i]
    BY <1>3, <2>1
  <2> HIDE DEF RatePart
  <2> QED
    BY <2>1, <2>2, SeqEqual
<1>7. Younger(s, SecondTicks) = SubSeq(s, 1, Len(s))
  <2>1. Younger(s, SecondTicks) = SubSeq(s, 0 + 1, Len(s))
    BY <1>2, <1>5, <1>6, YoungerIsCut
  <2>2. 0 + 1 = 1
    OBVIOUS
  <2> QED
    BY <2>1, <2>2, Zenon
<1> QED
  BY <1>3, <1>4, <1>6, <1>7, Zenon

\* A new cast, admitted or turned away, keeps the account.
LEMMA CastRate ==
  ASSUME RatePart, NEW n, Cast(n)
  PROVE  RatePart'
<1>0. PICK k : Cut(stamps, SecondTicks, k)
  BY SecondCut
<1>1. /\ Fresh \in Seq(0 .. SecondTicks) /\ Len(Fresh) \in Nat /\ CastLimit \in Nat
      /\ Len(Fresh) <= Len(stamps) /\ Len(stamps) \in Nat /\ Len(stamps) <= CastLimit
  <2>1. /\ k \in Nat /\ Len(stamps) \in Nat /\ k <= Len(stamps)
        /\ Fresh \in Seq(0 .. SecondTicks) /\ Len(Fresh) = Len(stamps) - k
    BY <1>0, FreshShape
  <2> QED
    BY <2>1, SessionAssumption DEF RatePart
<1>2. recent = Fresh /\ ~wronged
  BY DEF RatePart
<1>3. Fresh' = Younger(stamps', SecondTicks)
  BY DEF Fresh
<1>4. CASE Len(Fresh) >= CastLimit
  <2>1. stamps' = Fresh /\ recent' = recent /\ wronged' = (wronged \/ Len(recent) < CastLimit)
    BY <1>4 DEF Cast
  <2>2. ~wronged'
    <3>1. ~(Len(recent) < CastLimit)
      BY <1>1, <1>2, <1>4
    <3> QED
      BY <1>2, <2>1, <3>1, Zenon
  <2>3. /\ stamps' \in Seq(0 .. SecondTicks)
        /\ \A a \in 1 .. SecondTicks : \E m : Cut(stamps', a, m)
        /\ Fresh' = stamps'
    BY <1>3, <2>1, FreshIsFresh
  <2>4. Len(stamps') <= CastLimit /\ recent' = Fresh'
    BY <1>1, <1>2, <2>1, <2>3
  <2> QED
    BY <2>2, <2>3, <2>4 DEF RatePart, Cut
<1>5. CASE ~(Len(Fresh) >= CastLimit)
  <2>1. stamps' = Append(Fresh, 0) /\ recent' = Append(recent, 0) /\ wronged' = wronged
    BY <1>5 DEF Cast
  <2>2. /\ stamps' \in Seq(0 .. SecondTicks)
        /\ \A a \in 1 .. SecondTicks : \E m : Cut(stamps', a, m)
        /\ Fresh' = stamps'
    BY <1>3, <2>1, FreshIsFresh
  <2>3. Len(stamps') = Len(Fresh) + 1
    BY <1>1, <2>1
  <2>4. Len(stamps') <= CastLimit /\ recent' = Fresh' /\ ~wronged'
    BY <1>1, <1>2, <1>5, <2>1, <2>2, <2>3
  <2> QED
    BY <2>2, <2>4 DEF RatePart, Cut
<1> QED
  BY <1>4, <1>5

\* A tick moves every cut by one age, and what counts grows old with its stamp.
LEMMA TickRate ==
  ASSUME RatePart, Tick
  PROVE  RatePart'
<1> DEFINE older == [i \in 1 .. Len(recent) |-> recent[i] + 1]
<1>0. PICK n : Cut(stamps, SecondTicks, n)
  BY SecondCut
<1>1. /\ n \in Nat /\ Len(stamps) \in Nat /\ n <= Len(stamps)
      /\ recent = Fresh /\ recent \in Seq(0 .. SecondTicks) /\ Len(recent) = Len(stamps) - n
      /\ \A i \in 1 .. Len(recent) : recent[i] = stamps[n + i] /\ recent[i] < SecondTicks
  BY <1>0, FreshShape DEF RatePart
<1>2. /\ SecondTicks \in Nat \ {0} /\ stamps \in Seq(0 .. SecondTicks) /\ Len(stamps) <= CastLimit
      /\ \A i \in 1 .. Len(stamps) : stamps[i] \in 0 .. SecondTicks
      /\ ~wronged
  BY SessionAssumption DEF RatePart
<1>3. /\ stamps' = [i \in 1 .. Len(stamps) |-> IF stamps[i] < SecondTicks THEN stamps[i] + 1
                                               ELSE stamps[i]]
      /\ recent' = Younger(older, SecondTicks) /\ wronged' = wronged
  <2>1. DOMAIN stamps = 1 .. Len(stamps) /\ DOMAIN recent = 1 .. Len(recent)
    BY <1>1, <1>2
  <2> QED
    BY <2>1 DEF Tick
<1>4. \A i \in 1 .. Len(stamps) :
        stamps'[i] = (IF stamps[i] < SecondTicks THEN stamps[i] + 1 ELSE stamps[i])
        /\ stamps'[i] \in 0 .. SecondTicks
  BY <1>2, <1>3
<1>5. stamps' \in Seq(0 .. SecondTicks) /\ Len(stamps') = Len(stamps) /\ stamps' \in Seq(Nat)
  BY <1>1, <1>2, <1>3, <1>4
<1>6. older \in Seq(Nat) /\ Len(older) = Len(recent)
      /\ \A i \in 1 .. Len(recent) : older[i] = stamps'[n + i]
  <2>1. ASSUME NEW i \in 1 .. Len(recent)
        PROVE  older[i] = stamps'[n + i] /\ older[i] \in Nat
    <3>1. n + i \in 1 .. Len(stamps) /\ recent[i] = stamps[n + i] /\ recent[i] < SecondTicks
      BY <1>1
    <3>2. older[i] = recent[i] + 1 /\ stamps[n + i] \in 0 .. SecondTicks
      BY <1>2, <3>1
    <3> QED
      BY <1>4, <3>1, <3>2
  <2> QED
    BY <1>1, <2>1
<1>7. ASSUME NEW a \in 1 .. SecondTicks
      PROVE  \E m : Cut(stamps', a, m)
  <2>1. CASE a = 1
    <3>1. ASSUME NEW i \in 1 .. Len(stamps)
          PROVE  stamps'[i] >= 1
      <4>1. stamps[i] \in 0 .. SecondTicks
        BY <1>2, ElementOfSeq
      <4>2. stamps'[i] = (IF stamps[i] < SecondTicks THEN stamps[i] + 1 ELSE stamps[i])
        BY <1>4
      <4> QED
        BY <4>1, <4>2, SessionAssumption
    <3>2. Len(stamps') \in Nat /\ Len(stamps') = Len(stamps)
      BY <1>5
    <3>3. Cut(stamps', 1, Len(stamps'))
      BY <3>1, <3>2 DEF Cut
    <3> QED
      BY <2>1, <3>3
  <2>2. CASE a # 1
    <3>1. a - 1 \in 1 .. SecondTicks
      BY <1>2, <2>2
    <3>2. PICK m : Cut(stamps, a - 1, m)
      BY <3>1 DEF RatePart
    <3>3. ASSUME NEW i \in 1 .. Len(stamps)
          PROVE  stamps'[i] >= a <=> stamps[i] >= a - 1
      BY <1>2, <1>4, <2>2
    <3>4. Cut(stamps', a, m)
      BY <1>5, <3>2, <3>3 DEF Cut
    <3> QED
      BY <3>4
  <2> QED
    BY <2>1, <2>2
<1>8. PICK m : Cut(stamps', SecondTicks, m)
  <2>1. SecondTicks \in 1 .. SecondTicks
    BY <1>2
  <2> QED
    BY <1>7, <2>1
<1>9. m \in 0 .. Len(stamps) /\ \A i \in 1 .. Len(stamps) : stamps'[i] >= SecondTicks <=> i <= m
  BY <1>5, <1>8 DEF Cut
<1>10. n <= m
  <2>1. SUFFICES ASSUME n # 0
                 PROVE  n <= m
    BY <1>1, <1>9
  <2>2. n \in 1 .. Len(stamps) /\ stamps[n] >= SecondTicks
    BY <1>0, <1>1, <2>1 DEF Cut
  <2>3. stamps'[n] >= SecondTicks
    BY <1>2, <1>4, <2>2
  <2> QED
    BY <1>9, <2>2, <2>3
<1> HIDE DEF older
<1>11. Cut(older, SecondTicks, m - n)
  <2>1. m - n \in 0 .. Len(older)
    BY <1>1, <1>6, <1>9, <1>10
  <2>2. ASSUME NEW i \in 1 .. Len(older)
        PROVE  older[i] >= SecondTicks <=> i <= m - n
    <3>1. n + i \in 1 .. Len(stamps) /\ older[i] = stamps'[n + i]
      BY <1>1, <1>6
    <3>2. n + i <= m <=> i <= m - n
      BY <1>1, <1>9
    <3> QED
      BY <1>9, <3>1, <3>2
  <2> QED
    BY <2>1, <2>2 DEF Cut
<1>12. recent' = SubSeq(older, m - n + 1, Len(older))
  BY <1>2, <1>3, <1>6, <1>11, YoungerIsCut
<1>13. Fresh' = SubSeq(stamps', m + 1, Len(stamps'))
  <2>1. Younger(stamps', SecondTicks) = SubSeq(stamps', m + 1, Len(stamps'))
    BY <1>2, <1>5, <1>8, YoungerIsCut
  <2> QED
    BY <2>1 DEF Fresh
<1>14. recent' = Fresh'
  <2>1. /\ recent' \in Seq(Nat) /\ Len(recent') = Len(stamps) - m
        /\ \A i \in 1 .. Len(stamps) - m : recent'[i] = older[(m - n) + i]
    BY <1>1, <1>6, <1>9, <1>10, <1>12
  <2>2. /\ Fresh' \in Seq(Nat) /\ Len(Fresh') = Len(stamps) - m
        /\ \A i \in 1 .. Len(stamps) - m : Fresh'[i] = stamps'[m + i]
    BY <1>1, <1>5, <1>9, <1>13
  <2>3. ASSUME NEW i \in 1 .. Len(stamps) - m
        PROVE  older[(m - n) + i] = stamps'[m + i]
    <3>1. (m - n) + i \in 1 .. Len(recent) /\ n + ((m - n) + i) = m + i
      BY <1>1, <1>9, <1>10
    <3> QED
      BY <1>6, <3>1
  <2>4. \A i \in 1 .. Len(recent') : recent'[i] = Fresh'[i]
    BY <2>1, <2>2, <2>3
  <2>5. Len(recent') = Len(Fresh')
    BY <2>1, <2>2
  <2> QED
    BY <2>1, <2>2, <2>4, <2>5, SeqEqual
<1> QED
  BY <1>2, <1>3, <1>5, <1>7, <1>14 DEF RatePart, Cut

\* Nothing else touches a stamp.
LEMMA RateKeeps ==
  ASSUME RatePart, [Next]_vars
  PROVE  RatePart'
<1>1. ASSUME UNCHANGED <<stamps, recent, wronged>>
      PROVE  RatePart'
  BY <1>1 DEF RatePart, Fresh, Cut
<1>2. CASE Tick
  BY <1>2, TickRate
<1>3. ASSUME NEW n \in 1 .. MaxIn, Cast(n)
      PROVE  RatePart'
  BY <1>3, CastRate
<1>4. CASE Reads
  <2>1. \/ UNCHANGED <<stamps, recent, wronged>>
        \/ \E n \in 1 .. MaxIn : Cast(n)
    BY <1>4 DEF Reads, HelloFails, HelloAccepted, Unparsed, OutOfOrder, Message, Ping,
                ReaderUnchanged
  <2> QED
    BY <1>1, <1>3, <2>1
<1>5. CASE Proceeds
  BY <1>1, <1>5 DEF Proceeds, Disconnected, Saved, Flushed, FlushTimesOut, JoinEnds, Leave,
                    RefusalEnds, ReaderUnchanged
<1>6. CASE \/ Writes \/ PeerLeaves \/ HubCloses \/ UNCHANGED vars
           \/ \E frame \in {"frame", "vote"} : RoomSends(frame)
  BY <1>1, <1>6 DEF Writes, WriterStarts, WriterTakes, WriterSent, WriterFails, WriterCancelled,
                    WriterCloses, WriterUnchanged, ReaderUnchanged, PeerLeaves, HubCloses,
                    RoomSends, vars
<1> QED
  BY <1>2, <1>4, <1>5, <1>6 DEF Next

-----------------------------------------------------------------------------
(* The room *)

\* An abort or a new frame leaves the writer what it is, and the queue fits.
LEMMA PutFits ==
  ASSUME NEW c, Sound(c), NEW r, Fits(c, r), NEW frame \in Kinds
  PROVE  /\ Fits(Abort(c), r) /\ Abort(c).closed
         /\ Fits(Put(c, frame), r)
<1>1. Fits(Abort(c), r) /\ Abort(c).closed
  <2>1. CASE c.writer = "new"
    BY <2>1 DEF Sound, Connections, Fits, Abort
  <2>2. CASE c.writer # "new"
    BY <2>2 DEF Sound, Connections, Fits, Abort
  <2> QED
    BY <2>1, <2>2
<1>2. CASE c.closed \/ Len(c.queue) = QueueLimit
  BY <1>1, <1>2 DEF Put
<1>3. CASE ~c.closed /\ Len(c.queue) # QueueLimit
  <2>1. Put(c, frame) = [c EXCEPT !.queue = Append(@, frame), !.unfinished = @ + 1]
    BY <1>3 DEF Put
  <2>2. c.queue \in Seq(Kinds) /\ Len(c.queue) \in Nat /\ Len(c.queue) <= QueueLimit
        /\ QueueLimit \in Nat
    BY SessionAssumption DEF Sound, Connections, Fits
  <2>3. Put(c, frame).writer = c.writer /\ Put(c, frame).queue = Append(c.queue, frame)
    BY <2>1 DEF Sound, Connections
  <2>4. Len(Append(c.queue, frame)) <= QueueLimit
    BY <1>3, <2>2
  <2> QED
    BY <1>1, <2>3, <2>4 DEF Fits
<1> QED
  BY <1>1, <1>2, <1>3

\* However a message ends, whoever stays in the room is open.
LEMMA EndsFits ==
  ASSUME RoomPart, NEW c, Sound(c), Fits(c, role), NEW code, Ends(c, code), UNCHANGED role
  PROVE  ReaderPart' /\ PlacePart' /\ Fits(conn', role')
<1>1. ASSUME NEW d, Sound(d), Fits(d, role), Continue(d)
      PROVE  ReaderPart' /\ PlacePart' /\ Fits(conn', role')
  <2>1. CASE d.closed
    BY <1>1, <2>1, PutFits DEF Continue, Finish, RoomPart, ReaderPart, PlacePart, Kinds
  <2>2. CASE ~d.closed
    BY <1>1, <2>2 DEF Continue, RoomPart, ReaderPart, PlacePart
  <2> QED
    BY <2>1, <2>2
<1>2. CASE code = "ok"
  BY <1>1, <1>2 DEF Ends
<1>3. CASE code # "ok" /\ code \in FatalCodes
  <2>1. PICK how \in {"flushing", "flushing last"} : Raise(c, how)
    BY <1>3 DEF Ends
  <2>2. Fits(Put(c, "fatal"), role) /\ (Put(c, "fatal").closed <=> Refuses(c))
    BY PutFits, PutSound DEF Kinds
  <2> QED
    BY <2>1, <2>2 DEF Raise, RoomPart, ReaderPart, PlacePart
<1>4. CASE code # "ok" /\ code \notin FatalCodes
  <2>1. Continue(Put(c, "frame"))
    BY <1>4 DEF Ends
  <2>2. Sound(Put(c, "frame")) /\ Fits(Put(c, "frame"), role)
    BY PutFits, PutSound DEF Kinds
  <2> QED
    BY <1>1, <2>1, <2>2
<1> QED
  BY <1>2, <1>3, <1>4

\* The greeting fits, or the client is not in the room.
LEMMA GreetingFits ==
  ASSUME SessionInv, NEW r \in {"game", "bot"}, HelloAccepted(r)
  PROVE  ReaderPart' /\ PlacePart' /\ Fits(conn', role') /\ UNCHANGED socket
<1> DEFINE new == [NoConnection EXCEPT !.writer = "new"]
           one == Put(new, "frame")
<1>1. Sound(new) /\ Fits(new, r)
  <2>1. new.writer = "new" /\ new.queue = <<>> /\ Len(<<>>) = 0 /\ 0 <= QueueLimit
    BY SessionAssumption DEF NoConnection
  <2> QED
    BY <2>1, NothingYetSound DEF Fits
<1> HIDE DEF new
<1>2. Sound(one) /\ Fits(one, r) /\ Fits(Put(new, "fatal"), r)
  BY <1>1, PutFits, PutSound DEF Kinds
<1> HIDE DEF one
<1>3. Sound(Put(one, "frame")) /\ Fits(Put(one, "frame"), r)
  BY <1>2, PutFits, PutSound DEF Kinds
<1>4. Fits(Put(Put(one, "frame"), "frame"), r)
  BY <1>3, PutFits DEF Kinds
<1>5. Fits(Joined(r), r)
  BY <1>2, <1>4 DEF Joined, one, new
<1>6. /\ role' = r /\ UNCHANGED socket
      /\ \/ /\ conn' = Joined(r) /\ reader' \in {"flushing last", "receiving"}
            /\ place' = IF Joined(r).closed THEN "out" ELSE "room"
         \/ /\ conn' = Put(new, "fatal") /\ reader' = "flushing last" /\ place' = "known"
  BY DEF HelloAccepted, new
<1> QED
  BY <1>2, <1>5, <1>6 DEF ReaderPart, PlacePart

\* The steps of handle() after the greeting.
LEMMA HandleFits ==
  ASSUME SessionInv, Reads \/ Proceeds
  PROVE  RoomPart'
<1> USE DEF SessionInv
<1>1. ASSUME NEW n \in 1 .. MaxIn,
             \/ Unparsed(n) \/ OutOfOrder(n) \/ Ping(n)
             \/ \E kind \in {"hello", "misdirected", "event"} : Message(n, kind)
      PROVE  RoomPart'
  <2>1. /\ \E c \in {conn, Put(conn, "frame")} : \E code : Ends(c, code)
        /\ UNCHANGED <<role, socket>>
    BY <1>1 DEF Unparsed, OutOfOrder, Ping, Message, Numbers
  <2>2. Sound(Put(conn, "frame")) /\ Fits(Put(conn, "frame"), role)
    BY PutSound, PutFits DEF RoomPart, Kinds
  <2> QED
    BY <2>1, <2>2, EndsFits DEF RoomPart
<1>2. ASSUME NEW n \in 1 .. MaxIn, Cast(n)
      PROVE  RoomPart'
  <2>1. /\ \/ \E code : Ends(conn, code)
           \/ reader' = "saving" /\ UNCHANGED <<conn, place>>
        /\ UNCHANGED <<role, socket>>
    BY <1>2 DEF Cast, Numbers
  <2>2. CASE \E code : Ends(conn, code)
    BY <2>1, <2>2, EndsFits DEF RoomPart
  <2>3. CASE reader' = "saving" /\ UNCHANGED <<conn, place>>
    BY <2>1, <2>3 DEF RoomPart, ReaderPart, PlacePart
  <2> QED
    BY <2>1, <2>2, <2>3
<1>3. CASE HelloFails
  BY <1>3 DEF HelloFails, RoomPart, ReaderPart, PlacePart
<1>4. ASSUME NEW r \in {"game", "bot"}, HelloAccepted(r)
      PROVE  RoomPart'
  BY <1>4, GreetingFits DEF RoomPart
<1>5. CASE Saved
  BY <1>5, EndsFits DEF Saved, RoomPart
<1>6. CASE Disconnected \/ Flushed \/ FlushTimesOut
  <2>1. /\ UNCHANGED <<role, socket>>
        /\ \/ reader' = "leaving" /\ UNCHANGED <<conn, place>>
           \/ \E o : Finish(conn, o)
           \/ Raise(conn, "flushing last")
    BY <1>6 DEF Disconnected, Flushed, FlushTimesOut
  <2>2. /\ Fits(Abort(conn), role)
        /\ Fits(Put(conn, "fatal"), role) /\ (Put(conn, "fatal").closed <=> Refuses(conn))
    BY PutFits, PutSound DEF RoomPart, Kinds
  <2> QED
    BY <2>1, <2>2 DEF Finish, Raise, RoomPart, ReaderPart, PlacePart
<1>7. CASE JoinEnds \/ Leave \/ RefusalEnds
  BY <1>7 DEF JoinEnds, Leave, RefusalEnds, RoomPart, ReaderPart, PlacePart
<1> QED
  BY <1>1, <1>2, <1>3, <1>4, <1>5, <1>6, <1>7 DEF Reads, Proceeds

\* The steps of the writer and of other tasks.
LEMMA OthersFit ==
  ASSUME SessionInv,
         \/ Writes \/ Tick \/ PeerLeaves \/ HubCloses \/ UNCHANGED vars
         \/ \E frame \in {"frame", "vote"} : RoomSends(frame)
  PROVE  RoomPart'
<1> USE DEF SessionInv, WriterUnchanged
<1>0. conn \in Connections /\ Fits(conn, role) /\ QueueLimit \in Nat
  BY SessionAssumption DEF Sound, RoomPart
<1>1. CASE Tick \/ PeerLeaves \/ UNCHANGED vars
  BY <1>1 DEF Tick, PeerLeaves, RoomPart, ReaderPart, PlacePart, vars
<1>2. CASE HubCloses
  BY <1>2, PutFits DEF HubCloses, RoomPart, ReaderPart, PlacePart, Kinds
<1>3. ASSUME NEW frame \in {"frame", "vote"}, RoomSends(frame)
      PROVE  RoomPart'
  <2>1. Fits(Put(conn, frame), role) /\ (Put(conn, frame).closed <=> Refuses(conn))
    BY <1>0, PutFits, PutSound DEF Kinds
  <2> QED
    BY <1>3, <2>1 DEF RoomSends, RoomPart, ReaderPart, PlacePart
<1>4. ASSUME NEW o, WriterStops(o), conn.writer # "absent", UNCHANGED <<reader, role, socket>>
      PROVE  RoomPart'
  <2>1. conn'.writer = "closing" /\ conn'.queue = <<>> /\ Len(<<>>) = 0 /\ place' = "out"
    BY <1>0, <1>4 DEF WriterStops, StopWriter, Connections
  <2>2. role # "none" /\ role' = role
    BY <1>0, <1>4 DEF Fits
  <2>3. Fits(conn', role')
    BY <1>0, <2>1, <2>2 DEF Fits
  <2> QED
    BY <1>4, <2>1, <2>3 DEF RoomPart, ReaderPart, PlacePart
<1>5. ASSUME conn.writer # "absent", conn'.writer # "absent", conn'.closed = conn.closed,
             conn'.queue = conn.queue \/ Len(conn'.queue) = Len(conn.queue) - 1,
             UNCHANGED <<reader, role, place>>, socket' \in {socket, "closed"}
      PROVE  RoomPart'
  <2>1. Len(conn.queue) \in Nat /\ Len(conn.queue) <= QueueLimit
    BY <1>0 DEF Connections, Fits
  <2>2. Len(conn'.queue) <= QueueLimit
    BY <1>0, <1>5, <2>1
  <2> QED
    BY <1>0, <1>5, <2>2 DEF RoomPart, ReaderPart, PlacePart, Fits
<1>6. CASE WriterStarts
  <2>1. CASE conn.closed
    BY <1>4, <1>6, <2>1 DEF WriterStarts
  <2>2. CASE ~conn.closed
    BY <1>0, <1>5, <1>6, <2>2 DEF WriterStarts, Connections
  <2> QED
    BY <2>1, <2>2
<1>7. ASSUME NEW valid \in BOOLEAN, WriterTakes(valid)
      PROVE  RoomPart'
  <2>1. conn.queue \in Seq(Kinds) /\ conn.queue # <<>>
    BY <1>0, <1>7 DEF WriterTakes, Connections
  <2>2. Len(Tail(conn.queue)) = Len(conn.queue) - 1
    BY <2>1
  <2>3. conn'.queue = Tail(conn.queue) /\ conn'.writer # "absent" /\ conn'.closed = conn.closed
        /\ conn.writer # "absent" /\ UNCHANGED <<reader, role, place, socket>>
    BY <1>0, <1>7 DEF WriterTakes, Connections
  <2> QED
    BY <1>5, <2>2, <2>3
<1>8. CASE WriterSent
  BY <1>0, <1>5, <1>8 DEF WriterSent, Connections
<1>9. CASE WriterFails \/ WriterCancelled
  BY <1>4, <1>9 DEF WriterFails, WriterCancelled
<1>10. CASE WriterCloses
  BY <1>0, <1>5, <1>10 DEF WriterCloses, Connections
<1> QED
  BY <1>1, <1>2, <1>3, <1>6, <1>7, <1>8, <1>9, <1>10 DEF Writes

-----------------------------------------------------------------------------
(* The theorems *)

\* A session starts without a connection, a number or a debt.
LEMMA InitSessionInv == Init => SessionInv
<1>1. SUFFICES ASSUME Init
               PROVE  SessionInv
  OBVIOUS
<1>2. Sound(conn)
  BY <1>1, NothingYetSound DEF Init
<1>3. OwedPart /\ NumberPart /\ StaysInStep
  BY <1>1 DEF Init, OwedPart, NumberPart, StaysInStep
<1>4. RatePart
  <2>1. /\ stamps = <<>> /\ recent = <<>> /\ ~wronged /\ Len(stamps) = 0 /\ stamps \in Seq(Nat)
        /\ SecondTicks \in Nat /\ CastLimit \in Nat
    BY <1>1, SessionAssumption DEF Init
  <2>2. \A a \in 1 .. SecondTicks : Cut(stamps, a, 0)
    BY <2>1 DEF Cut
  <2>3. Cut(stamps, SecondTicks, 0)
    BY <2>1 DEF Cut
  <2>4. Fresh = SubSeq(stamps, 0 + 1, Len(stamps))
    BY <2>1, <2>3, YoungerIsCut DEF Fresh
  <2>5. Fresh = <<>>
    BY <2>1, <2>4
  <2> QED
    BY <2>1, <2>2, <2>5 DEF RatePart
<1>5. RoomPart
  <2>1. /\ conn.writer = "absent" /\ conn.queue = <<>> /\ Len(<<>>) = 0 /\ 0 <= QueueLimit
        /\ role = "none" /\ place = "out" /\ reader = "hello" /\ socket = "open"
    BY <1>1, SessionAssumption DEF Init, NoConnection
  <2> QED
    BY <2>1 DEF RoomPart, ReaderPart, PlacePart, Fits
<1> QED
  BY <1>2, <1>3, <1>4, <1>5 DEF SessionInv

\* Every step keeps the invariant.
LEMMA NextSessionInv == SessionInv /\ [Next]_vars => SessionInv'
<1>1. SUFFICES ASSUME SessionInv, [Next]_vars
               PROVE  SessionInv'
  OBVIOUS
<1>2. NumberPart' /\ StaysInStep'
  BY <1>1, NumbersKeep
<1>3. Sound(conn') /\ OwedPart'
  <2>1. CASE UNCHANGED vars
    BY <1>1, <2>1 DEF SessionInv, OwedPart, vars
  <2>2. CASE Next
    BY <1>1, <2>2, ReadsKeep, ProceedsKeep, WritesKeep, OthersKeep DEF Next
  <2> QED
    BY <1>1, <2>1, <2>2
<1>4. RatePart'
  BY <1>1, RateKeeps DEF SessionInv
<1>5. RoomPart'
  BY <1>1, HandleFits, OthersFit DEF Next
<1> QED
  BY <1>2, <1>3, <1>4, <1>5 DEF SessionInv

\* The invariant holds of every session: its queue, numbers and debt agree.
THEOREM SessionInvCorrect == Spec => []SessionInv
  BY InitSessionInv, NextSessionInv, PTL DEF Spec

\* The count of unfinished frames is exact whatever is sent, skipped, thrown
\* away or refused (connection.py: send and _run), so flush() waits for the
\* frames that are there and for nothing else.
THEOREM ExactCorrect == Spec => []Exact
<1>1. SessionInv => Exact
  BY DEF SessionInv, Sound, Exact
<1> QED
  BY <1>1, SessionInvCorrect, PTL

\* A client sees outbound numbers without a gap, however many votes are skipped
\* before they are sent (connection.py: _run).
THEOREM ContiguousCorrect == Spec => []Contiguous
<1>1. SessionInv => Contiguous
  BY DEF SessionInv, Sound, Contiguous
<1> QED
  BY <1>1, SessionInvCorrect, PTL

\* A client that counts by one stays in step with inbound_seq, whatever errors
\* it is sent on the way (hub.py: _dispatch).
THEOREM StaysInStepCorrect == Spec => []StaysInStep
<1>1. SessionInv => StaysInStep
  BY DEF SessionInv
<1> QED
  BY <1>1, SessionInvCorrect, PTL

\* The session does not end while the fatal error it owes could still be sent
\* (hub.py: handle, _send_error; connection.py: flush).
THEOREM FatalIsAnsweredCorrect == Spec => []FatalIsAnswered
<1>1. SessionInv => FatalIsAnswered
  BY DEF SessionInv, OwedPart, FatalIsAnswered
<1> QED
  BY <1>1, SessionInvCorrect, PTL

\* The sliding second admits and refuses exactly (hub.py: _rate_limit): no second
\* has more than max_casts_per_second casts, and no cast is refused below that.
THEOREM RateExactCorrect == Spec => []RateExact
<1>1. ASSUME RatePart
      PROVE  RateExact
  <2>1. PICK n : Cut(stamps, SecondTicks, n)
    BY <1>1, SecondCut
  <2>2. n \in Nat /\ Len(stamps) \in Nat /\ Len(Fresh) = Len(stamps) - n
    BY <1>1, <2>1, FreshShape
  <2>3. recent = Fresh /\ ~wronged /\ Len(stamps) <= CastLimit /\ CastLimit \in Nat
    BY <1>1, SessionAssumption DEF RatePart
  <2>4. Len(recent) <= CastLimit
    BY <2>2, <2>3
  <2> QED
    BY <2>3, <2>4 DEF RateExact
<1>2. SessionInv => RateExact
  BY <1>1 DEF SessionInv
<1> QED
  BY <1>2, SessionInvCorrect, PTL

\* Every variable of a session has its type, its queue and its stamps stay within
\* their limits, and a client in the room has an open connection.
THEOREM SessionTypeCorrect == Spec => []TypeOK
<1>1. SessionInv => TypeOK
  BY DEF SessionInv, RatePart, RoomPart, ReaderPart, PlacePart, Fits, TypeOK
<1> QED
  BY <1>1, SessionInvCorrect, PTL
=============================================================================
