-------------------------- MODULE RoomFeedTheorems --------------------------
(***************************************************************************)
(* What holds of a room and its bots for any number of bots, games and     *)
(* rounds, and any size of queue: a game that may speak speaks of its own  *)
(* session, a bot's first frames are the greeting, nothing announced is    *)
(* skipped, whoever applies a bot's frames comes to know the room, and on  *)
(* the way sees every state of the rounds.                                 *)
(***************************************************************************)
EXTENDS RoomFeed, FiniteSetTheorems, SequenceTheorems, TLAPS

-----------------------------------------------------------------------------
(* Readiness *)

\* Before the first game the room is blank; what a game finds is inherited only
\* if another was there before it.
ReadyInv ==
  /\ ~hasConnected => game = None /\ room = Offline
  /\ ready => game # None /\ ~inherited

\* A room starts blank.
LEMMA InitReadyInv == Init => ReadyInv
BY DEF Init, ReadyInv

\* Only a game that connects or syncs makes the room ready.
LEMMA NextReadyInv == ReadyInv /\ [Next]_vars => ReadyInv'
<1>1. SUFFICES ASSUME ReadyInv, [Next]_vars
               PROVE  ReadyInv'
  OBVIOUS
<1> USE DEF ReadyInv
<1>2. ASSUME NEW i \in Instances, RegisterGame(i)
      PROVE  ReadyInv'
  <2>1. Offline.closed = 0 /\ i # None
    BY FeedAssumption DEF Offline
  <2>2. hasConnected' /\ game' = i /\ ready' = ~hasConnected /\ inherited' = (room.closed # 0)
    BY <1>2 DEF RegisterGame
  <2>3. ready' => room = Offline
    BY <1>1, <2>2, Zenon
  <2>4. ready' => ~inherited'
    BY <2>1, <2>2, <2>3, Zenon
  <2> QED
    BY <2>1, <2>2, <2>4, Zenon
<1>3. CASE GameLeaves
  BY <1>1, <1>3 DEF GameLeaves, Broadcast
<1>4. ASSUME NEW b \in Bots, BotJoins(b) \/ BotLeaves(b) \/ BotAnswered(b) \/ WriterSends(b)
      PROVE  ReadyInv'
  BY <1>1, <1>4 DEF BotJoins, BotLeaves, BotAnswered, WriterSends
<1>5. ASSUME NEW r \in Syncs, GameSync(r)
      PROVE  ReadyInv'
  BY <1>1, <1>5 DEF GameSync, GameTells
<1>6. CASE \/ \E p \in Phases : GameStateChanged(p)
           \/ \E n \in Rounds : VoteOpened(n) \/ VoteClosed(n)
           \/ EffectResolved
           \/ \E s \in Snapshots : VoteSnapshot(s)
  <2>1. game # None /\ UNCHANGED <<game, hasConnected, ready, inherited>>
    BY <1>6 DEF GameStateChanged, VoteOpened, VoteClosed, EffectResolved, VoteSnapshot, GameTells
  <2> QED
    BY <1>1, <2>1
<1>7. CASE Restart
  BY <1>7 DEF Restart
<1>8. CASE UNCHANGED vars
  BY <1>1, <1>8 DEF vars
<1> QED
  BY <1>1, <1>2, <1>3, <1>4, <1>5, <1>6, <1>7, <1>8 DEF Next

\* A room that takes a game's votes remembers no round of an earlier session,
\* with and without a restart of the backend between them (hub.py: _register).
THEOREM ReadyIsOwnCorrect == Spec => []ReadyIsOwn
<1>1. ReadyInv => ReadyIsOwn
  BY DEF ReadyInv, ReadyIsOwn
<1> QED
  BY <1>1, InitReadyInv, NextReadyInv, PTL DEF Spec

-----------------------------------------------------------------------------
(* The frames of one bot *)

\* Announcements in the queue q of a bot that was sent h frames, not counting its
\* greeting.
Due(q, h) == {k \in 1 .. Len(q) : q[k].kind \in Announcements /\ h + k > 3}

Kinds == Announcements \cup {"authenticated", "info", "reply"}

\* A bot with q in its queue that was sent frames of the kinds h first and is owed
\* o announcements.
Line(q, h, o) ==
  /\ q \in Seq(Frames) /\ Len(q) <= QueueLimit
  /\ Len(h) \in 0 .. 3 /\ h \in Seq(Kinds) /\ Len(h) + Len(q) >= 3
  /\ \A k \in 1 .. 3 : Greeting[k] = IF k <= Len(h) THEN h[k] ELSE q[k - Len(h)].kind
  /\ IsFiniteSet(Due(q, Len(h))) /\ o = Cardinality(Due(q, Len(h)))

\* A set of positions moved by one has as many elements.
LEMMA Shifted ==
  ASSUME NEW S \in SUBSET Int, IsFiniteSet(S), NEW T \in SUBSET Int,
         \A k \in Int : k \in T <=> k + 1 \in S
  PROVE  IsFiniteSet(T) /\ Cardinality(T) = Cardinality(S)
<1> DEFINE f == [k \in S |-> k - 1]
<1>1. f \in Bijection(S, T)
  <2>1. f \in [S -> T]
    <3>1. ASSUME NEW k \in S
          PROVE  k - 1 \in T
      <4>1. k - 1 \in Int /\ (k - 1) + 1 = k
        OBVIOUS
      <4> QED
        BY <4>1
    <3> QED
      BY <3>1
  <2>2. \A a, b \in S : f[a] = f[b] => a = b
    OBVIOUS
  <2>3. \A t \in T : \E k \in S : f[k] = t
    <3>1. SUFFICES ASSUME NEW t \in T
                   PROVE  \E k \in S : f[k] = t
      OBVIOUS
    <3>2. t + 1 \in S /\ (t + 1) - 1 = t
      OBVIOUS
    <3> QED
      BY <3>2
  <2> HIDE DEF f
  <2> QED
    BY <2>1, <2>2, <2>3 DEF Bijection, Injection, Surjection, IsInjective
<1> QED
  BY <1>1, FS_Bijection DEF ExistsBijection

\* Frames are queued: an announcement comes last.
LEMMA LineGrows ==
  ASSUME NEW q, NEW h, NEW o, Line(q, h, o), NEW t \in Seq(Frames), Fits(q, t), NEW n \in {0, 1},
         n = 1 => Len(t) >= 1 /\ t[Len(t)].kind \in Announcements,
         \A k \in 1 .. Len(t) : t[k].kind \in Announcements => n = 1 /\ k = Len(t)
  PROVE  Line(q \o t, h, o + n)
<1> DEFINE r == q \o t
           last == Len(q) + Len(t)
<1>1. /\ q \in Seq(Frames) /\ Len(h) \in 0 .. 3 /\ Len(h) + Len(q) >= 3
      /\ Len(q) \in Nat /\ Len(t) \in Nat
      /\ IsFiniteSet(Due(q, Len(h))) /\ o = Cardinality(Due(q, Len(h)))
  BY DEF Line
<1>2. /\ r \in Seq(Frames) /\ Len(r) = Len(q) + Len(t)
      /\ \A k \in 1 .. Len(q) + Len(t) : r[k] = IF k <= Len(q) THEN q[k] ELSE t[k - Len(q)]
      /\ Len(r) <= QueueLimit
  BY <1>1, ConcatProperties DEF Fits
<1> HIDE DEF r
<1>3. ASSUME NEW k \in 1 .. 3
      PROVE  Greeting[k] = IF k <= Len(h) THEN h[k] ELSE r[k - Len(h)].kind
  <2>1. Greeting[k] = IF k <= Len(h) THEN h[k] ELSE q[k - Len(h)].kind
    BY DEF Line
  <2>2. ASSUME k > Len(h)
        PROVE  r[k - Len(h)] = q[k - Len(h)]
    <3>1. k - Len(h) \in 1 .. Len(q)
      BY <1>1, <2>2
    <3>2. \A j \in 1 .. Len(q) : r[j] = q[j]
      BY <1>1, <1>2
    <3> QED
      BY ONLY <3>1, <3>2
  <2>3. Len(h) \in Int /\ k \in Int
    BY <1>1
  <2> QED
    BY ONLY <2>1, <2>2, <2>3
<1>4. /\ n = 0 => Due(r, Len(h)) = Due(q, Len(h))
      /\ n = 1 => Due(r, Len(h)) = Due(q, Len(h)) \cup {last}
      /\ last \notin Due(q, Len(h)) \/ n = 0
  <2>1. \A k \in 1 .. Len(q) : k \in 1 .. Len(r) /\ r[k] = q[k]
    BY <1>1, <1>2
  <2>2. ASSUME NEW k \in 1 .. Len(r), k \notin 1 .. Len(q), r[k].kind \in Announcements
        PROVE  n = 1 /\ k = last
    <3>1. k - Len(q) \in 1 .. Len(t) /\ r[k] = t[k - Len(q)]
      BY <1>1, <1>2, <2>2
    <3>2. n = 1 /\ k - Len(q) = Len(t)
      BY <2>2, <3>1
    <3> QED
      BY <1>1, <1>2, <3>2
  <2>3. n = 1 => /\ last \in 1 .. Len(r) /\ last \notin 1 .. Len(q) /\ Len(h) + last > 3
                 /\ r[last].kind \in Announcements
    <3>1. SUFFICES ASSUME n = 1
                   PROVE  /\ last \in 1 .. Len(r) /\ last \notin 1 .. Len(q) /\ Len(h) + last > 3
                          /\ r[last].kind \in Announcements
      OBVIOUS
    <3>2. Len(t) >= 1 /\ t[Len(t)].kind \in Announcements
      BY <3>1
    <3>3. last \in 1 .. Len(q) + Len(t) /\ ~(last <= Len(q)) /\ last - Len(q) = Len(t)
          /\ Len(h) + last > 3
      BY <1>1, <3>2
    <3> HIDE DEF last
    <3>4. last \in 1 .. Len(r) /\ last \notin 1 .. Len(q)
      BY <1>1, <1>2, <3>3
    <3>5. r[last] = t[last - Len(q)]
      BY <1>2, <3>3
    <3> QED
      BY <3>2, <3>3, <3>4, <3>5
  <2> HIDE DEF last
  <2> QED
    BY <2>1, <2>2, <2>3 DEF Due
<1>5. IsFiniteSet(Due(r, Len(h))) /\ o + n = Cardinality(Due(r, Len(h)))
  <2>1. CASE n = 0
    <3>1. Cardinality(Due(q, Len(h))) \in Nat
      BY <1>1, FS_CardinalityType
    <3> QED
      BY <1>1, <1>4, <2>1, <3>1
  <2>2. CASE n = 1
    BY <1>1, <1>4, <2>2, FS_AddElement
  <2> QED
    BY <2>1, <2>2
<1>6. h \in Seq(Kinds)
  BY DEF Line
<1> QED
  BY <1>1, <1>2, <1>3, <1>5, <1>6 DEF Line, r

\* The first frame of the queue is sent.
LEMMA LineSends ==
  ASSUME NEW q, NEW h, NEW o, Line(q, h, o), q # <<>>
  PROVE  Line(Tail(q), IF Len(h) < 3 THEN Append(h, Head(q).kind) ELSE h,
              IF Len(h) >= 3 /\ Head(q).kind \in Announcements THEN o - 1 ELSE o)
<1> DEFINE r == Tail(q)
           g == IF Len(h) < 3 THEN Append(h, q[1].kind) ELSE h
<1> HIDE DEF g
<1>1. /\ q \in Seq(Frames) /\ Len(h) \in 0 .. 3 /\ Len(h) + Len(q) >= 3 /\ Len(q) <= QueueLimit
      /\ Len(q) \in Nat /\ Len(q) >= 1 /\ Head(q) = q[1] /\ h \in Seq(Kinds)
      /\ IsFiniteSet(Due(q, Len(h))) /\ o = Cardinality(Due(q, Len(h)))
      /\ QueueLimit \in Nat
  BY FeedAssumption DEF Line
<1>2. /\ r \in Seq(Frames) /\ Len(r) = Len(q) - 1
      /\ \A k \in 1 .. Len(q) - 1 : r[k] = q[k + 1]
  BY <1>1
<1>3. q[1] \in Frames /\ q[1].kind \in Kinds
  <2>1. q[1] \in Frames
    BY <1>1
  <2> QED
    BY <2>1 DEF Frames, Kinds
<1>4. /\ g \in Seq(Kinds) /\ Len(g) = IF Len(h) < 3 THEN Len(h) + 1 ELSE 3
      /\ \A k \in 1 .. Len(h) : g[k] = h[k]
      /\ Len(h) < 3 => g[Len(h) + 1] = q[1].kind
  <2>1. CASE Len(h) < 3
    <3>1. g = Append(h, q[1].kind)
      BY <2>1 DEF g
    <3>2. /\ Append(h, q[1].kind) \in Seq(Kinds) /\ Len(Append(h, q[1].kind)) = Len(h) + 1
          /\ \A k \in 1 .. Len(h) : Append(h, q[1].kind)[k] = h[k]
          /\ Append(h, q[1].kind)[Len(h) + 1] = q[1].kind
      BY <1>1, <1>3, AppendProperties
    <3> QED
      BY <2>1, <3>1, <3>2
  <2>2. CASE Len(h) = 3
    BY <1>1, <2>2 DEF g
  <2>3. Len(h) < 3 \/ Len(h) = 3
    <3>1. \A l \in 0 .. 3 : l < 3 \/ l = 3
      OBVIOUS
    <3> QED
      BY <1>1, <3>1
  <2> QED
    BY <2>1, <2>2, <2>3
<1> HIDE DEF r
<1>5. ASSUME NEW k \in 1 .. 3
      PROVE  Greeting[k] = IF k <= Len(g) THEN g[k] ELSE r[k - Len(g)].kind
  <2>1. Greeting[k] = IF k <= Len(h) THEN h[k] ELSE q[k - Len(h)].kind
    BY DEF Line
  <2>2. CASE k <= Len(h)
    BY <1>1, <1>4, <2>1, <2>2
  <2>3. CASE k = Len(h) + 1
    <3>1. Len(h) < 3 /\ k <= Len(g) /\ k - Len(h) = 1 /\ ~(k <= Len(h))
      BY <1>1, <1>4, <2>3
    <3> QED
      BY <1>4, <2>1, <2>3, <3>1
  <2>4. CASE k > Len(h) + 1
    <3>1. /\ ~(k <= Len(h)) /\ ~(k <= Len(g)) /\ Len(g) = Len(h) + 1
          /\ k - Len(g) \in 1 .. Len(q) - 1 /\ (k - Len(g)) + 1 = k - Len(h)
      BY <1>1, <1>4, <2>4
    <3>2. r[k - Len(g)] = q[k - Len(h)]
      BY <1>2, <3>1
    <3> QED
      BY <2>1, <3>1, <3>2
  <2> QED
    BY <1>1, <2>2, <2>3, <2>4
<1> DEFINE S == Due(q, Len(h)) \ {1}
           T == Due(r, Len(g))
           p == IF Len(h) >= 3 /\ q[1].kind \in Announcements THEN o - 1 ELSE o
<1>6. S \in SUBSET Int /\ T \in SUBSET Int /\ \A k \in Int : k \in T <=> k + 1 \in S
  <2>1. S \in SUBSET Int /\ T \in SUBSET Int
    BY DEF Due
  <2>2. ASSUME NEW k \in Int
        PROVE  k \in T <=> k + 1 \in S
    <3>1. k \in 1 .. Len(r) <=> k + 1 \in (1 .. Len(q)) \ {1}
      BY <1>1, <1>2
    <3>2. ASSUME k \in 1 .. Len(r)
          PROVE  r[k] = q[k + 1] /\ (Len(g) + k > 3 <=> Len(h) + (k + 1) > 3)
      BY <1>1, <1>2, <1>4, <3>2
    <3> QED
      BY <3>1, <3>2 DEF Due
  <2> QED
    BY <2>1, <2>2
<1>7. IsFiniteSet(S) /\ Cardinality(S) = p
  <2>1. 1 \in Due(q, Len(h)) <=> Len(h) >= 3 /\ q[1].kind \in Announcements
    BY <1>1 DEF Due
  <2> HIDE DEF p
  <2>2. IsFiniteSet(S) /\ Cardinality(S) = IF 1 \in Due(q, Len(h)) THEN o - 1 ELSE o
    BY <1>1, FS_RemoveElement
  <2> QED
    BY <2>1, <2>2 DEF p
<1>8. IsFiniteSet(T) /\ Cardinality(T) = p
  <2> HIDE DEF S, T, p
  <2> QED
    BY <1>6, <1>7, Shifted
<1>9. Len(g) \in 0 .. 3 /\ Len(g) + Len(r) >= 3 /\ Len(r) <= QueueLimit
  BY <1>1, <1>2, <1>4
<1>10. Line(r, g, p)
  BY <1>2, <1>4, <1>5, <1>8, <1>9 DEF Line
<1> QED
  BY <1>1, <1>10 DEF r, g

-----------------------------------------------------------------------------
(* The invariant of the feed *)

RoomTypes ==
  /\ game \in Instances \cup {None} /\ room \in Rooms
  /\ ready \in BOOLEAN /\ hasConnected \in BOOLEAN /\ inherited \in BOOLEAN

\* Bots outside the room are owed nothing.
BotTypes ==
  /\ bots \subseteq Bots /\ IsFiniteSet(bots) /\ Cardinality(bots) <= MaxBots
  /\ outbox \in [Bots -> Seq(Frames)] /\ heard \in [Bots -> Seq(Kinds)] /\ owed \in [Bots -> Nat]
  /\ DOMAIN view = Bots
  /\ \A b \in Bots \ bots : outbox[b] = <<>> /\ heard[b] = <<>> /\ owed[b] = 0

Lines == \A b \in bots : Line(outbox[b], heard[b], owed[b])

FeedInv == RoomTypes /\ BotTypes /\ Lines

\* What a broadcast or an answer does to the bots.
LEMMA SendsKeep ==
  ASSUME BotTypes, Lines, NEW to \in [Bots -> Seq(Frames)], SendsToAll(to), NEW n \in {0, 1},
         owed' = [b \in Bots |-> IF b \in bots' THEN owed[b] + n ELSE 0],
         heard' = Kept(heard, <<>>), DOMAIN view' = Bots,
         \A b \in bots :
           /\ n = 1 => Len(to[b]) >= 1 /\ to[b][Len(to[b])].kind \in Announcements
           /\ \A k \in 1 .. Len(to[b]) : to[b][k].kind \in Announcements => n = 1 /\ k = Len(to[b])
  PROVE  BotTypes' /\ Lines'
<1>1. /\ bots' = {b \in bots : Fits(outbox[b], to[b])}
      /\ outbox' = [b \in Bots |-> IF b \in bots' THEN outbox[b] \o to[b] ELSE <<>>]
      /\ heard' = [b \in Bots |-> IF b \in bots' THEN heard[b] ELSE <<>>]
  <2>1. outbox' = Kept([b \in Bots |-> outbox[b] \o to[b]], <<>>)
    BY DEF SendsToAll
  <2> QED
    BY <2>1 DEF SendsToAll, Kept
<1>2. /\ bots' \subseteq bots /\ bots \subseteq Bots
      /\ IsFiniteSet(bots') /\ Cardinality(bots') <= MaxBots
  <2>1. bots' \in SUBSET bots
    BY <1>1
  <2>2. IsFiniteSet(bots') /\ Cardinality(bots') <= Cardinality(bots)
        /\ Cardinality(bots) \in Nat /\ Cardinality(bots') \in Nat
    BY <2>1, FS_Subset, FS_CardinalityType DEF BotTypes
  <2> QED
    BY <2>1, <2>2, FeedAssumption DEF BotTypes
<1>3. ASSUME NEW b \in bots'
      PROVE  Line(outbox'[b], heard'[b], owed'[b])
  <2>1. /\ b \in bots /\ b \in Bots /\ Fits(outbox[b], to[b]) /\ Line(outbox[b], heard[b], owed[b])
        /\ to[b] \in Seq(Frames)
        /\ outbox'[b] = outbox[b] \o to[b] /\ heard'[b] = heard[b] /\ owed'[b] = owed[b] + n
    BY <1>1, <1>2 DEF Lines
  <2> QED
    BY <2>1, LineGrows
<1>4. /\ outbox' \in [Bots -> Seq(Frames)] /\ heard' \in [Bots -> Seq(Kinds)]
      /\ owed' \in [Bots -> Nat]
  <2>1. /\ outbox \in [Bots -> Seq(Frames)] /\ heard \in [Bots -> Seq(Kinds)]
        /\ owed \in [Bots -> Nat] /\ n \in Nat
    BY DEF BotTypes
  <2>2. \A b \in Bots : outbox[b] \o to[b] \in Seq(Frames)
    BY <2>1, ConcatProperties
  <2>3. <<>> \in Seq(Frames) /\ <<>> \in Seq(Kinds)
    OBVIOUS
  <2>4. \A b \in Bots : outbox'[b] \in Seq(Frames)
    BY <1>1, <2>2, <2>3
  <2>5. outbox' \in [Bots -> Seq(Frames)]
    BY <1>1, <2>4
  <2>6. \A b \in Bots : owed[b] + n \in Nat
    BY <2>1
  <2> QED
    BY <1>1, <2>1, <2>3, <2>5, <2>6
<1> QED
  BY <1>1, <1>2, <1>3, <1>4 DEF BotTypes, Lines

\* Frames that are well formed.
LEMMA FrameTypes ==
  /\ Reply \in Frames /\ Reply.kind \notin Announcements
  /\ \A kind \in Announcements, i \in Instances, body \in Bodies :
       Frame(kind, i, body) \in Frames /\ Frame(kind, i, body).kind = kind
  /\ RoomTypes /\ Fits(<<>>, GreetingFrames) => Line(GreetingFrames, <<>>, 0)
<1>1. Reply \in Frames /\ Reply.kind \notin Announcements
  BY DEF Reply, Frame, Frames, Bodies, Announcements
<1>2. ASSUME NEW kind \in Announcements, NEW i \in Instances, NEW body \in Bodies
      PROVE  Frame(kind, i, body) \in Frames /\ Frame(kind, i, body).kind = kind
  BY DEF Frame, Frames
<1>3. ASSUME RoomTypes, Fits(<<>>, GreetingFrames)
      PROVE  Line(GreetingFrames, <<>>, 0)
  <2> DEFINE q == GreetingFrames
             i == IF game = None THEN Own ELSE game
  <2>1. i \in Instances \cup {Own} /\ room \in Bodies /\ None \in Bodies
    BY <1>3 DEF RoomTypes, Bodies
  <2>2. q = <<Frame("authenticated", i, None), Frame("info", i, None), Frame("sync", i, room)>>
    BY DEF GreetingFrames
  <2> HIDE DEF i, q
  <2>3. /\ Frame("authenticated", i, None) \in Frames /\ Frame("info", i, None) \in Frames
        /\ Frame("sync", i, room) \in Frames
    BY <2>1 DEF Frame, Frames, Announcements
  <2>4. q \in Seq(Frames) /\ Len(q) = 3
    BY <2>2, <2>3
  <2>5. q[1].kind = "authenticated" /\ q[2].kind = "info" /\ q[3].kind = "sync"
    BY <2>2 DEF Frame
  <2>6. Len(q) <= QueueLimit
    <3>1. <<>> \o q = q
      BY <2>4
    <3> QED
      BY <1>3, <3>1 DEF Fits, q
  <2>7. \A k \in 1 .. 3 : Greeting[k] = q[k].kind
    BY <2>5 DEF Greeting
  <2>8. Due(q, 0) = {}
    BY <2>4 DEF Due
  <2> DEFINE h == <<>>
  <2>9. Len(h) = 0 /\ h \in Seq(Kinds)
    OBVIOUS
  <2> HIDE DEF h
  <2>10. \A k \in 1 .. 3 : ~(k <= 0) /\ k - 0 = k
    OBVIOUS
  <2>11. IsFiniteSet(Due(q, Len(h))) /\ 0 = Cardinality(Due(q, Len(h)))
    BY <2>8, <2>9, FS_EmptySet
  <2>12. \A k \in 1 .. 3 : Greeting[k] = IF k <= Len(h) THEN h[k] ELSE q[k - Len(h)].kind
    BY <2>7, <2>9, <2>10
  <2>13. Line(q, h, 0)
    BY <2>4, <2>6, <2>9, <2>11, <2>12 DEF Line
  <2> QED
    BY <2>13 DEF q, h
<1> QED
  BY <1>1, <1>2, <1>3

\* Frames put behind frames.
LEMMA FramesConcat ==
  ASSUME NEW u \in Seq(Frames), NEW v \in Seq(Frames)
  PROVE  /\ Len(u) \in Nat /\ Len(u \o v) = Len(u) + Len(v)
         /\ \A k \in 1 .. Len(u) + Len(v) : (u \o v)[k] = IF k <= Len(u) THEN u[k] ELSE v[k - Len(u)]
BY ConcatProperties

\* A broadcast of the game.
LEMMA BroadcastKeeps ==
  ASSUME BotTypes, Lines, NEW kind \in Announcements, NEW i \in Instances, NEW body \in Bodies,
         NEW answered \in SUBSET bots, Broadcast(Frame(kind, i, body), answered)
  PROVE  BotTypes' /\ Lines'
<1> DEFINE f == Frame(kind, i, body)
           a(b) == IF b \in answered THEN <<Reply>> ELSE <<>>
           t(b) == IF b \in bots THEN <<f>> ELSE <<>>
           to == [b \in Bots |-> a(b) \o t(b)]
<1>1. f \in Frames /\ f.kind \in Announcements /\ Reply \in Frames /\ Reply.kind \notin Announcements
  BY FrameTypes
<1>2. /\ SendsToAll(to)
      /\ owed' = [b \in Bots |-> IF b \in bots' THEN owed[b] + 1 ELSE 0]
      /\ heard' = Kept(heard, <<>>) /\ DOMAIN view' = Bots
  <2>1. /\ SendsToAll(to) /\ heard' = Kept(heard, <<>>)
        /\ owed' = Kept([b \in Bots |-> owed[b] + 1], 0) /\ view' = Kept(view, NothingYet)
    BY DEF Broadcast
  <2> HIDE DEF to
  <2> QED
    BY <2>1 DEF Kept
<1> HIDE DEF f
<1>3. \A b : /\ a(b) \in Seq(Frames) /\ t(b) \in Seq(Frames) /\ Len(a(b)) \in 0 .. 1
             /\ \A k \in 1 .. Len(a(b)) : a(b)[k] = Reply
             /\ b \in bots => Len(t(b)) = 1 /\ t(b)[1] = f
  BY <1>1
<1> HIDE DEF a, t
<1>4. to \in [Bots -> Seq(Frames)]
  BY <1>3, ConcatProperties
<1>5. ASSUME NEW b \in bots
      PROVE  /\ Len(to[b]) >= 1 /\ to[b][Len(to[b])].kind \in Announcements
             /\ \A k \in 1 .. Len(to[b]) : to[b][k].kind \in Announcements => k = Len(to[b])
  <2>1. b \in Bots /\ to[b] = a(b) \o t(b)
    BY DEF BotTypes
  <2>2. /\ Len(a(b)) \in Nat /\ Len(to[b]) = Len(a(b)) + 1
        /\ \A k \in 1 .. Len(a(b)) + 1 :
             to[b][k] = IF k <= Len(a(b)) THEN a(b)[k] ELSE t(b)[k - Len(a(b))]
    <3>1. a(b) \in Seq(Frames) /\ t(b) \in Seq(Frames) /\ Len(t(b)) = 1
      BY <1>3
    <3> DEFINE u == a(b)
               v == t(b)
    <3>2. u \in Seq(Frames) /\ v \in Seq(Frames) /\ Len(v) = 1 /\ to[b] = u \o v
      BY <2>1, <3>1
    <3> HIDE DEF to, u, v
    <3>3. /\ Len(u) \in Nat /\ Len(u \o v) = Len(u) + Len(v)
          /\ \A k \in 1 .. Len(u) + Len(v) : (u \o v)[k] = IF k <= Len(u) THEN u[k] ELSE v[k - Len(u)]
      BY <3>2, FramesConcat
    <3>4. /\ Len(u) \in Nat /\ Len(to[b]) = Len(u) + 1
          /\ \A k \in 1 .. Len(u) + 1 : to[b][k] = IF k <= Len(u) THEN u[k] ELSE v[k - Len(u)]
      BY <3>2, <3>3
    <3> QED
      BY <3>4 DEF u, v
  <2> HIDE DEF to
  <2>3. to[b][Len(a(b)) + 1] = f
    <3>1. /\ Len(a(b)) + 1 \in 1 .. Len(a(b)) + 1 /\ ~(Len(a(b)) + 1 <= Len(a(b)))
          /\ (Len(a(b)) + 1) - Len(a(b)) = 1
      BY <2>2
    <3> QED
      BY <1>3, <2>2, <3>1
  <2>4. ASSUME NEW k \in 1 .. Len(to[b]), k # Len(to[b])
        PROVE  to[b][k] = Reply
    <3>1. k \in 1 .. Len(a(b)) /\ k \in 1 .. Len(a(b)) + 1 /\ k <= Len(a(b))
      BY <2>2, <2>4
    <3> QED
      BY <1>3, <2>2, <3>1
  <2> QED
    BY <1>1, <2>2, <2>3, <2>4
<1> HIDE DEF to
<1>6. \A b \in bots :
        /\ 1 = 1 => Len(to[b]) >= 1 /\ to[b][Len(to[b])].kind \in Announcements
        /\ \A k \in 1 .. Len(to[b]) : to[b][k].kind \in Announcements => 1 = 1 /\ k = Len(to[b])
  BY <1>5
<1> QED
  BY <1>2, <1>4, <1>6, SendsKeep

-----------------------------------------------------------------------------
(* Steps *)

\* Messages of the game, and its end: the room and its bots learn the same.
LEMMA GameKeeps ==
  ASSUME FeedInv,
         \/ GameLeaves
         \/ \E r \in Syncs : GameSync(r)
         \/ \E p \in Phases : GameStateChanged(p)
         \/ \E k \in Rounds : VoteOpened(k) \/ VoteClosed(k)
         \/ EffectResolved
         \/ \E s \in Snapshots : VoteSnapshot(s)
  PROVE  FeedInv'
<1>0. RoomTypes /\ BotTypes /\ Lines
  BY DEF FeedInv
<1>1. /\ game \in Instances \cup {None} /\ room \in Rooms
      /\ ready \in BOOLEAN /\ hasConnected \in BOOLEAN /\ inherited \in BOOLEAN
  BY <1>0 DEF RoomTypes
<1>2. ASSUME NEW kind \in Announcements, NEW body \in Bodies, NEW answered \in SUBSET bots,
             game # None, Broadcast(Frame(kind, game, body), answered)
      PROVE  BotTypes' /\ Lines'
  <2>1. game \in Instances
    BY <1>1, <1>2
  <2> QED
    BY <1>0, <1>2, <2>1, BroadcastKeeps
<1>3. /\ None \in Bodies /\ Rooms \subseteq Bodies /\ States \subseteq Bodies /\ Rounds \subseteq Bodies
      /\ Snapshots \subseteq Bodies /\ Syncs \subseteq Rooms /\ Phases \subseteq States
      /\ 0 \in 0 .. MaxRound /\ Rounds \subseteq 0 .. MaxRound /\ "OFFLINE" \in States
      /\ {} \in SUBSET bots
      /\ {"sync", "state", "opened", "snapshot", "closed", "effect", "offline"} = Announcements
  BY FeedAssumption, SyncAssumption DEF Bodies, States, Rounds, Announcements
<1>4. CASE GameLeaves
  <2>1. BotTypes' /\ Lines'
    BY <1>2, <1>3, <1>4 DEF GameLeaves
  <2>2. /\ game' = None /\ ready' = FALSE /\ UNCHANGED <<hasConnected, inherited>>
        /\ room' = [Offline EXCEPT !.closed = room.closed]
    BY <1>4 DEF GameLeaves
  <2>3. room' \in Rooms
    BY <1>1, <1>3, <2>2 DEF Offline, Rooms
  <2> QED
    BY <1>1, <2>1, <2>2, <2>3 DEF FeedInv, RoomTypes
<1>5. ASSUME NEW r \in Syncs, GameSync(r)
      PROVE  FeedInv'
  <2>1. PICK answered \in SUBSET bots : GameTells("sync", r, answered)
    BY <1>5 DEF GameSync
  <2>2. BotTypes' /\ Lines'
    BY <1>2, <1>3, <2>1 DEF GameTells
  <2> QED
    BY <1>1, <1>3, <1>5, <2>1, <2>2 DEF GameSync, GameTells, FeedInv, RoomTypes
<1>6. ASSUME NEW p \in Phases, GameStateChanged(p)
      PROVE  FeedInv'
  <2>1. GameTells("state", p, {}) /\ room' = [room EXCEPT !.phase = p] /\ UNCHANGED <<ready, inherited>>
    BY <1>6 DEF GameStateChanged
  <2>2. BotTypes' /\ Lines'
    BY <1>2, <1>3, <2>1 DEF GameTells
  <2>3. room' \in Rooms
    BY <1>1, <1>3, <2>1 DEF Rooms
  <2> QED
    BY <1>1, <2>1, <2>2, <2>3 DEF GameTells, FeedInv, RoomTypes
<1>7. ASSUME NEW k \in Rounds, VoteOpened(k) \/ VoteClosed(k)
      PROVE  FeedInv'
  <2>1. /\ \E kind \in {"opened", "closed"}, answered \in SUBSET bots : GameTells(kind, k, answered)
        /\ \/ room' = [room EXCEPT !.active = k, !.snap = None]
           \/ room' = [room EXCEPT !.active = 0, !.snap = None, !.closed = k]
        /\ UNCHANGED <<ready, inherited>>
    BY <1>7 DEF VoteOpened, VoteClosed
  <2>2. BotTypes' /\ Lines' /\ UNCHANGED <<game, hasConnected>>
    BY <1>2, <1>3, <2>1 DEF GameTells
  <2>3. room' \in Rooms
    BY <1>1, <1>3, <2>1 DEF Rooms
  <2> QED
    BY <1>1, <2>1, <2>2, <2>3 DEF FeedInv, RoomTypes
<1>8. CASE EffectResolved
  <2>1. GameTells("effect", None, {}) /\ UNCHANGED <<room, ready, inherited>>
    BY <1>8 DEF EffectResolved
  <2>2. BotTypes' /\ Lines'
    BY <1>2, <1>3, <2>1 DEF GameTells
  <2> QED
    BY <1>1, <2>1, <2>2 DEF GameTells, FeedInv, RoomTypes
<1>9. ASSUME NEW s \in Snapshots, VoteSnapshot(s)
      PROVE  FeedInv'
  <2>1. GameTells("snapshot", s, {}) /\ room' = [room EXCEPT !.snap = s] /\ UNCHANGED <<ready, inherited>>
    BY <1>9 DEF VoteSnapshot
  <2>2. BotTypes' /\ Lines'
    BY <1>2, <1>3, <2>1 DEF GameTells
  <2>3. room' \in Rooms
    BY <1>1, <2>1 DEF Rooms
  <2> QED
    BY <1>1, <2>1, <2>2, <2>3 DEF GameTells, FeedInv, RoomTypes
<1> QED
  BY <1>4, <1>5, <1>6, <1>7, <1>8, <1>9

\* What a bot does, and what is done for it alone.
LEMMA BotKeeps ==
  ASSUME FeedInv, NEW b \in Bots, BotJoins(b) \/ BotLeaves(b) \/ BotAnswered(b) \/ WriterSends(b)
  PROVE  FeedInv'
<1>0. RoomTypes /\ BotTypes /\ Lines
  BY DEF FeedInv
<1>1. RoomTypes'
  <2>1. UNCHANGED <<game, ready, hasConnected, room, inherited>>
    BY DEF BotJoins, BotLeaves, BotAnswered, WriterSends
  <2> QED
    BY <1>0, <2>1 DEF RoomTypes
<1>2. /\ bots \subseteq Bots /\ IsFiniteSet(bots) /\ Cardinality(bots) \in Nat
      /\ Cardinality(bots) <= MaxBots /\ MaxBots \in Nat
      /\ outbox \in [Bots -> Seq(Frames)] /\ heard \in [Bots -> Seq(Kinds)] /\ owed \in [Bots -> Nat]
      /\ DOMAIN view = Bots
      /\ \A c \in Bots \ bots : outbox[c] = <<>> /\ heard[c] = <<>> /\ owed[c] = 0
      /\ \A c \in bots : Line(outbox[c], heard[c], owed[c])
  BY <1>0, FS_CardinalityType, FeedAssumption DEF BotTypes, Lines
<1>3. CASE BotJoins(b)
  <2>1. /\ b \notin bots /\ Cardinality(bots) < MaxBots /\ Fits(<<>>, GreetingFrames)
        /\ bots' = bots \cup {b} /\ outbox' = [outbox EXCEPT ![b] = GreetingFrames]
        /\ UNCHANGED <<owed, heard, view>>
    BY <1>3 DEF BotJoins
  <2>2. Line(GreetingFrames, <<>>, 0)
    BY <1>0, <2>1, FrameTypes
  <2>3. GreetingFrames \in Seq(Frames)
    BY <2>2 DEF Line
  <2>4. IsFiniteSet(bots') /\ Cardinality(bots') <= MaxBots
    <3>1. IsFiniteSet(bots \cup {b}) /\ Cardinality(bots \cup {b}) = Cardinality(bots) + 1
      BY <1>2, <2>1, FS_AddElement
    <3> QED
      BY <1>2, <2>1, <3>1
  <2>5. outbox' \in [Bots -> Seq(Frames)]
        /\ outbox'[b] = GreetingFrames /\ \A c \in Bots \ {b} : outbox'[c] = outbox[c]
    <3> DEFINE q == GreetingFrames
    <3>1. q \in Seq(Frames) /\ outbox' = [outbox EXCEPT ![b] = q]
      BY <2>1, <2>3
    <3> HIDE DEF q
    <3>2. outbox' \in [Bots -> Seq(Frames)]
          /\ outbox'[b] = q /\ \A c \in Bots \ {b} : outbox'[c] = outbox[c]
      BY <1>2, <3>1
    <3> QED
      BY <3>2 DEF q
  <2>6. BotTypes'
    BY <1>2, <2>1, <2>4, <2>5 DEF BotTypes
  <2>7. ASSUME NEW c \in bots'
        PROVE  Line(outbox'[c], heard'[c], owed'[c])
    <3>1. CASE c = b
      <4>1. heard'[c] = <<>> /\ owed'[c] = 0 /\ outbox'[c] = GreetingFrames
        BY <1>2, <2>1, <2>5, <3>1
      <4> QED
        BY <2>2, <4>1
    <3>2. CASE c # b
      <4>1. c \in bots /\ outbox'[c] = outbox[c] /\ heard'[c] = heard[c] /\ owed'[c] = owed[c]
        BY <1>2, <2>1, <2>5, <3>2
      <4> QED
        BY <1>2, <4>1
    <3> QED
      BY <3>1, <3>2
  <2> QED
    BY <1>1, <2>6, <2>7 DEF FeedInv, Lines
<1>4. CASE BotLeaves(b)
  <2>1. /\ bots' = bots \ {b}
        /\ outbox' = [c \in Bots |-> IF c \in bots' THEN outbox[c] ELSE <<>>]
        /\ heard' = [c \in Bots |-> IF c \in bots' THEN heard[c] ELSE <<>>]
        /\ owed' = [c \in Bots |-> IF c \in bots' THEN owed[c] ELSE 0]
        /\ DOMAIN view' = Bots
    BY <1>4 DEF BotLeaves, Kept
  <2>2. IsFiniteSet(bots') /\ Cardinality(bots') <= MaxBots
    <3>1. bots' \in SUBSET bots
      BY <2>1
    <3>2. IsFiniteSet(bots') /\ Cardinality(bots') <= Cardinality(bots)
      BY <1>2, <3>1, FS_Subset
    <3>3. Cardinality(bots') \in Nat
      BY <3>2, FS_CardinalityType
    <3> QED
      BY <1>2, <3>2, <3>3
  <2>3. BotTypes'
    BY <1>2, <2>1, <2>2 DEF BotTypes
  <2>4. Lines'
    BY <1>2, <2>1 DEF Lines
  <2> QED
    BY <1>1, <2>3, <2>4 DEF FeedInv
<1>5. CASE BotAnswered(b)
  <2> DEFINE to == [c \in Bots |-> IF c = b THEN <<Reply>> ELSE <<>>]
  <2>1. /\ SendsToAll(to) /\ heard' = Kept(heard, <<>>) /\ DOMAIN view' = Bots
        /\ owed' = [c \in Bots |-> IF c \in bots' THEN owed[c] ELSE 0]
    BY <1>5 DEF BotAnswered, Kept
  <2>2. owed' = [c \in Bots |-> IF c \in bots' THEN owed[c] + 0 ELSE 0]
    BY <1>2, <2>1
  <2>3. /\ to \in [Bots -> Seq(Frames)]
        /\ \A c \in bots : \A k \in 1 .. Len(to[c]) : to[c][k].kind \notin Announcements
    <3>1. Reply \in Frames /\ Reply.kind \notin Announcements
      BY FrameTypes
    <3> QED
      BY <1>2, <3>1
  <2> HIDE DEF to
  <2>4. \A c \in bots :
          /\ 0 = 1 => Len(to[c]) >= 1 /\ to[c][Len(to[c])].kind \in Announcements
          /\ \A k \in 1 .. Len(to[c]) : to[c][k].kind \in Announcements => 0 = 1 /\ k = Len(to[c])
    BY <2>3
  <2>5. BotTypes' /\ Lines'
    BY <1>0, <2>1, <2>2, <2>3, <2>4, SendsKeep
  <2> QED
    BY <1>1, <2>5 DEF FeedInv
<1>6. CASE WriterSends(b)
  <2> DEFINE q == outbox[b]
             h == heard[b]
             o == owed[b]
             g == IF Len(h) < 3 THEN Append(h, Head(q).kind) ELSE h
             p == IF Len(h) >= 3 /\ Head(q).kind \in Announcements THEN o - 1 ELSE o
  <2>1. /\ q # <<>> /\ bots' = bots /\ DOMAIN view' = Bots
        /\ outbox' = [outbox EXCEPT ![b] = Tail(q)]
        /\ heard' = [heard EXCEPT ![b] = g]
        /\ owed' = [owed EXCEPT ![b] = p]
    BY <1>2, <1>6 DEF WriterSends
  <2>2. b \in bots /\ Line(q, h, o)
    BY <1>2, <2>1
  <2> HIDE DEF g, p
  <2>3. Line(Tail(q), g, p)
    <3> HIDE DEF q, h, o
    <3> QED
      BY <2>1, <2>2, LineSends DEF g, p
  <2>4. Tail(q) \in Seq(Frames) /\ g \in Seq(Kinds) /\ p \in Nat
    BY <2>3, FS_CardinalityType DEF Line
  <2>5. /\ outbox' \in [Bots -> Seq(Frames)] /\ heard' \in [Bots -> Seq(Kinds)] /\ owed' \in [Bots -> Nat]
        /\ outbox'[b] = Tail(q) /\ heard'[b] = g /\ owed'[b] = p
        /\ \A c \in Bots \ {b} : outbox'[c] = outbox[c] /\ heard'[c] = heard[c] /\ owed'[c] = owed[c]
    BY <1>2, <2>1, <2>4
  <2>6. BotTypes'
    BY <1>2, <2>1, <2>2, <2>5 DEF BotTypes
  <2>7. ASSUME NEW c \in bots'
        PROVE  Line(outbox'[c], heard'[c], owed'[c])
    BY <1>2, <2>1, <2>3, <2>5
  <2> QED
    BY <1>1, <2>6, <2>7 DEF FeedInv, Lines
<1> QED
  BY <1>3, <1>4, <1>5, <1>6

\* A room without a game is a room.
LEMMA OfflineType == Offline \in Rooms
<1>1. "OFFLINE" \in States /\ 0 \in 0 .. MaxRound /\ None \in Snapshots \cup {None}
  BY FeedAssumption DEF States
<1> QED
  BY <1>1 DEF Offline, Rooms

\* The invariant holds at the start, and of every step.
LEMMA InitFeedInv == Init => FeedInv
<1> SUFFICES ASSUME Init
             PROVE  FeedInv
  OBVIOUS
<1>1. RoomTypes
  BY OfflineType DEF Init, RoomTypes
<1>2. IsFiniteSet({}) /\ Cardinality({}) = 0
  BY FS_EmptySet
<1>3. BotTypes /\ Lines
  BY <1>2, FeedAssumption DEF Init, BotTypes, Lines
<1> QED
  BY <1>1, <1>3 DEF FeedInv

LEMMA NextFeedInv == FeedInv /\ [Next]_vars => FeedInv'
<1> SUFFICES ASSUME FeedInv, [Next]_vars
             PROVE  FeedInv'
  OBVIOUS
<1>1. ASSUME NEW i \in Instances, RegisterGame(i)
      PROVE  FeedInv'
  <2>1. /\ game' = i /\ ready' = ~hasConnected /\ hasConnected' = TRUE
        /\ room' = [room EXCEPT !.phase = "TITLE"] /\ inherited' = (room.closed # 0)
        /\ UNCHANGED <<bots, outbox, owed, heard, view>>
    BY <1>1 DEF RegisterGame
  <2>2. room' \in Rooms
    BY <2>1 DEF FeedInv, RoomTypes, Rooms, States
  <2>3. ready' \in BOOLEAN /\ inherited' \in BOOLEAN
    BY <2>1, Zenon
  <2>4. RoomTypes'
    BY <2>1, <2>2, <2>3 DEF RoomTypes
  <2> QED
    BY <2>1, <2>4 DEF FeedInv, BotTypes, Lines
<1>2. CASE Restart
  <2>2. RoomTypes'
    BY <1>2, OfflineType DEF Restart, RoomTypes
  <2>3. IsFiniteSet({}) /\ Cardinality({}) = 0
    BY FS_EmptySet
  <2>4. BotTypes' /\ Lines'
    BY <1>2, <2>3, FeedAssumption DEF Restart, BotTypes, Lines
  <2> QED
    BY <2>2, <2>4 DEF FeedInv
<1>3. CASE UNCHANGED vars
  BY <1>3 DEF vars, FeedInv, RoomTypes, BotTypes, Lines
<1> QED
  BY <1>1, <1>2, <1>3, GameKeeps, BotKeeps DEF Next

-----------------------------------------------------------------------------
(* Theorems *)

\* The invariant holds in every state: rooms, queues and what every bot is owed.
THEOREM FeedInvCorrect == Spec => []FeedInv
BY InitFeedInv, NextFeedInv, PTL DEF Spec

\* Every variable keeps its type, and no queue holds more than
\* outbound_queue_size frames (hub.py: _broadcast; connection.py: send).
THEOREM FeedTypeCorrect == Spec => []TypeOK
<1>1. ASSUME FeedInv
      PROVE  TypeOK
  <2>1. ASSUME NEW b \in Bots
        PROVE  /\ Len(outbox[b]) <= QueueLimit /\ (b \notin bots => outbox[b] = <<>>)
               /\ owed[b] \in 0 .. QueueLimit
    <3>1. CASE b \in bots
      <4> DEFINE q == outbox[b]
                 D == Due(q, Len(heard[b]))
      <4>1. Line(q, heard[b], owed[b])
        BY <1>1, <3>1 DEF FeedInv, Lines
      <4>2. q \in Seq(Frames) /\ Len(q) <= QueueLimit /\ owed[b] = Cardinality(D) /\ Len(q) \in Nat
        BY <4>1 DEF Line
      <4>3. D \in SUBSET (1 .. Len(q))
        BY DEF Due
      <4> HIDE DEF D, q
      <4>4. /\ IsFiniteSet(1 .. Len(q)) /\ Cardinality(1 .. Len(q)) = Len(q)
        <5>1. 1 \in Int /\ Len(q) \in Int
          BY <4>2
        <5>2. /\ IsFiniteSet(1 .. Len(q))
              /\ Cardinality(1 .. Len(q)) = IF 1 > Len(q) THEN 0 ELSE Len(q) - 1 + 1
          BY <5>1, FS_Interval
        <5> QED
          BY <4>2, <5>2
      <4>5. IsFiniteSet(D) /\ Cardinality(D) <= Len(q)
        BY <4>3, <4>4, FS_Subset
      <4>6. Cardinality(D) \in Nat
        BY <4>5, FS_CardinalityType
      <4> QED
        BY <3>1, <4>2, <4>5, <4>6, FeedAssumption DEF q
    <3>2. CASE b \notin bots
      BY <1>1, <3>2, FeedAssumption DEF FeedInv, BotTypes
    <3> QED
      BY <3>1, <3>2
  <2> QED
    BY <1>1, <2>1 DEF FeedInv, RoomTypes, BotTypes, TypeOK
<1>2. FeedInv => TypeOK
  BY <1>1
<1> QED
  BY <1>2, FeedInvCorrect, PTL

\* A bot that stays in the room has been sent, or will be, everything announced
\* since it joined (hub.py: _broadcast).
THEOREM NothingSkippedCorrect == Spec => []NothingSkipped
<1>1. FeedInv => NothingSkipped
  BY DEF FeedInv, Lines, Line, Due, NothingSkipped
<1> QED
  BY <1>1, FeedInvCorrect, PTL

\* A bot's first frames are authenticated, protocol.info and game.sync, whatever
\* else happens while it joins (hub.py: handle, _send_server_state).
THEOREM GreetedCorrect == Spec => []Greeted
<1>1. ASSUME FeedInv, NEW b \in bots
      PROVE  IsPrefix(Greeting, heard[b] \o [k \in 1 .. Len(outbox[b]) |-> outbox[b][k].kind])
  <2> DEFINE q == outbox[b]
             h == heard[b]
             t == [k \in 1 .. Len(q) |-> q[k].kind]
             all == h \o t
  <2>1. Line(q, h, owed[b])
    BY <1>1 DEF FeedInv, Lines
  <2>2. /\ q \in Seq(Frames) /\ h \in Seq(Kinds) /\ Len(q) \in Nat /\ Len(h) \in 0 .. 3
        /\ Len(h) + Len(q) >= 3
        /\ \A k \in 1 .. 3 : Greeting[k] = IF k <= Len(h) THEN h[k] ELSE q[k - Len(h)].kind
    <3> HIDE DEF q, h
    <3> QED
      BY <2>1 DEF Line
  <2> HIDE DEF q, h
  <2>3. t \in Seq(Kinds) /\ Len(t) = Len(q)
    <3>1. \A k \in 1 .. Len(q) : q[k] \in Frames
      BY <2>2
    <3>2. \A k \in 1 .. Len(q) : q[k].kind \in Kinds
      BY <3>1 DEF Frames, Kinds
    <3> QED
      BY <2>2, <3>2
  <2>4. /\ Len(all) = Len(h) + Len(t) /\ all \in Seq(Kinds)
        /\ \A k \in 1 .. Len(h) + Len(t) : all[k] = IF k <= Len(h) THEN h[k] ELSE t[k - Len(h)]
    <3> HIDE DEF t
    <3> QED
      BY <2>2, <2>3, ConcatProperties
  <2>5. Len(Greeting) = 3 /\ Greeting \in Seq(Kinds)
    BY DEF Greeting, Kinds, Announcements
  <2>6. ASSUME NEW k \in 1 .. 3
        PROVE  all[k] = Greeting[k]
    <3> HIDE DEF all
    <3>1. k \in 1 .. Len(h) + Len(t)
      BY <2>2, <2>3
    <3>2. CASE k <= Len(h)
      BY <2>2, <2>4, <3>1, <3>2
    <3>3. CASE ~(k <= Len(h))
      <4>1. k - Len(h) \in 1 .. Len(q)
        BY <2>2, <3>3
      <4>2. t[k - Len(h)] = q[k - Len(h)].kind
        BY <4>1
      <4> QED
        BY <2>2, <2>4, <3>1, <3>3, <4>2
    <3> QED
      BY <3>2, <3>3
  <2> HIDE DEF t, all
  <2>7. Len(Greeting) <= Len(all)
    BY <2>2, <2>3, <2>4, <2>5
  <2>8. SubSeq(Greeting, 1, 3) = SubSeq(all, 1, 3)
    <3> DEFINE a == SubSeq(Greeting, 1, 3)
               c == SubSeq(all, 1, 3)
    <3>1. a \in Seq(Kinds) /\ Len(a) = 3 /\ \A k \in 1 .. 3 : a[k] = Greeting[k]
      <4>1. Greeting \in Seq(Kinds) /\ 3 <= Len(Greeting) /\ Len(Greeting) \in Nat
        BY <2>5
      <4> QED
        BY <4>1
    <3>2. c \in Seq(Kinds) /\ Len(c) = 3 /\ \A k \in 1 .. 3 : c[k] = all[k]
      BY <2>2, <2>3, <2>4
    <3> HIDE DEF a, c
    <3>3. a = c
      BY <2>6, <3>1, <3>2, SeqEqual
    <3> QED
      BY <3>3 DEF a, c
  <2>9. IsPrefix(Greeting, all)
    BY <2>5, <2>7, <2>8 DEF IsPrefix
  <2> QED
    BY <2>9 DEF all, t, h, q
<1>2. FeedInv => Greeted
  BY <1>1 DEF Greeted
<1> QED
  BY <1>2, FeedInvCorrect, PTL

-----------------------------------------------------------------------------
(* What a bot makes of its queue *)

\* A set that has 0, and the successor of each of its numbers, has them all.  (An
\* element that was missing would leave, one after the other, as many missing
\* below it as there are missing up to it.)
LEMMA NumbersOneByOne ==
  ASSUME NEW S, 0 \in S, \A n \in Nat : n \in S => n + 1 \in S
  PROVE  \A n \in Nat : n \in S
<1> SUFFICES ASSUME NEW n \in Nat, n \notin S
             PROVE  FALSE
  OBVIOUS
<1> DEFINE T == {k \in 0 .. n : k \notin S}
           U == T \ {n}
           f == [k \in T |-> k - 1]
<1>1. IsFiniteSet(T) /\ n \in T
  <2>1. 0 \in Int /\ n \in Int
    OBVIOUS
  <2>2. IsFiniteSet(0 .. n)
    BY <2>1, FS_Interval
  <2>3. T \in SUBSET (0 .. n)
    OBVIOUS
  <2>4. IsFiniteSet(T)
    <3> HIDE DEF T
    <3> QED
      BY <2>2, <2>3, FS_Subset
  <2> QED
    BY <2>4
<1>2. f \in [T -> U]
  <2>1. ASSUME NEW k \in T
        PROVE  k - 1 \in U
    <3>1. k \in Nat /\ k <= n /\ k \notin S /\ k # 0
      OBVIOUS
    <3>2. k - 1 \in Nat /\ (k - 1) + 1 = k /\ k - 1 # n
      BY <3>1
    <3>3. k - 1 \notin S
      BY <3>1, <3>2
    <3> QED
      BY <3>1, <3>2, <3>3
  <2> QED
    BY <2>1
<1>3. \A a, b \in T : f[a] = f[b] => a = b
  OBVIOUS
<1> HIDE DEF T, f
<1>4. f \in Injection(T, U)
  BY <1>2, <1>3 DEF Injection, IsInjective
<1>5. IsFiniteSet(U) /\ Cardinality(U) = Cardinality(T) - 1
  BY <1>1, FS_RemoveElement
<1>6. Cardinality(T) <= Cardinality(U) /\ Cardinality(T) \in Nat
  <2> HIDE DEF U
  <2> QED
    BY <1>1, <1>4, <1>5, FS_Injection, FS_CardinalityType
<1> QED
  BY <1>5, <1>6

\* What is believed before and after every frame of q, from v on.
Trail(t, v, q) ==
  /\ t = [k \in 0 .. Len(q) |-> t[k]]
  /\ t[0] = v
  /\ \A k \in 1 .. Len(q) : t[k] = Reads(t[k - 1], q[k])

\* There is one way to read a queue.
LEMMA OneTrail ==
  ASSUME NEW q \in Seq(Frames), NEW v, NEW t, NEW u, Trail(t, v, q), Trail(u, v, q)
  PROVE  \A n \in 0 .. Len(q) : t[n] = u[n]
<1> DEFINE S == {n \in Nat : n <= Len(q) => t[n] = u[n]}
<1>1. 0 \in S
  BY DEF Trail
<1>2. ASSUME NEW n \in Nat, n \in S
      PROVE  n + 1 \in S
  <2>1. SUFFICES ASSUME n + 1 <= Len(q)
                 PROVE  t[n + 1] = u[n + 1]
    OBVIOUS
  <2>2. n + 1 \in 1 .. Len(q) /\ (n + 1) - 1 = n /\ n <= Len(q)
    BY <2>1
  <2>3. t[n] = u[n]
    BY <1>2, <2>2
  <2>4. t[n + 1] = Reads(t[n], q[n + 1]) /\ u[n + 1] = Reads(u[n], q[n + 1])
    BY <2>2 DEF Trail
  <2> QED
    BY <2>3, <2>4
<1> HIDE DEF S
<1>3. \A n \in Nat : n \in S
  BY <1>1, <1>2, NumbersOneByOne
<1> QED
  BY <1>3 DEF S

\* A bot's beliefs are the trail of its queue, once there is one.
LEMMA BeliefsAreTrail ==
  ASSUME NEW q \in Seq(Frames), NEW v, NEW t, Trail(t, v, q)
  PROVE  Beliefs(v, q) = t
<1> DEFINE Step(a) == [k \in 0 .. Len(q) |-> IF k = 0 THEN v ELSE Reads(a[k - 1], q[k])]
           after == CHOOSE a : a = Step(a)
<1>1. Step(t) = [k \in 0 .. Len(q) |-> t[k]]
  <2>1. \A k \in 0 .. Len(q) : k # 0 => k \in 1 .. Len(q)
    OBVIOUS
  <2>2. \A k \in 0 .. Len(q) : t[k] = IF k = 0 THEN v ELSE Reads(t[k - 1], q[k])
    BY <2>1 DEF Trail
  <2> QED
    BY <2>2
<1>2. t = [k \in 0 .. Len(q) |-> t[k]]
  BY DEF Trail
<1>3. t = Step(t)
  BY ONLY <1>1, <1>2
<1>4. after = Step(after)
  <2> HIDE DEF Step
  <2> QED
    BY <1>3
<1> HIDE DEF after
<1>5. after = [k \in 0 .. Len(q) |-> after[k]]
  <2>1. Step(after) = [k \in 0 .. Len(q) |-> Step(after)[k]]
    OBVIOUS
  <2> HIDE DEF Step
  <2> QED
    BY <1>4, <2>1
<1>6. Trail(after, v, q)
  <2>1. \A k \in 0 .. Len(q) : after[k] = IF k = 0 THEN v ELSE Reads(after[k - 1], q[k])
    <3>1. \A k \in 0 .. Len(q) : Step(after)[k] = IF k = 0 THEN v ELSE Reads(after[k - 1], q[k])
      OBVIOUS
    <3> HIDE DEF Step
    <3> QED
      BY <1>4, <3>1
  <2>2. Len(q) \in Nat /\ 0 \in 0 .. Len(q) /\ \A k \in 1 .. Len(q) : k \in 0 .. Len(q) /\ k # 0
    OBVIOUS
  <2> QED
    BY ONLY <1>5, <2>1, <2>2 DEF Trail
<1>7. Beliefs(v, q) = after
  BY DEF Beliefs, after
<1>8. \A k \in 0 .. Len(q) : after[k] = t[k]
  BY <1>6, OneTrail
<1>9. after = t
  BY ONLY <1>2, <1>5, <1>8
<1> QED
  BY <1>7, <1>9

\* One more frame in the queue leaves what is believed before it as it was.
LEMMA TrailGrows ==
  ASSUME NEW q \in Seq(Frames), NEW f \in Frames, NEW v, Trail(Beliefs(v, q), v, q)
  PROVE  /\ Trail(Beliefs(v, Append(q, f)), v, Append(q, f))
         /\ Beliefs(v, Append(q, f))[Len(q) + 1] = Reads(Beliefs(v, q)[Len(q)], f)
         /\ \A k \in 0 .. Len(q) : Beliefs(v, Append(q, f))[k] = Beliefs(v, q)[k]
<1> DEFINE n == Len(q)
           s == Append(q, f)
           t == Beliefs(v, q)
           w == [k \in 0 .. n + 1 |-> IF k <= n THEN t[k] ELSE Reads(t[n], f)]
<1>1. /\ n \in Nat /\ s \in Seq(Frames) /\ Len(s) = n + 1 /\ s[n + 1] = f
      /\ \A k \in 1 .. n : s[k] = q[k]
  BY AppendProperties
<1> HIDE DEF s, t
<1>2. /\ w = [k \in 0 .. n + 1 |-> w[k]] /\ w[n + 1] = Reads(t[n], f)
      /\ \A k \in 0 .. n : w[k] = t[k]
  <2>1. n + 1 \in 0 .. n + 1 /\ ~(n + 1 <= n)
    BY <1>1
  <2>2. \A k \in 0 .. n : k \in 0 .. n + 1 /\ k <= n
    BY <1>1
  <2> QED
    BY <2>1, <2>2
<1> HIDE DEF w
<1>3. t[0] = v /\ \A k \in 1 .. n : t[k] = Reads(t[k - 1], q[k])
  BY DEF Trail, t
<1> HIDE DEF n
<1>4. w[0] = v
  <2>1. 0 \in 0 .. n
    BY <1>1
  <2> QED
    BY <1>2, <1>3, <2>1
<1>5. ASSUME NEW k \in 1 .. n + 1
      PROVE  w[k] = Reads(w[k - 1], s[k])
  <2>1. CASE k = n + 1
    <3>1. k - 1 = n /\ n \in 0 .. n
      BY <1>1, <2>1
    <3>2. w[k] = Reads(t[n], f) /\ s[k] = f /\ w[k - 1] = t[n]
      BY <1>1, <1>2, <2>1, <3>1
    <3> QED
      BY <3>2
  <2>2. CASE k # n + 1
    <3>1. k \in 1 .. n /\ k \in 0 .. n /\ k - 1 \in 0 .. n
      BY <1>1, <2>2
    <3> QED
      BY ONLY <1>1, <1>2, <1>3, <3>1
  <2> QED
    BY <2>1, <2>2
<1>6. Trail(w, v, s)
  BY <1>1, <1>2, <1>4, <1>5 DEF Trail
<1>7. Beliefs(v, s) = w
  BY <1>1, <1>6, BeliefsAreTrail
<1> QED
  BY <1>2, <1>6, <1>7 DEF n, s, t

\* When the first frame is sent, the rest of the trail is left.
LEMMA TrailShrinks ==
  ASSUME NEW q \in Seq(Frames), q # <<>>, NEW v, Trail(Beliefs(v, q), v, q)
  PROVE  /\ Trail(Beliefs(Reads(v, Head(q)), Tail(q)), Reads(v, Head(q)), Tail(q))
         /\ \A k \in 0 .. Len(q) - 1 :
              Beliefs(Reads(v, Head(q)), Tail(q))[k] = Beliefs(v, q)[k + 1]
<1> DEFINE n == Len(q) - 1
           s == Tail(q)
           w == Reads(v, Head(q))
           t == Beliefs(v, q)
           x == [k \in 0 .. n |-> t[k + 1]]
<1>1. /\ n \in Nat /\ s \in Seq(Frames) /\ Len(s) = n /\ Len(q) = n + 1
      /\ \A k \in 1 .. n : s[k] = q[k + 1]
      /\ w = Reads(v, q[1])
  BY HeadTailProperties
<1> HIDE DEF s, w, t
<1>2. x = [k \in 0 .. n |-> x[k]] /\ \A k \in 0 .. n : x[k] = t[k + 1]
  OBVIOUS
<1> HIDE DEF x
<1>3. t[0] = v /\ \A k \in 1 .. n + 1 : t[k] = Reads(t[k - 1], q[k])
  BY <1>1 DEF Trail, t
<1> HIDE DEF n
<1>4. x[0] = w
  <2>1. 0 \in 0 .. n /\ 1 \in 1 .. n + 1 /\ 1 - 1 = 0 /\ 0 + 1 = 1
    BY <1>1
  <2>2. t[1] = Reads(t[0], q[1])
    BY <1>3, <2>1
  <2>3. x[0] = t[1]
    BY <1>2, <2>1
  <2> QED
    BY <1>1, <1>3, <2>2, <2>3
<1>5. ASSUME NEW k \in 1 .. n
      PROVE  x[k] = Reads(x[k - 1], s[k])
  <2>1. /\ k + 1 \in 1 .. n + 1 /\ (k + 1) - 1 = k /\ k \in 0 .. n /\ k - 1 \in 0 .. n
        /\ (k - 1) + 1 = k
    BY <1>1
  <2>2. t[k + 1] = Reads(t[k], q[k + 1])
    BY <1>3, <2>1
  <2>3. x[k] = t[k + 1] /\ x[k - 1] = t[k] /\ s[k] = q[k + 1]
    BY <1>1, <1>2, <2>1
  <2> QED
    BY <2>2, <2>3
<1>6. Trail(x, w, s)
  BY <1>1, <1>2, <1>4, <1>5 DEF Trail
<1>7. Beliefs(w, s) = x
  BY <1>1, <1>6, BeliefsAreTrail
<1> QED
  BY <1>2, <1>6, <1>7 DEF n, s, w, t

-----------------------------------------------------------------------------
(* What a bot will know *)

\* To believe w is to know the rounds of the room r of game g, and its state, but
\* for a game that has not said anything of it.
Knows(w, r, g) ==
  /\ w = [inst |-> w.inst,
          room |-> [phase |-> w.room.phase, active |-> r.active, snap |-> r.snap,
                    closed |-> r.closed]]
  /\ r.active # 0 => w.inst = g
  /\ w.room.phase = r.phase \/ (w.room.phase = "OFFLINE" /\ r.phase = "TITLE" /\ g # None)

\* A bot that believes v and is sent q knows the room in the end, and everything
\* on the way makes sense to it.
Follows(v, q, r, g) ==
  /\ Trail(Beliefs(v, q), v, q)
  /\ Knows(Beliefs(v, q)[Len(q)], r, g)
  /\ \A k \in 1 .. Len(q) : MakesSense(q[k], Beliefs(v, q)[k - 1].room)

\* One more frame, which says what has become of the room.
LEMMA FollowsNews ==
  ASSUME NEW q \in Seq(Frames), NEW f \in Frames, NEW v, NEW r, NEW g, Follows(v, q, r, g),
         NEW r2, NEW g2,
         \A w : Knows(w, r, g) => Knows(Reads(w, f), r2, g2) /\ MakesSense(f, w.room)
  PROVE  Follows(v, Append(q, f), r2, g2)
<1> DEFINE t == Beliefs(v, q)
           s == Append(q, f)
           u == Beliefs(v, s)
           n == Len(q)
<1>1. /\ Trail(t, v, q)
      /\ Knows(t[n], r, g)
      /\ \A k \in 1 .. n : MakesSense(q[k], t[k - 1].room)
  BY DEF Follows
<1>2. Trail(u, v, s) /\ u[n + 1] = Reads(t[n], f) /\ \A k \in 0 .. n : u[k] = t[k]
  BY <1>1, TrailGrows
<1> HIDE DEF t, u
<1>3. n \in Nat /\ Len(s) = n + 1 /\ s[n + 1] = f /\ \A k \in 1 .. n : s[k] = q[k]
  BY AppendProperties
<1> HIDE DEF n, s
<1>4. Knows(u[Len(s)], r2, g2)
  BY <1>1, <1>2, <1>3
<1>5. ASSUME NEW k \in 1 .. Len(s)
      PROVE  MakesSense(s[k], u[k - 1].room)
  <2>1. CASE k = n + 1
    <3>1. k - 1 = n /\ n \in 0 .. n
      BY <1>3, <2>1
    <3>2. s[k] = f /\ u[k - 1] = t[n]
      BY <1>2, <1>3, <2>1, <3>1
    <3> QED
      BY <1>1, <3>2
  <2>2. CASE k # n + 1
    <3>1. k \in 1 .. n /\ k - 1 \in 0 .. n
      BY <1>3, <2>2
    <3>2. s[k] = q[k] /\ u[k - 1] = t[k - 1]
      BY <1>2, <1>3, <3>1
    <3> QED
      BY <1>1, <3>1, <3>2
  <2> QED
    BY <2>1, <2>2
<1>6. Follows(v, s, r2, g2)
  BY <1>2, <1>4, <1>5 DEF Follows, u
<1> QED
  BY <1>6 DEF s

\* A reply says nothing of the room.
LEMMA FollowsReply ==
  ASSUME NEW q \in Seq(Frames), NEW v, NEW r, NEW g, Follows(v, q, r, g)
  PROVE  Follows(v, Append(q, Reply), r, g) /\ Append(q, Reply) \in Seq(Frames)
<1>1. Reply \in Frames
  BY FrameTypes
<1>2. \A w : Reads(w, Reply) = w /\ MakesSense(Reply, w.room)
  BY DEF Reply, Frame, Reads, MakesSense
<1> QED
  BY <1>1, <1>2, FollowsNews, AppendProperties

\* The first frame is sent.
LEMMA FollowsSent ==
  ASSUME NEW q \in Seq(Frames), q # <<>>, NEW v, NEW r, NEW g, Follows(v, q, r, g)
  PROVE  Follows(Reads(v, Head(q)), Tail(q), r, g)
<1> DEFINE t == Beliefs(v, q)
           s == Tail(q)
           w == Reads(v, Head(q))
           u == Beliefs(w, s)
           n == Len(s)
<1>1. /\ Trail(t, v, q)
      /\ Knows(t[Len(q)], r, g)
      /\ \A k \in 1 .. Len(q) : MakesSense(q[k], t[k - 1].room)
  BY DEF Follows
<1>2. Trail(u, w, s) /\ \A k \in 0 .. Len(q) - 1 : u[k] = t[k + 1]
  BY <1>1, TrailShrinks
<1> HIDE DEF t, w, u
<1>3. n \in Nat /\ Len(q) = n + 1 /\ \A k \in 1 .. n : s[k] = q[k + 1]
  BY HeadTailProperties
<1> HIDE DEF s
<1>4. Knows(u[n], r, g)
  <2>1. n \in 0 .. n
    BY <1>3
  <2> QED
    BY <1>1, <1>2, <1>3, <2>1
<1>5. ASSUME NEW k \in 1 .. n
      PROVE  MakesSense(s[k], u[k - 1].room)
  <2>1. k + 1 \in 1 .. Len(q) /\ (k + 1) - 1 = k /\ k - 1 \in 0 .. n /\ (k - 1) + 1 = k
    BY <1>3
  <2>2. s[k] = q[k + 1] /\ u[k - 1] = t[k]
    BY <1>2, <1>3, <2>1
  <2> QED
    BY <1>1, <2>1, <2>2
<1>6. Follows(w, s, r, g)
  BY <1>2, <1>4, <1>5 DEF Follows, u
<1> QED
  BY <1>6 DEF s, w

-----------------------------------------------------------------------------
(* The room and what bots will know of it *)

\* Without a game the room is offline and no round is active.
RoundPart == game = None => room.phase = "OFFLINE" /\ room.active = 0

\* What is queued for a bot brings it to the room as it is, in steps that make
\* sense; who is not in the room knows nothing.
ViewPart ==
  /\ \A b \in Bots \ bots : view[b] = NothingYet
  /\ \A b \in bots : Follows(view[b], outbox[b], room, game)

KnownInv == FeedInv /\ RoundPart /\ ViewPart

\* What a broadcast puts in the queues of the bots that stay.
LEMMA BroadcastFrames ==
  ASSUME BotTypes, NEW f \in Frames, NEW answered \in SUBSET bots, Broadcast(f, answered)
  PROVE  /\ bots' \subseteq bots
         /\ view' = [b \in Bots |-> IF b \in bots' THEN view[b] ELSE NothingYet]
         /\ \A b \in bots' : \/ outbox'[b] = Append(outbox[b], f)
                             \/ outbox'[b] = Append(Append(outbox[b], Reply), f)
<1> DEFINE a(b) == IF b \in answered THEN <<Reply>> ELSE <<>>
           t(b) == IF b \in bots THEN <<f>> ELSE <<>>
           to == [b \in Bots |-> a(b) \o t(b)]
<1>1. /\ bots' \subseteq bots /\ bots \subseteq Bots
      /\ outbox' = [b \in Bots |-> IF b \in bots' THEN outbox[b] \o to[b] ELSE <<>>]
      /\ view' = [b \in Bots |-> IF b \in bots' THEN view[b] ELSE NothingYet]
  <2>1. /\ bots' = {b \in bots : Fits(outbox[b], to[b])}
        /\ outbox' = Kept([b \in Bots |-> outbox[b] \o to[b]], <<>>)
        /\ view' = Kept(view, NothingYet)
    BY DEF Broadcast, SendsToAll
  <2> HIDE DEF to
  <2> QED
    BY <2>1 DEF Kept, BotTypes
<1>2. ASSUME NEW b \in bots'
      PROVE  \/ outbox'[b] = Append(outbox[b], f)
             \/ outbox'[b] = Append(Append(outbox[b], Reply), f)
  <2> DEFINE q == outbox[b]
  <2>1. b \in bots /\ b \in Bots /\ q \in Seq(Frames) /\ outbox'[b] = q \o (a(b) \o <<f>>)
    BY <1>1 DEF BotTypes
  <2>2. Reply \in Frames
    BY FrameTypes
  <2>3. CASE b \in answered
    <3> DEFINE s == Append(q, Reply)
    <3>1. outbox'[b] = q \o (<<Reply>> \o <<f>>)
      BY <2>1, <2>3
    <3> HIDE DEF q
    <3>2. q \o (<<Reply>> \o <<f>>) = (q \o <<Reply>>) \o <<f>>
      <4>1. <<Reply>> \in Seq(Frames) /\ <<f>> \in Seq(Frames)
        BY <2>2
      <4> QED
        BY <2>1, <4>1, ConcatAssociative
    <3>3. s \in Seq(Frames)
      BY <2>1, <2>2, AppendProperties
    <3>4. q \o <<Reply>> = s /\ s \o <<f>> = Append(s, f)
      BY <2>1, <2>2, <3>3, AppendIsConcat
    <3> HIDE DEF s
    <3>5. outbox'[b] = Append(s, f)
      BY <3>1, <3>2, <3>4
    <3> QED
      BY <3>5 DEF s, q
  <2>4. CASE b \notin answered
    <3>1. outbox'[b] = q \o (<<>> \o <<f>>)
      BY <2>1, <2>4
    <3>2. <<>> \o <<f>> = <<f>>
      OBVIOUS
    <3> HIDE DEF q
    <3>3. q \o <<f>> = Append(q, f)
      BY <2>1, AppendIsConcat
    <3> QED
      BY <3>1, <3>2, <3>3 DEF q
  <2> QED
    BY <2>3, <2>4
<1> QED
  BY <1>1, <1>2

\* The bots are told what becomes of the room, and it makes sense to those that know
\* the room as it was.
Told ==
  \E f \in Frames, answered \in SUBSET bots :
    /\ Broadcast(f, answered)
    /\ \A w : Knows(w, room, game) => Knows(Reads(w, f), room', game') /\ MakesSense(f, w.room)

\* A bot that is told follows the room.
LEMMA ToldFollow ==
  ASSUME BotTypes, ViewPart, Told
  PROVE  ViewPart'
<1>1. PICK f \in Frames, answered \in SUBSET bots :
        /\ Broadcast(f, answered)
        /\ \A w : Knows(w, room, game) => Knows(Reads(w, f), room', game') /\ MakesSense(f, w.room)
  BY DEF Told
<1>2. /\ bots' \subseteq bots
      /\ view' = [b \in Bots |-> IF b \in bots' THEN view[b] ELSE NothingYet]
      /\ \A b \in bots' : \/ outbox'[b] = Append(outbox[b], f)
                          \/ outbox'[b] = Append(Append(outbox[b], Reply), f)
  BY <1>1, BroadcastFrames
<1>3. ASSUME NEW b \in bots'
      PROVE  Follows(view'[b], outbox'[b], room', game')
  <2> DEFINE q == outbox[b]
             s == Append(q, Reply)
  <2>1. /\ b \in bots /\ b \in Bots /\ q \in Seq(Frames) /\ view'[b] = view[b]
        /\ Follows(view[b], q, room, game)
    BY <1>2 DEF BotTypes, ViewPart
  <2>2. Follows(view[b], s, room, game) /\ s \in Seq(Frames)
    BY <2>1, FollowsReply
  <2>3. outbox'[b] = Append(q, f) \/ outbox'[b] = Append(s, f)
    BY <1>2
  <2> HIDE DEF q, s
  <2>4. /\ Follows(view[b], Append(q, f), room', game')
        /\ Follows(view[b], Append(s, f), room', game')
    BY <1>1, <2>1, <2>2, FollowsNews
  <2> QED
    BY <2>1, <2>3, <2>4
<1> QED
  BY <1>2, <1>3 DEF ViewPart

\* A room is a record of what bots know of it.
LEMMA RoomShape ==
  ASSUME NEW r \in Rooms
  PROVE  r = [phase |-> r.phase, active |-> r.active, snap |-> r.snap, closed |-> r.closed]
BY DEF Rooms

\* What becomes of a room when a round is opened or closed.
LEMMA RoomChanges ==
  ASSUME NEW r \in Rooms, NEW n
  PROVE  /\ [r EXCEPT !.active = n, !.snap = None] =
              [phase |-> r.phase, active |-> n, snap |-> None, closed |-> r.closed]
         /\ [r EXCEPT !.active = 0, !.snap = None, !.closed = n] =
              [phase |-> r.phase, active |-> 0, snap |-> None, closed |-> n]
<1>1. r = [phase |-> r.phase, active |-> r.active, snap |-> r.snap, closed |-> r.closed]
  BY RoomShape
<1>2. ASSUME NEW a
      PROVE  [r EXCEPT !.active = a, !.snap = None] =
               [phase |-> r.phase, active |-> a, snap |-> None, closed |-> r.closed]
  <2> DEFINE e == [r EXCEPT !.active = a]
             p == r.phase
             c == r.closed
             s == r.snap
  <2>1. e = [phase |-> p, active |-> a, snap |-> s, closed |-> c]
    BY <1>1
  <2>2. [r EXCEPT !.active = a, !.snap = None] = [e EXCEPT !.snap = None]
    OBVIOUS
  <2> HIDE DEF e, p, c, s
  <2>3. [e EXCEPT !.snap = None] = [phase |-> p, active |-> a, snap |-> None, closed |-> c]
    BY ONLY <2>1
  <2> QED
    BY <2>2, <2>3 DEF p, c
<1>3. [r EXCEPT !.active = 0, !.snap = None, !.closed = n] =
        [phase |-> r.phase, active |-> 0, snap |-> None, closed |-> n]
  <2> DEFINE e == [r EXCEPT !.active = 0, !.snap = None]
             p == r.phase
             c == r.closed
  <2>1. e = [phase |-> p, active |-> 0, snap |-> None, closed |-> c]
    BY <1>2
  <2>2. [r EXCEPT !.active = 0, !.snap = None, !.closed = n] = [e EXCEPT !.closed = n]
    OBVIOUS
  <2> HIDE DEF e, p, c
  <2>3. [e EXCEPT !.closed = n] = [phase |-> p, active |-> 0, snap |-> None, closed |-> n]
    BY ONLY <2>1
  <2> QED
    BY <2>2, <2>3 DEF p
<1> QED
  BY <1>2, <1>3

\* Each announcement means to a bot what it means to the room.
LEMMA NewsIsTrue ==
  ASSUME room \in Rooms, game \in Instances, NEW w, Knows(w, room, game)
  PROVE  /\ \A r \in Rooms : Knows(Reads(w, Frame("sync", game, r)), r, game)
         /\ \A p : Knows(Reads(w, Frame("state", game, p)), [room EXCEPT !.phase = p], game)
         /\ \A n : Knows(Reads(w, Frame("opened", game, n)),
                         [room EXCEPT !.active = n, !.snap = None], game)
         /\ \A s : Knows(Reads(w, Frame("snapshot", game, s)), [room EXCEPT !.snap = s], game)
         /\ \A n : Knows(Reads(w, Frame("closed", game, n)),
                         [room EXCEPT !.active = 0, !.snap = None, !.closed = n], game)
         /\ Knows(Reads(w, Frame("effect", game, None)), room, game)
         /\ Knows(Reads(w, Frame("offline", game, None)),
                  [Offline EXCEPT !.closed = room.closed], None)
<1> DEFINE i == w.inst
           p == w.room.phase
<1>1. /\ w = [inst |-> i, room |-> [phase |-> p, active |-> room.active, snap |-> room.snap,
                                    closed |-> room.closed]]
      /\ room.active # 0 => i = game
      /\ p = room.phase \/ (p = "OFFLINE" /\ room.phase = "TITLE" /\ game # None)
  BY DEF Knows
<1> HIDE DEF i, p
<1>2. room = [phase |-> room.phase, active |-> room.active, snap |-> room.snap,
              closed |-> room.closed]
  BY RoomShape
<1>3. ASSUME NEW r \in Rooms
      PROVE  Knows(Reads(w, Frame("sync", game, r)), r, game)
  <2>1. Reads(w, Frame("sync", game, r)) = [inst |-> game, room |-> r]
    BY DEF Reads, Frame
  <2>2. r = [phase |-> r.phase, active |-> r.active, snap |-> r.snap, closed |-> r.closed]
    BY RoomShape
  <2> QED
    BY ONLY <2>1, <2>2 DEF Knows
<1>4. ASSUME NEW c
      PROVE  Knows(Reads(w, Frame("state", game, c)), [room EXCEPT !.phase = c], game)
  <2>1. Reads(w, Frame("state", game, c)) =
          [inst |-> i, room |-> [phase |-> c, active |-> room.active, snap |-> room.snap,
                                 closed |-> room.closed]]
    BY <1>1 DEF Reads, Frame
  <2>2. [room EXCEPT !.phase = c] = [phase |-> c, active |-> room.active, snap |-> room.snap,
                                     closed |-> room.closed]
    BY <1>2
  <2> QED
    BY <1>1, <2>1, <2>2 DEF Knows
<1>5. ASSUME NEW n
      PROVE  Knows(Reads(w, Frame("opened", game, n)),
                   [room EXCEPT !.active = n, !.snap = None], game)
  <2>1. Reads(w, Frame("opened", game, n)) =
          [inst |-> game, room |-> [phase |-> p, active |-> n, snap |-> None,
                                    closed |-> room.closed]]
    BY <1>1 DEF Reads, Frame
  <2>2. [room EXCEPT !.active = n, !.snap = None] =
          [phase |-> room.phase, active |-> n, snap |-> None, closed |-> room.closed]
    BY RoomChanges
  <2> QED
    BY <1>1, <2>1, <2>2 DEF Knows
<1>6. ASSUME NEW s
      PROVE  Knows(Reads(w, Frame("snapshot", game, s)), [room EXCEPT !.snap = s], game)
  <2>1. Reads(w, Frame("snapshot", game, s)) =
          [inst |-> i, room |-> [phase |-> p, active |-> room.active, snap |-> s,
                                 closed |-> room.closed]]
    BY <1>1 DEF Reads, Frame
  <2>2. [room EXCEPT !.snap = s] =
          [phase |-> room.phase, active |-> room.active, snap |-> s, closed |-> room.closed]
    BY <1>2
  <2> QED
    BY <1>1, <2>1, <2>2 DEF Knows
<1>7. ASSUME NEW n
      PROVE  Knows(Reads(w, Frame("closed", game, n)),
                   [room EXCEPT !.active = 0, !.snap = None, !.closed = n], game)
  <2>1. Reads(w, Frame("closed", game, n)) =
          [inst |-> i, room |-> [phase |-> p, active |-> 0, snap |-> None, closed |-> n]]
    BY <1>1 DEF Reads, Frame
  <2>2. [room EXCEPT !.active = 0, !.snap = None, !.closed = n] =
          [phase |-> room.phase, active |-> 0, snap |-> None, closed |-> n]
    BY RoomChanges
  <2> QED
    BY <1>1, <2>1, <2>2 DEF Knows
<1>8. Knows(Reads(w, Frame("effect", game, None)), room, game)
  <2>1. Reads(w, Frame("effect", game, None)) = w
    BY DEF Reads, Frame
  <2> QED
    BY <2>1
<1>9. Knows(Reads(w, Frame("offline", game, None)), [Offline EXCEPT !.closed = room.closed], None)
  <2>1. Reads(w, Frame("offline", game, None)) =
          [inst |-> i, room |-> [phase |-> "OFFLINE", active |-> 0, snap |-> None,
                                 closed |-> room.closed]]
    BY <1>1 DEF Reads, Frame
  <2>2. [Offline EXCEPT !.closed = room.closed] =
          [phase |-> "OFFLINE", active |-> 0, snap |-> None, closed |-> room.closed]
    BY DEF Offline
  <2> QED
    BY <2>1, <2>2 DEF Knows
<1> QED
  BY <1>3, <1>4, <1>5, <1>6, <1>7, <1>8, <1>9

\* The messages of the game, and its end, are told.
LEMMA GameTold ==
  ASSUME FeedInv,
         \/ GameLeaves
         \/ \E r \in Syncs : GameSync(r)
         \/ \E p \in Phases : GameStateChanged(p)
         \/ \E n \in Rounds : VoteOpened(n) \/ VoteClosed(n)
         \/ EffectResolved
         \/ \E s \in Snapshots : VoteSnapshot(s)
  PROVE  RoundPart' /\ Told
<1>1. /\ BotTypes /\ room \in Rooms /\ game \in Instances \cup {None} /\ None \notin Instances
      /\ Syncs \subseteq Rooms
  BY FeedAssumption, SyncAssumption DEF FeedInv, RoomTypes
<1>2. ASSUME NEW kind \in Announcements, NEW body \in Bodies, NEW answered \in SUBSET bots,
             game # None, Broadcast(Frame(kind, game, body), answered),
             \A w : Knows(w, room, game) =>
               Knows(Reads(w, Frame(kind, game, body)), room', game')
               /\ MakesSense(Frame(kind, game, body), w.room)
      PROVE  Told
  BY <1>1, <1>2, FrameTypes DEF Told
<1>3. /\ {"sync", "state", "opened", "snapshot", "closed", "effect", "offline"} = Announcements
      /\ None \in Bodies /\ Rooms \subseteq Bodies /\ Phases \subseteq Bodies
      /\ Rounds \subseteq Bodies /\ Snapshots \subseteq Bodies /\ {} \in SUBSET bots
  BY DEF Bodies, States, Announcements
<1>4. ASSUME NEW w, Knows(w, room, game)
      PROVE  /\ w.room.active = room.active /\ w.room.closed = room.closed
             /\ \A kind, body : Frame(kind, game, body).kind = kind
                                /\ Frame(kind, game, body).body = body
  BY <1>4 DEF Knows, Frame
<1>5. CASE GameLeaves
  <2>1. PICK answered \in SUBSET bots : Broadcast(Frame("offline", game, None), answered)
    BY <1>5 DEF GameLeaves
  <2>2. game # None /\ game' = None /\ room' = [Offline EXCEPT !.closed = room.closed]
    BY <1>5 DEF GameLeaves
  <2>3. ASSUME NEW w, Knows(w, room, game)
        PROVE  /\ Knows(Reads(w, Frame("offline", game, None)), room', game')
               /\ MakesSense(Frame("offline", game, None), w.room)
    <3>1. MakesSense(Frame("offline", game, None), w.room)
      BY DEF MakesSense, Frame
    <3> QED
      BY <1>1, <2>2, <2>3, <3>1, NewsIsTrue
  <2>4. Told
    BY <1>2, <1>3, <2>1, <2>2, <2>3
  <2>5. room'.phase = "OFFLINE" /\ room'.active = 0
    BY <2>2 DEF Offline
  <2> QED
    BY <2>4, <2>5 DEF RoundPart
<1>6. ASSUME NEW r \in Syncs, GameSync(r)
      PROVE  RoundPart' /\ Told
  <2>1. PICK answered \in SUBSET bots : GameTells("sync", r, answered)
    BY <1>6 DEF GameSync
  <2>2. game # None /\ game' = game /\ room' = r /\ Broadcast(Frame("sync", game, r), answered)
    BY <1>6, <2>1 DEF GameSync, GameTells
  <2>3. ASSUME NEW w, Knows(w, room, game)
        PROVE  /\ Knows(Reads(w, Frame("sync", game, r)), room', game')
               /\ MakesSense(Frame("sync", game, r), w.room)
    <3>1. MakesSense(Frame("sync", game, r), w.room)
      BY DEF MakesSense, Frame
    <3> QED
      BY <1>1, <2>2, <2>3, <3>1, NewsIsTrue
  <2>4. Told
    BY <1>1, <1>2, <1>3, <2>2, <2>3
  <2> QED
    BY <2>2, <2>4 DEF RoundPart
<1>7. ASSUME NEW p \in Phases, GameStateChanged(p)
      PROVE  RoundPart' /\ Told
  <2>1. /\ game # None /\ game' = game /\ room' = [room EXCEPT !.phase = p]
        /\ Broadcast(Frame("state", game, p), {})
    BY <1>7 DEF GameStateChanged, GameTells
  <2>2. ASSUME NEW w, Knows(w, room, game)
        PROVE  /\ Knows(Reads(w, Frame("state", game, p)), room', game')
               /\ MakesSense(Frame("state", game, p), w.room)
    <3>1. MakesSense(Frame("state", game, p), w.room)
      BY DEF MakesSense, Frame
    <3> QED
      BY <1>1, <2>1, <2>2, <3>1, NewsIsTrue
  <2>3. Told
    BY <1>2, <1>3, <2>1, <2>2
  <2> QED
    BY <2>1, <2>3 DEF RoundPart
<1>8. ASSUME NEW n \in Rounds, VoteOpened(n)
      PROVE  RoundPart' /\ Told
  <2>1. PICK answered \in SUBSET bots : GameTells("opened", n, answered)
    BY <1>8 DEF VoteOpened
  <2>2. /\ game # None /\ game' = game /\ room' = [room EXCEPT !.active = n, !.snap = None]
        /\ n > room.closed /\ n > room.active
        /\ Broadcast(Frame("opened", game, n), answered)
    BY <1>8, <2>1 DEF VoteOpened, GameTells
  <2>3. ASSUME NEW w, Knows(w, room, game)
        PROVE  /\ Knows(Reads(w, Frame("opened", game, n)), room', game')
               /\ MakesSense(Frame("opened", game, n), w.room)
    <3>1. MakesSense(Frame("opened", game, n), w.room)
      BY <1>4, <2>2, <2>3 DEF MakesSense
    <3> QED
      BY <1>1, <2>2, <2>3, <3>1, NewsIsTrue
  <2>4. Told
    BY <1>2, <1>3, <2>2, <2>3
  <2> QED
    BY <2>2, <2>4 DEF RoundPart
<1>9. ASSUME NEW n \in Rounds, VoteClosed(n)
      PROVE  RoundPart' /\ Told
  <2>1. PICK answered \in SUBSET bots : GameTells("closed", n, answered)
    BY <1>9 DEF VoteClosed
  <2>2. /\ game # None /\ game' = game /\ n = room.active
        /\ room' = [room EXCEPT !.active = 0, !.snap = None, !.closed = n]
        /\ Broadcast(Frame("closed", game, n), answered)
    BY <1>9, <2>1 DEF VoteClosed, GameTells
  <2>3. ASSUME NEW w, Knows(w, room, game)
        PROVE  /\ Knows(Reads(w, Frame("closed", game, n)), room', game')
               /\ MakesSense(Frame("closed", game, n), w.room)
    <3>1. MakesSense(Frame("closed", game, n), w.room)
      BY <1>4, <2>2, <2>3 DEF MakesSense
    <3> QED
      BY <1>1, <2>2, <2>3, <3>1, NewsIsTrue
  <2>4. Told
    BY <1>2, <1>3, <2>2, <2>3
  <2> QED
    BY <2>2, <2>4 DEF RoundPart
<1>10. CASE EffectResolved
  <2>1. /\ game # None /\ game' = game /\ room' = room
        /\ Broadcast(Frame("effect", game, None), {})
    BY <1>10 DEF EffectResolved, GameTells
  <2>2. ASSUME NEW w, Knows(w, room, game)
        PROVE  /\ Knows(Reads(w, Frame("effect", game, None)), room', game')
               /\ MakesSense(Frame("effect", game, None), w.room)
    <3>1. MakesSense(Frame("effect", game, None), w.room)
      BY DEF MakesSense, Frame
    <3> QED
      BY <1>1, <2>1, <2>2, <3>1, NewsIsTrue
  <2>3. Told
    BY <1>2, <1>3, <2>1, <2>2
  <2> QED
    BY <2>1, <2>3 DEF RoundPart
<1>11. ASSUME NEW s \in Snapshots, VoteSnapshot(s)
       PROVE  RoundPart' /\ Told
  <2>1. /\ game # None /\ game' = game /\ room' = [room EXCEPT !.snap = s]
        /\ s.round = room.active
        /\ Broadcast(Frame("snapshot", game, s), {})
    BY <1>11 DEF VoteSnapshot, GameTells
  <2>2. ASSUME NEW w, Knows(w, room, game)
        PROVE  /\ Knows(Reads(w, Frame("snapshot", game, s)), room', game')
               /\ MakesSense(Frame("snapshot", game, s), w.room)
    <3>1. MakesSense(Frame("snapshot", game, s), w.room)
      BY <1>4, <2>1, <2>2 DEF MakesSense
    <3> QED
      BY <1>1, <2>1, <2>2, <3>1, NewsIsTrue
  <2>3. Told
    BY <1>2, <1>3, <2>1, <2>2
  <2> QED
    BY <2>1, <2>3 DEF RoundPart
<1> QED
  BY <1>5, <1>6, <1>7, <1>8, <1>9, <1>10, <1>11

\* A greeting is made of frames.
LEMMA GreetingType == RoomTypes => GreetingFrames \in Seq(Frames)
<1> SUFFICES ASSUME RoomTypes
             PROVE  GreetingFrames \in Seq(Frames)
  OBVIOUS
<1> DEFINE i == IF game = None THEN Own ELSE game
<1>1. i \in Instances \cup {Own} /\ room \in Bodies /\ None \in Bodies
  BY DEF RoomTypes, Bodies
<1>2. GreetingFrames = <<Frame("authenticated", i, None), Frame("info", i, None),
                         Frame("sync", i, room)>>
  BY DEF GreetingFrames
<1> HIDE DEF i
<1>3. /\ Frame("authenticated", i, None) \in Frames /\ Frame("info", i, None) \in Frames
      /\ Frame("sync", i, room) \in Frames
  BY <1>1 DEF Frame, Frames, Announcements
<1> QED
  BY <1>2, <1>3

\* A bot that has been sent nothing follows the room once its greeting is queued; it
\* learns of it with the last of the three frames.
LEMMA GreetingFollows ==
  ASSUME RoomTypes, RoundPart
  PROVE  /\ Follows(NothingYet, GreetingFrames, room, game)
         /\ Len(GreetingFrames) = 3
         /\ \A k \in 0 .. 2 : Beliefs(NothingYet, GreetingFrames)[k] = NothingYet
         /\ Beliefs(NothingYet, GreetingFrames)[3].room = room
<1> DEFINE i == IF game = None THEN Own ELSE game
           w == [inst |-> i, room |-> room]
           q == GreetingFrames
           t == [k \in 0 .. 3 |-> IF k = 3 THEN w ELSE NothingYet]
<1>1. q = <<Frame("authenticated", i, None), Frame("info", i, None), Frame("sync", i, room)>>
  BY DEF GreetingFrames
<1>2. Knows(w, room, game)
  <2>1. room = [phase |-> room.phase, active |-> room.active, snap |-> room.snap,
                closed |-> room.closed]
    BY RoomShape DEF RoomTypes
  <2>2. room.active # 0 => i = game
    BY DEF RoundPart
  <2> HIDE DEF i
  <2> QED
    BY <2>1, <2>2 DEF Knows
<1> HIDE DEF i, q
<1>3. /\ Len(q) = 3
      /\ q[1] = Frame("authenticated", i, None) /\ q[2] = Frame("info", i, None)
      /\ q[3] = Frame("sync", i, room)
  BY <1>1
<1>4. /\ \A v : Reads(v, q[1]) = v /\ Reads(v, q[2]) = v /\ Reads(v, q[3]) = w
      /\ \A r : \A k \in 1 .. 3 : MakesSense(q[k], r)
  <2>1. ASSUME NEW v
        PROVE  Reads(v, q[1]) = v /\ Reads(v, q[2]) = v /\ Reads(v, q[3]) = w
    BY <1>3 DEF Reads, Frame
  <2>2. ASSUME NEW r, NEW k \in 1 .. 3
        PROVE  MakesSense(q[k], r)
    <3>1. q[k].kind \in {"authenticated", "info", "sync"}
      BY <1>3 DEF Frame
    <3> QED
      BY <3>1 DEF MakesSense
  <2> QED
    BY <2>1, <2>2
<1> HIDE DEF w
<1>5. t[0] = NothingYet /\ t[1] = NothingYet /\ t[2] = NothingYet /\ t[3] = w
      /\ t = [k \in 0 .. 3 |-> t[k]]
  OBVIOUS
<1> HIDE DEF t
<1>6. \A k \in 1 .. 3 : t[k] = Reads(t[k - 1], q[k])
  <2>1. \A k \in 1 .. 3 : \/ k = 1 /\ k - 1 = 0
                          \/ k = 2 /\ k - 1 = 1
                          \/ k = 3 /\ k - 1 = 2
    OBVIOUS
  <2> QED
    BY <1>4, <1>5, <2>1
<1>7. Trail(t, NothingYet, q) /\ q \in Seq(Frames)
  <2>1. q \in Seq(Frames)
    BY GreetingType DEF q
  <2> QED
    BY <1>3, <1>5, <1>6, <2>1 DEF Trail
<1>8. Beliefs(NothingYet, q) = t
  BY <1>7, BeliefsAreTrail
<1>9. Follows(NothingYet, q, room, game)
  <2>1. Knows(t[Len(q)], room, game)
    BY <1>2, <1>3, <1>5
  <2>2. \A k \in 1 .. Len(q) : MakesSense(q[k], t[k - 1].room)
    BY <1>3, <1>4
  <2> QED
    BY <1>7, <1>8, <2>1, <2>2 DEF Follows
<1>10. /\ \A k \in 0 .. 2 : Beliefs(NothingYet, q)[k] = NothingYet
       /\ Beliefs(NothingYet, q)[3].room = room
  <2>1. \A k \in 0 .. 2 : k = 0 \/ k = 1 \/ k = 2
    OBVIOUS
  <2>2. \A k \in 0 .. 2 : t[k] = NothingYet
    BY <1>5, <2>1
  <2>3. t[3].room = room
    BY <1>5 DEF w
  <2> QED
    BY <1>8, <2>2, <2>3
<1> QED
  BY <1>3, <1>9, <1>10 DEF q

\* An answer puts one frame in one queue.
LEMMA AnswerFrames ==
  ASSUME bots \subseteq Bots, outbox \in [Bots -> Seq(Frames)], NEW c \in Bots, BotAnswered(c),
         NEW b \in bots'
  PROVE  /\ b \in bots /\ view'[b] = view[b]
         /\ outbox'[b] = IF b = c THEN Append(outbox[b], Reply) ELSE outbox[b]
<1> DEFINE to == [d \in Bots |-> IF d = c THEN <<Reply>> ELSE <<>>]
           q == outbox[b]
<1>1. b \in bots /\ b \in Bots /\ view'[b] = view[b] /\ outbox'[b] = q \o to[b]
  <2>1. SendsToAll(to) /\ view' = Kept(view, NothingYet)
    BY DEF BotAnswered
  <2> HIDE DEF to
  <2>2. /\ bots' = {d \in bots : Fits(outbox[d], to[d])}
        /\ outbox' = Kept([d \in Bots |-> outbox[d] \o to[d]], <<>>)
    BY <2>1 DEF SendsToAll
  <2> QED
    BY <2>1, <2>2 DEF Kept
<1>2. to[b] = IF b = c THEN <<Reply>> ELSE <<>>
  BY <1>1
<1>3. q \in Seq(Frames) /\ Reply \in Frames
  BY <1>1, FrameTypes
<1> HIDE DEF to, q
<1>4. q \o <<Reply>> = Append(q, Reply) /\ q \o <<>> = q
  BY <1>3, AppendIsConcat, ConcatEmptySeq
<1>5. outbox'[b] = IF b = c THEN Append(q, Reply) ELSE q
  BY <1>1, <1>2, <1>4
<1> QED
  BY <1>1, <1>5 DEF q

\* What a bot does, and what is done for it alone.
LEMMA BotKnown ==
  ASSUME KnownInv, NEW b \in Bots, BotJoins(b) \/ BotLeaves(b) \/ BotAnswered(b) \/ WriterSends(b)
  PROVE  RoundPart' /\ ViewPart'
<1>1. /\ RoomTypes /\ RoundPart /\ bots \subseteq Bots
      /\ outbox \in [Bots -> Seq(Frames)] /\ DOMAIN view = Bots
      /\ \A c \in Bots \ bots : outbox[c] = <<>> /\ view[c] = NothingYet
      /\ \A c \in bots : Follows(view[c], outbox[c], room, game)
  BY DEF KnownInv, FeedInv, BotTypes, ViewPart
<1>2. game' = game /\ room' = room
  BY DEF BotJoins, BotLeaves, BotAnswered, WriterSends
<1>3. RoundPart'
  BY <1>1, <1>2 DEF RoundPart
<1>4. ASSUME \A c \in Bots \ bots' : view'[c] = NothingYet,
             \A c \in bots' : Follows(view'[c], outbox'[c], room, game)
      PROVE  ViewPart'
  BY <1>2, <1>4 DEF ViewPart
<1>5. CASE BotJoins(b)
  <2> DEFINE q == GreetingFrames
  <2>1. /\ b \notin bots /\ bots' = bots \cup {b} /\ view' = view
        /\ outbox' = [outbox EXCEPT ![b] = q]
    BY <1>5 DEF BotJoins
  <2>2. Follows(NothingYet, q, room, game)
    BY <1>1, GreetingFollows
  <2> HIDE DEF q
  <2>3. outbox'[b] = q /\ \A c \in Bots \ {b} : outbox'[c] = outbox[c]
    BY <1>1, <2>1
  <2>4. ASSUME NEW c \in bots'
        PROVE  Follows(view'[c], outbox'[c], room, game)
    <3>1. CASE c = b
      BY <1>1, <2>1, <2>2, <2>3, <3>1
    <3>2. CASE c # b
      BY <1>1, <2>1, <2>3, <3>2
    <3> QED
      BY <3>1, <3>2
  <2> QED
    BY <1>1, <1>3, <1>4, <2>1, <2>4
<1>6. CASE BotLeaves(b)
  <2>1. /\ bots' = bots \ {b}
        /\ outbox' = [c \in Bots |-> IF c \in bots' THEN outbox[c] ELSE <<>>]
        /\ view' = [c \in Bots |-> IF c \in bots' THEN view[c] ELSE NothingYet]
    BY <1>6 DEF BotLeaves, Kept
  <2> QED
    BY <1>1, <1>3, <1>4, <2>1
<1>7. CASE BotAnswered(b)
  <2>1. ASSUME NEW c \in bots'
        PROVE  Follows(view'[c], outbox'[c], room, game)
    <3> DEFINE q == outbox[c]
    <3>1. /\ c \in bots /\ view'[c] = view[c]
          /\ outbox'[c] = IF c = b THEN Append(q, Reply) ELSE q
      BY <1>1, <1>7, <2>1, AnswerFrames
    <3>2. q \in Seq(Frames) /\ Follows(view[c], q, room, game)
      BY <1>1, <3>1
    <3> HIDE DEF q
    <3>3. Follows(view[c], Append(q, Reply), room, game)
      BY <3>2, FollowsReply
    <3> QED
      BY <3>1, <3>2, <3>3
  <2>2. \A c \in Bots \ bots' : view'[c] = NothingYet
    BY <1>7 DEF BotAnswered, Kept
  <2> QED
    BY <1>3, <1>4, <2>1, <2>2
<1>8. CASE WriterSends(b)
  <2> DEFINE q == outbox[b]
             v == Reads(view[b], Head(q))
  <2>1. /\ q # <<>> /\ bots' = bots
        /\ outbox' = [outbox EXCEPT ![b] = Tail(q)]
        /\ view' = [view EXCEPT ![b] = v]
    BY <1>8 DEF WriterSends
  <2>2. b \in bots /\ q \in Seq(Frames)
    BY <1>1, <2>1
  <2>3. Follows(v, Tail(q), room, game)
    BY <1>1, <2>1, <2>2, FollowsSent
  <2> HIDE DEF q, v
  <2>4. /\ outbox'[b] = Tail(q) /\ view'[b] = v
        /\ \A c \in Bots \ {b} : outbox'[c] = outbox[c] /\ view'[c] = view[c]
    BY <1>1, <2>1
  <2> QED
    BY <1>1, <1>3, <1>4, <2>1, <2>2, <2>3, <2>4
<1> QED
  BY <1>3, <1>5, <1>6, <1>7, <1>8

\* A game that connects finds the room without an active round; bots take it for
\* offline until they are told more.
LEMMA RegisterKnown ==
  ASSUME KnownInv, NEW i \in Instances, RegisterGame(i)
  PROVE  RoundPart' /\ ViewPart'
<1>1. /\ room \in Rooms /\ i # None
      /\ game = None /\ room.phase = "OFFLINE" /\ room.active = 0
      /\ game' = i /\ room' = [room EXCEPT !.phase = "TITLE"]
      /\ UNCHANGED <<bots, outbox, view>>
  BY FeedAssumption DEF KnownInv, FeedInv, RoomTypes, RoundPart, RegisterGame
<1>2. ASSUME NEW w, Knows(w, room, game)
      PROVE  Knows(w, room', game')
  <2>1. w.room.phase = "OFFLINE" /\ room'.phase = "TITLE" /\ game' # None
    BY <1>1, <1>2 DEF Knows, Rooms
  <2>2. room'.active = 0 /\ room.active = 0 /\ room'.snap = room.snap /\ room'.closed = room.closed
    BY <1>1 DEF Rooms
  <2> QED
    BY <1>2, <2>1, <2>2 DEF Knows
<1>3. ASSUME NEW v, NEW q, Follows(v, q, room, game)
      PROVE  Follows(v, q, room', game')
  BY <1>2, <1>3 DEF Follows
<1>4. ViewPart'
  BY <1>1, <1>3 DEF KnownInv, ViewPart
<1> QED
  BY <1>1, <1>4 DEF RoundPart

\* The invariant of what bots know holds at the start.
LEMMA InitKnownInv == Init => KnownInv
<1> SUFFICES ASSUME Init
             PROVE  KnownInv
  OBVIOUS
<1>1. RoundPart /\ ViewPart
  BY DEF Init, Offline, RoundPart, ViewPart
<1> QED
  BY <1>1, InitFeedInv DEF KnownInv

\* Every step keeps it.
LEMMA NextKnownInv == KnownInv /\ [Next]_vars => KnownInv'
<1> SUFFICES ASSUME KnownInv, [Next]_vars
             PROVE  KnownInv'
  OBVIOUS
<1>1. FeedInv'
  BY NextFeedInv DEF KnownInv
<1>2. CASE Restart
  <2>1. RoundPart' /\ ViewPart'
    BY <1>2 DEF Restart, Offline, RoundPart, ViewPart
  <2> QED
    BY <1>1, <2>1 DEF KnownInv
<1>3. CASE UNCHANGED vars
  <2>1. RoundPart' /\ ViewPart'
    BY <1>3 DEF vars, KnownInv, RoundPart, ViewPart
  <2> QED
    BY <1>1, <2>1 DEF KnownInv
<1>4. CASE Next /\ ~Restart
  <2>1. FeedInv /\ ViewPart
    BY DEF KnownInv
  <2>2. BotTypes /\ (Told => ViewPart')
    BY <2>1, ToldFollow DEF FeedInv
  <2>3. RoundPart' /\ ViewPart'
    BY <1>4, <2>1, <2>2, GameTold, BotKnown, RegisterKnown DEF Next
  <2> QED
    BY <1>1, <2>3 DEF KnownInv
<1> QED
  BY <1>2, <1>3, <1>4

\* The invariant holds in every state: what is queued for a bot leads it to the
\* room as it is.
THEOREM KnownInvCorrect == Spec => []KnownInv
BY InitKnownInv, NextKnownInv, PTL DEF Spec

\* What a bot foresees of its queue makes sense, and ends at the room.
LEMMA ForeseenFollows ==
  ASSUME KnownInv, NEW b \in bots
  PROVE  /\ Knows(Believed(b), room, game)
         /\ \A k \in 1 .. Len(outbox[b]) : MakesSense(outbox[b][k], Foreseen(b, k - 1).room)
<1>1. Follows(view[b], outbox[b], room, game)
  BY DEF KnownInv, ViewPart
<1> QED
  BY <1>1 DEF Follows, Believed, Foreseen

\* A bot that applies its frames comes to know the room's active round, its latest
\* snapshot, its last closed round and the game of an active round, whenever it
\* joined (hub.py: _broadcast, _send_server_state).
THEOREM RoomIsKnownCorrect == Spec => []RoomIsKnown
<1>1. KnownInv => RoomIsKnown
  BY ForeseenFollows DEF Knows, RoomIsKnown
<1> QED
  BY <1>1, KnownInvCorrect, PTL

\* And the game's state, unless a game has connected and said nothing of it yet
\* (hub.py: _register tells the bots nothing).
THEOREM PhaseIsKnownCorrect == Spec => []PhaseIsKnown
<1>1. KnownInv => PhaseIsKnown
  BY ForeseenFollows DEF Knows, PhaseIsKnown
<1> QED
  BY <1>1, KnownInvCorrect, PTL

\* No bot is told to open a round it knows as closed or outdone, nor anything of a
\* round that is not its active one (hub.py: _handle_game, before it broadcasts).
THEOREM FramesFitCorrect == Spec => []FramesFit
<1>1. KnownInv => FramesFit
  BY ForeseenFollows DEF FramesFit
<1> QED
  BY <1>1, KnownInvCorrect, PTL

-----------------------------------------------------------------------------
(* The feed keeps its promise *)

\* Sights are as many as the queue has frames, and one more.
LEMMA SightsShape ==
  ASSUME NEW q \in Seq(Frames), NEW v
  PROVE  /\ Sights(v, q) \in Seq({Sights(v, q)[k] : k \in 1 .. Len(q) + 1})
         /\ Len(Sights(v, q)) = Len(q) + 1
         /\ \A k \in 1 .. Len(q) + 1 : Sights(v, q)[k] = RoundsOf(Beliefs(v, q)[k - 1].room)
<1> DEFINE n == Len(q) + 1
           e(k) == RoundsOf(Beliefs(v, q)[k - 1].room)
           s == [k \in 1 .. n |-> e(k)]
<1>1. n \in Nat
  OBVIOUS
<1> HIDE DEF n, e
<1>2. \A k \in 1 .. n : s[k] = e(k)
  OBVIOUS
<1> DEFINE S == {s[k] : k \in 1 .. n}
<1>3. s = [k \in 1 .. n |-> s[k]] /\ \A k \in 1 .. n : s[k] \in S
  OBVIOUS
<1> HIDE DEF s, S
<1>4. s \in [1 .. n -> S]
  BY ONLY <1>3
<1>5. s \in Seq(S) /\ Len(s) = n
  BY <1>1, <1>4
<1> QED
  BY <1>2, <1>5 DEF n, e, s, S, Sights

\* Sequences with the same elements are the same.
LEMMA SameSequence ==
  ASSUME NEW S, NEW s \in Seq(S), NEW T, NEW t \in Seq(T), Len(s) = Len(t),
         \A k \in 1 .. Len(s) : s[k] = t[k]
  PROVE  s = t
<1>1. s = [k \in 1 .. Len(s) |-> s[k]] /\ t = [k \in 1 .. Len(t) |-> t[k]]
  OBVIOUS
<1> QED
  BY <1>1

\* A frame more in the queue is something more to see, and last.
LEMMA SightsGrow ==
  ASSUME NEW q \in Seq(Frames), NEW f \in Frames, NEW v, Trail(Beliefs(v, q), v, q)
  PROVE  Sights(v, Append(q, f)) =
           Append(Sights(v, q), RoundsOf(Reads(Beliefs(v, q)[Len(q)], f).room))
<1> DEFINE n == Len(q)
           r == Append(q, f)
           s == Sights(v, q)
           t == Sights(v, r)
           e == RoundsOf(Reads(Beliefs(v, q)[n], f).room)
           S == {s[k] : k \in 1 .. n + 1} \cup {e}
           T == {t[k] : k \in 1 .. Len(r) + 1}
<1>1. n \in Nat /\ r \in Seq(Frames) /\ Len(r) = n + 1
  BY AppendProperties
<1>2. /\ Beliefs(v, r)[n + 1] = Reads(Beliefs(v, q)[n], f)
      /\ \A k \in 0 .. n : Beliefs(v, r)[k] = Beliefs(v, q)[k]
  BY TrailGrows
<1> HIDE DEF r
<1>3. /\ s \in Seq(S) /\ Len(s) = n + 1 /\ e \in S
      /\ \A k \in 1 .. n + 1 : s[k] = RoundsOf(Beliefs(v, q)[k - 1].room)
  <2>1. s \in Seq({s[k] : k \in 1 .. n + 1})
    BY SightsShape
  <2> QED
    BY <2>1, SightsShape
<1>4. /\ t \in Seq(T) /\ Len(t) = n + 2
      /\ \A k \in 1 .. n + 2 : t[k] = RoundsOf(Beliefs(v, r)[k - 1].room)
  <2>1. t \in Seq(T) /\ Len(t) = Len(r) + 1
        /\ \A k \in 1 .. Len(r) + 1 : t[k] = RoundsOf(Beliefs(v, r)[k - 1].room)
    BY <1>1, SightsShape
  <2>2. Len(r) + 1 = n + 2
    BY <1>1
  <2> QED
    BY <2>1, <2>2
<1>5. t[n + 2] = e
  <2>1. n + 2 \in 1 .. n + 2 /\ (n + 2) - 1 = n + 1
    BY <1>1
  <2> QED
    BY <1>2, <1>4, <2>1
<1>6. \A k \in 1 .. n + 1 : t[k] = s[k]
  <2>1. \A k \in 1 .. n + 1 : k \in 1 .. n + 2 /\ k - 1 \in 0 .. n
    BY <1>1
  <2> QED
    BY <1>2, <1>3, <1>4, <2>1
<1> HIDE DEF n, s, t, e, S, T
<1>7. /\ Append(s, e) \in Seq(S) /\ Len(Append(s, e)) = n + 2 /\ Append(s, e)[n + 2] = e
      /\ \A k \in 1 .. n + 1 : Append(s, e)[k] = s[k]
  <2>1. /\ Append(s, e) \in Seq(S) /\ Len(Append(s, e)) = Len(s) + 1
        /\ Append(s, e)[Len(s) + 1] = e
        /\ \A k \in 1 .. Len(s) : Append(s, e)[k] = s[k]
    BY <1>3, AppendProperties
  <2>2. Len(s) + 1 = n + 2
    BY <1>1, <1>3
  <2> QED
    BY <1>3, <2>1, <2>2
<1>8. \A k \in 1 .. n + 2 : k = n + 2 \/ k \in 1 .. n + 1
  BY <1>1
<1>9. t = Append(s, e)
  <2>1. \A k \in 1 .. Len(t) : t[k] = Append(s, e)[k]
    BY <1>4, <1>5, <1>6, <1>7, <1>8
  <2> QED
    BY <1>4, <1>7, <2>1, SameSequence
<1> QED
  BY <1>9 DEF n, s, t, e, r

\* A frame sent leaves what comes after it to see.
LEMMA SightsShrink ==
  ASSUME NEW q \in Seq(Frames), q # <<>>, NEW v, Trail(Beliefs(v, q), v, q)
  PROVE  /\ Len(Sights(v, q)) > 1
         /\ Sights(Reads(v, Head(q)), Tail(q)) = Tail(Sights(v, q))
<1> DEFINE n == Len(q)
           w == Reads(v, Head(q))
           r == Tail(q)
           s == Sights(v, q)
           t == Sights(w, r)
           S == {s[k] : k \in 1 .. n + 1}
           T == {t[k] : k \in 1 .. Len(r) + 1}
<1>1. n \in Nat /\ n >= 1 /\ r \in Seq(Frames) /\ Len(r) + 1 = n
  BY HeadTailProperties
<1>2. \A k \in 0 .. n - 1 : Beliefs(w, r)[k] = Beliefs(v, q)[k + 1]
  BY TrailShrinks
<1> HIDE DEF r, w
<1>3. /\ s \in Seq(S) /\ Len(s) = n + 1
      /\ \A k \in 1 .. n + 1 : s[k] = RoundsOf(Beliefs(v, q)[k - 1].room)
  BY SightsShape
<1>4. /\ t \in Seq(T) /\ Len(t) = n
      /\ \A k \in 1 .. n : t[k] = RoundsOf(Beliefs(w, r)[k - 1].room)
  BY <1>1, SightsShape
<1>5. \A k \in 1 .. n : t[k] = s[k + 1]
  <2> SUFFICES ASSUME NEW k \in 1 .. n
               PROVE  t[k] = s[k + 1]
    OBVIOUS
  <2>1. /\ k + 1 \in 1 .. n + 1 /\ k - 1 \in 0 .. n - 1
        /\ (k - 1) + 1 = k /\ (k + 1) - 1 = k
    BY <1>1
  <2> HIDE DEF n, s, t
  <2>2. t[k] = RoundsOf(Beliefs(w, r)[k - 1].room) /\ s[k + 1] = RoundsOf(Beliefs(v, q)[k].room)
    BY <1>3, <1>4, <2>1
  <2>3. Beliefs(w, r)[k - 1] = Beliefs(v, q)[k]
    BY <1>2, <2>1
  <2> QED
    BY <2>2, <2>3
<1> HIDE DEF n, s, t, S, T
<1>6. /\ Tail(s) \in Seq(S) /\ Len(Tail(s)) = n
      /\ \A k \in 1 .. n : Tail(s)[k] = s[k + 1]
  <2>1. s # <<>>
    BY <1>1, <1>3
  <2>2. /\ Tail(s) \in Seq(S) /\ Len(Tail(s)) = Len(s) - 1
        /\ \A k \in 1 .. Len(Tail(s)) : Tail(s)[k] = s[k + 1]
    BY <1>3, <2>1, HeadTailProperties
  <2>3. Len(s) - 1 = n
    BY <1>1, <1>3
  <2> QED
    BY <2>2, <2>3
<1>7. t = Tail(s)
  BY <1>4, <1>5, <1>6, SameSequence
<1>8. Len(s) > 1
  BY <1>1, <1>3
<1> QED
  BY <1>7, <1>8 DEF s, t, r, w

\* Who knows the room knows its rounds.
LEMMA KnowsRounds ==
  ASSUME NEW w, NEW r \in Rooms, NEW g, Knows(w, r, g)
  PROVE  RoundsOf(w.room) = RoundsOf(r)
<1> DEFINE p == w.room.phase
           a == r.active
           s == r.snap
           c == r.closed
<1>1. /\ w.room = [phase |-> p, active |-> a, snap |-> s, closed |-> c]
      /\ r = [phase |-> r.phase, active |-> a, snap |-> s, closed |-> c]
  BY RoomShape DEF Knows
<1> HIDE DEF p, a, s, c
<1>2. RoundsOf(w.room) = [phase |-> None, active |-> a, snap |-> s, closed |-> c]
  BY <1>1 DEF RoundsOf
<1>3. RoundsOf(r) = [phase |-> None, active |-> a, snap |-> s, closed |-> c]
  BY <1>1 DEF RoundsOf
<1> QED
  BY <1>2, <1>3

\* There is always something to see.
LEMMA SightsNonEmpty ==
  ASSUME NEW q \in Seq(Frames), NEW v
  PROVE  Sights(v, q) # <<>>
<1>1. Len(q) + 1 # 0
  OBVIOUS
<1>2. Len(Sights(v, q)) = Len(q) + 1
  BY SightsShape
<1> QED
  BY <1>1, <1>2

\* A reply shows a bot what it knows already.
LEMMA ReplySights ==
  ASSUME NEW q \in Seq(Frames), NEW v, NEW r \in Rooms, NEW g, Follows(v, q, r, g)
  PROVE  Sights(v, Append(q, Reply)) = Append(Sights(v, q), RoundsOf(r))
<1> DEFINE x == Beliefs(v, q)[Len(q)]
<1>1. Trail(Beliefs(v, q), v, q) /\ Knows(x, r, g)
  BY DEF Follows
<1>2. Reply \in Frames /\ \A w : Reads(w, Reply) = w
  BY FrameTypes DEF Reply, Frame, Reads
<1>3. Sights(v, Append(q, Reply)) = Append(Sights(v, q), RoundsOf(Reads(x, Reply).room))
  BY <1>1, <1>2, SightsGrow
<1> HIDE DEF x
<1>4. RoundsOf(x.room) = RoundsOf(r)
  BY <1>1, KnowsRounds
<1> QED
  BY <1>2, <1>3, <1>4

\* What bot b sees and is going to see: the promise's path.
Path(b) == IF b \in bots THEN Sights(view[b], outbox[b]) ELSE <<>>

\* A path ends at the room's rounds; one that is told something goes on to what
\* becomes of them.
LEMMA ToldPath ==
  ASSUME KnownInv, room' \in Rooms, Told, NEW b \in bots'
  PROVE  /\ Path(b) # <<>>
         /\ \/ Path(b)' = Append(Path(b), RoundsOf(room'))
            \/ Path(b)' = Append(Append(Path(b), RoundsOf(room)), RoundsOf(room'))
<1>0. BotTypes /\ ViewPart /\ room \in Rooms
  BY DEF KnownInv, FeedInv, RoomTypes
<1>1. PICK f \in Frames, answered \in SUBSET bots :
        /\ Broadcast(f, answered)
        /\ \A w : Knows(w, room, game) => Knows(Reads(w, f), room', game') /\ MakesSense(f, w.room)
  BY DEF Told
<1> DEFINE q == outbox[b]
           v == view[b]
           s == Append(q, Reply)
           x == Beliefs(v, q)[Len(q)]
           y == Beliefs(v, s)[Len(s)]
<1>2. /\ b \in bots /\ b \in bots' /\ q \in Seq(Frames) /\ view'[b] = v
      /\ outbox'[b] = Append(q, f) \/ outbox'[b] = Append(s, f)
  BY <1>0, <1>1, BroadcastFrames DEF BotTypes
<1>3. Follows(v, q, room, game)
  BY <1>0, <1>2 DEF ViewPart
<1>4. Follows(v, s, room, game) /\ s \in Seq(Frames)
  BY <1>2, <1>3, FollowsReply
<1>5. /\ Path(b) = Sights(v, q)
      /\ Path(b)' = Sights(v, Append(q, f)) \/ Path(b)' = Sights(v, Append(s, f))
  BY <1>2 DEF Path
<1> HIDE DEF q, v
<1>6. Trail(Beliefs(v, q), v, q) /\ Knows(x, room, game)
  BY <1>3 DEF Follows
<1>7. Trail(Beliefs(v, s), v, s) /\ Knows(y, room, game)
  BY <1>4 DEF Follows
<1>8. Sights(v, s) = Append(Sights(v, q), RoundsOf(room))
  BY <1>0, <1>2, <1>3, ReplySights
<1> HIDE DEF s
<1>9. Sights(v, Append(q, f)) = Append(Sights(v, q), RoundsOf(room'))
  <2>1. Sights(v, Append(q, f)) = Append(Sights(v, q), RoundsOf(Reads(x, f).room))
    BY <1>1, <1>2, <1>6, SightsGrow
  <2> HIDE DEF x
  <2>2. RoundsOf(Reads(x, f).room) = RoundsOf(room')
    BY <1>1, <1>6, KnowsRounds
  <2> QED
    BY <2>1, <2>2
<1>10. Sights(v, Append(s, f)) = Append(Sights(v, s), RoundsOf(room'))
  <2>1. Sights(v, Append(s, f)) = Append(Sights(v, s), RoundsOf(Reads(y, f).room))
    BY <1>1, <1>4, <1>7, SightsGrow
  <2> HIDE DEF y
  <2>2. RoundsOf(Reads(y, f).room) = RoundsOf(room')
    BY <1>1, <1>7, KnowsRounds
  <2> QED
    BY <2>1, <2>2
<1>11. Path(b) # <<>>
  BY <1>2, <1>5, SightsNonEmpty
<1> QED
  BY <1>5, <1>8, <1>9, <1>10, <1>11

\* A bot that joins sees nothing in the first two frames, and the room's rounds in
\* the third.
LEMMA GreetingSights ==
  ASSUME RoomTypes, RoundPart
  PROVE  Sights(NothingYet, GreetingFrames) =
           <<RoundsOf(Offline), RoundsOf(Offline), RoundsOf(Offline), RoundsOf(room)>>
<1> DEFINE q == GreetingFrames
           a == RoundsOf(Offline)
           c == RoundsOf(room)
           s == Sights(NothingYet, q)
           S == {s[k] : k \in 1 .. Len(q) + 1}
           e == <<a, a, a, c>>
<1>1. /\ q \in Seq(Frames) /\ Len(q) = 3
      /\ \A k \in 0 .. 2 : Beliefs(NothingYet, q)[k] = NothingYet
      /\ Beliefs(NothingYet, q)[3].room = room
  BY GreetingType, GreetingFollows
<1>2. NothingYet.room = Offline
  BY DEF NothingYet
<1> HIDE DEF q
<1>3. /\ s \in Seq(S) /\ Len(s) = 3 + 1
      /\ \A k \in 1 .. 3 + 1 : s[k] = RoundsOf(Beliefs(NothingYet, q)[k - 1].room)
  BY <1>1, SightsShape
<1>4. s[1] = a /\ s[2] = a /\ s[3] = a /\ s[4] = c
  <2>1. /\ 1 - 1 = 0 /\ 2 - 1 = 1 /\ 3 - 1 = 2 /\ 4 - 1 = 3 /\ 3 + 1 = 4
        /\ 0 \in 0 .. 2 /\ 1 \in 0 .. 2 /\ 2 \in 0 .. 2
        /\ 1 \in 1 .. 4 /\ 2 \in 1 .. 4 /\ 3 \in 1 .. 4 /\ 4 \in 1 .. 4
    OBVIOUS
  <2> HIDE DEF s
  <2> QED
    BY <1>1, <1>2, <1>3, <2>1
<1> HIDE DEF a, c, s, S
<1>5. e \in Seq({a, c}) /\ Len(e) = 4 /\ e[1] = a /\ e[2] = a /\ e[3] = a /\ e[4] = c
  OBVIOUS
<1> HIDE DEF e
<1>6. \A k \in 1 .. Len(s) : s[k] = e[k]
  <2>1. \A k \in 1 .. 3 + 1 : k = 1 \/ k = 2 \/ k = 3 \/ k = 4
    OBVIOUS
  <2> QED
    BY <1>3, <1>4, <1>5, <2>1
<1>7. s = e
  BY <1>3, <1>5, <1>6, SameSequence
<1> QED
  BY <1>7 DEF s, e, a, c, q

\* What a bot does moves its own path, and no other.
LEMMA BotMoves ==
  ASSUME KnownInv, NEW c \in Bots, BotJoins(c) \/ BotLeaves(c) \/ BotAnswered(c) \/ WriterSends(c),
         NEW b \in Bots
  PROVE  Promise!Moves(Path(b), Path(b)')
<1> USE DEF Promise!Moves, Promise!IsAway, Promise!Joins, Promise!Rests, Promise!GoesOn,
            Promise!IsTold
<1>1. /\ RoomTypes /\ RoundPart /\ bots \subseteq Bots
      /\ outbox \in [Bots -> Seq(Frames)] /\ DOMAIN view = Bots
      /\ \A d \in Bots \ bots : outbox[d] = <<>> /\ view[d] = NothingYet
      /\ \A d \in bots : Follows(view[d], outbox[d], room, game)
  BY DEF KnownInv, FeedInv, BotTypes, ViewPart
<1>2. RoundsOf(room)' = RoundsOf(room)
  BY DEF BotJoins, BotLeaves, BotAnswered, WriterSends
<1>3. CASE b \notin bots'
  BY <1>3 DEF Path
<1>4. ASSUME b \in bots, b \in bots', view'[b] = view[b], outbox'[b] = outbox[b]
      PROVE  Promise!Moves(Path(b), Path(b)')
  <2> DEFINE q == outbox[b]
             s == Sights(view[b], q)
  <2>1. Path(b)' = s /\ Path(b) = s /\ q \in Seq(Frames)
    BY <1>1, <1>4 DEF Path
  <2>2. s # <<>>
    BY <2>1, SightsNonEmpty
  <2> HIDE DEF s
  <2> QED
    BY <1>2, <2>1, <2>2
<1>5. CASE BotJoins(c) /\ b \in bots'
  <2> DEFINE q == GreetingFrames
  <2>1. /\ c \notin bots /\ bots' = bots \cup {c} /\ view' = view
        /\ outbox' = [outbox EXCEPT ![c] = q]
    BY <1>5 DEF BotJoins
  <2>2. Sights(NothingYet, q) =
          <<RoundsOf(Offline), RoundsOf(Offline), RoundsOf(Offline), RoundsOf(room)>>
    BY <1>1, GreetingSights
  <2> HIDE DEF q
  <2>3. outbox'[c] = q /\ \A d \in Bots \ {c} : outbox'[d] = outbox[d]
    BY <1>1, <2>1
  <2>4. CASE b = c
    <3>1. Path(b) = <<>> /\ Path(b)' = Sights(NothingYet, q)
      BY <1>1, <1>5, <2>1, <2>3, <2>4 DEF Path
    <3> QED
      BY <1>2, <2>2, <3>1
  <2>5. CASE b # c
    BY <1>4, <1>5, <2>1, <2>3, <2>5
  <2> QED
    BY <2>4, <2>5
<1>6. CASE BotLeaves(c) /\ b \in bots'
  <2>1. /\ bots' = bots \ {c}
        /\ outbox' = [d \in Bots |-> IF d \in bots' THEN outbox[d] ELSE <<>>]
        /\ view' = [d \in Bots |-> IF d \in bots' THEN view[d] ELSE NothingYet]
    BY <1>6 DEF BotLeaves, Kept
  <2> QED
    BY <1>4, <1>6, <2>1
<1>7. CASE BotAnswered(c) /\ b \in bots'
  <2>1. b \in bots /\ view'[b] = view[b]
        /\ outbox'[b] = IF b = c THEN Append(outbox[b], Reply) ELSE outbox[b]
    BY <1>1, <1>7, AnswerFrames
  <2>2. CASE b = c
    <3> DEFINE q == outbox[b]
               v == view[b]
    <3>1. /\ Path(b) = Sights(v, q) /\ Path(b)' = Sights(v, Append(q, Reply))
          /\ q \in Seq(Frames) /\ Follows(v, q, room, game)
      BY <1>1, <1>7, <2>1, <2>2 DEF Path
    <3> HIDE DEF q, v
    <3>2. Sights(v, Append(q, Reply)) = Append(Sights(v, q), RoundsOf(room))
      BY <1>1, <3>1, ReplySights DEF RoomTypes
    <3>3. Sights(v, q) # <<>>
      BY <3>1, SightsNonEmpty
    <3> QED
      BY <1>2, <3>1, <3>2, <3>3
  <2>3. CASE b # c
    BY <1>4, <1>7, <2>1, <2>3
  <2> QED
    BY <2>2, <2>3
<1>8. CASE WriterSends(c) /\ b \in bots'
  <2> DEFINE q == outbox[c]
             v == view[c]
  <2>1. /\ q # <<>> /\ bots' = bots
        /\ outbox' = [outbox EXCEPT ![c] = Tail(q)]
        /\ view' = [view EXCEPT ![c] = Reads(v, Head(q))]
    BY <1>8 DEF WriterSends
  <2>2. /\ outbox'[c] = Tail(q) /\ view'[c] = Reads(v, Head(q))
        /\ \A d \in Bots \ {c} : outbox'[d] = outbox[d] /\ view'[d] = view[d]
    BY <1>1, <2>1
  <2>3. CASE b = c
    <3>1. /\ Path(b) = Sights(v, q) /\ Path(b)' = Sights(Reads(v, Head(q)), Tail(q))
          /\ q \in Seq(Frames) /\ Follows(v, q, room, game)
      BY <1>1, <1>8, <2>1, <2>2, <2>3 DEF Path
    <3> HIDE DEF q, v
    <3>2. /\ Len(Sights(v, q)) > 1
          /\ Sights(Reads(v, Head(q)), Tail(q)) = Tail(Sights(v, q))
      BY <2>1, <3>1, SightsShrink DEF Follows
    <3> QED
      BY <1>2, <3>1, <3>2
  <2>4. CASE b # c
    BY <1>4, <1>8, <2>1, <2>2, <2>4
  <2> QED
    BY <2>3, <2>4
<1> QED
  BY <1>3, <1>5, <1>6, <1>7, <1>8

\* Every step moves every path as promised.
LEMMA EveryPathMoves ==
  ASSUME KnownInv, Next, NEW b \in Bots
  PROVE  Promise!Moves(Path(b), Path(b)')
<1>1. CASE b \notin bots'
  BY <1>1 DEF Path, Promise!Moves, Promise!IsAway
<1>2. CASE Told /\ b \in bots'
  <2>1. room' \in Rooms
    BY NextFeedInv DEF KnownInv, FeedInv, RoomTypes
  <2> QED
    BY <1>2, <2>1, ToldPath DEF Promise!Moves, Promise!IsTold
<1>3. ASSUME NEW i \in Instances, RegisterGame(i), b \in bots'
      PROVE  Promise!Moves(Path(b), Path(b)')
  <2>1. room \in Rooms /\ room' = [room EXCEPT !.phase = "TITLE"] /\ UNCHANGED <<bots, outbox, view>>
    BY <1>3 DEF RegisterGame, KnownInv, FeedInv, RoomTypes
  <2>2. RoundsOf(room)' = RoundsOf(room)
    BY <2>1 DEF RoundsOf, Rooms
  <2>3. b \in bots /\ outbox[b] \in Seq(Frames) /\ Path(b) = Sights(view[b], outbox[b])
    BY <1>3, <2>1 DEF Path, KnownInv, FeedInv, BotTypes
  <2>4. Path(b) # <<>> /\ Path(b)' = Path(b)
    BY <2>1, <2>3, SightsNonEmpty DEF Path
  <2> QED
    BY <2>2, <2>4 DEF Promise!Moves, Promise!Rests
<1>4. CASE Restart /\ b \in bots'
  BY <1>4 DEF Restart
<1>5. FeedInv
  BY DEF KnownInv
<1> QED
  BY <1>1, <1>2, <1>3, <1>4, <1>5, GameTold, BotMoves DEF Next

\* The feed implements the abstract specification of what bots see of the rounds: its
\* state and every step map to it (hub.py: _handle_game, _broadcast, _drop).
THEOREM FeedKeepsPromise == Spec => KeepsPromise
<1>1. Init => Promise!Init
  BY DEF Init, Promise!Init
<1>2. KnownInv /\ [Next]_vars => [Promise!Next]_(Promise!vars)
  <2> SUFFICES ASSUME KnownInv, [Next]_vars
               PROVE  [Promise!Next]_(Promise!vars)
    OBVIOUS
  <2>1. CASE Next
    <3>1. \A b \in Bots : Promise!Moves(Path(b), Path(b)')
      BY <2>1, EveryPathMoves
    <3> QED
      BY <3>1 DEF Promise!Next, Path
  <2>2. CASE UNCHANGED vars
    BY <2>2 DEF vars, Promise!vars
  <2> QED
    BY <2>1, <2>2
<1> QED
  BY <1>1, <1>2, KnownInvCorrect, PTL DEF Spec, KeepsPromise, Promise!Spec
=============================================================================
