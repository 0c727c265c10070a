------------------------ MODULE VoteRelayInvariants ------------------------
(***************************************************************************)
(* Every action keeps each part of the inductive invariant of VoteRelay.   *)
(* One lemma per part; each assumes the whole invariant, because the parts *)
(* support each other: a verdict is the only one because a pending vote has *)
(* none, a vote is sent once because its queue holds it once, and so on.   *)
(***************************************************************************)
EXTENDS VoteRelayTypes

-----------------------------------------------------------------------------
(* RowPart *)

\* Only an admitted vote.cast, an INSERT and the game's writer change what a
\* submission is, which rows exist, or what was sent.
LEMMA RowChanges ==
  ASSUME Next
  PROVE  \/ UNCHANGED <<job, reserved, attempted>>
         \/ \E b \in Bots, s \in Subs, c \in CastIds, v \in Voters, r \in Rounds, i \in Instances :
              CastAdmitted(b, s, c, v, r, i)
         \/ \E s \in Subs : DbInserts(s)
         \/ \E g \in Games : WriterStarts(g)
<1>1. ASSUME NEW g \in Games, GameActs(g)
      PROVE UNCHANGED <<job, reserved, attempted>>
  BY <1>1 DEF GameActs, RegisterGame, RefuseGame, RejectedGameLeaves, GameSync, VoteOpened, VoteClosed,
     VoteAck, GameRelays, GameGetsReply, GameFatal, GameLeaves
<1>2. ASSUME NEW g \in Games, WriterActs(g), ~WriterStarts(g)
      PROVE UNCHANGED <<job, reserved, attempted>>
  BY <1>2 DEF WriterActs, WriterSkips, WriterFinishes
<1>3. ASSUME NEW b \in Bots, BotActs(b),
             ~\E s \in Subs, c \in CastIds, v \in Voters, r \in Rounds, i \in Instances :
                CastAdmitted(b, s, c, v, r, i)
      PROVE UNCHANGED <<job, reserved, attempted>>
  BY <1>3 DEF BotActs, ConnectBot, BotWriterFails, BotLeaves, BotFatal, CastRefused, CastTurnedAway, Refuse
<1>4. ASSUME NEW s \in Subs, DbActs(s) \/ Resume(s) \/ DeadlinePasses(s), ~DbInserts(s)
      PROVE UNCHANGED <<job, reserved, attempted>>
  BY <1>4 DEF DbActs, DbRefuses, DbFails, Resume, ResumeForwards, ResumeDuplicate, ResumeOutdated,
     ResumeBroken, ResumeOverflows, DeadlinePasses
<1>5. ASSUME SweepActs \/ Restart
      PROVE UNCHANGED <<job, reserved, attempted>>
  BY <1>5 DEF SweepActs, Sweep, Restart
<1> QED
  BY <1>1, <1>2, <1>3, <1>4, <1>5 DEF Next

\* The vote at the head of a game's queue comes from a handler that finished,
\* was meant for this game, and has not been started.
LEMMA HeadOfQueue ==
  ASSUME Inductive, NEW g \in Games, outq[g] # <<>>, Head(outq[g]) # Control
  PROVE  /\ Head(outq[g]) \in Subs
         /\ phase[Head(outq[g])] = "done"
         /\ job[Head(outq[g])] \in Jobs
         /\ job[Head(outq[g])].game = g
         /\ Head(outq[g]) \notin attempted
<1>1. outq[g] \in Seq(Subs \cup {Control}) /\ 1 \in 1 .. Len(outq[g]) /\ Head(outq[g]) = outq[g][1]
  BY DEF Inductive, TypeOK
<1>2. outq[g][1] \in Subs
  BY <1>1
<1>3. /\ phase[outq[g][1]] = "done"
      /\ job[outq[g][1]] # None
      /\ job[outq[g][1]].game = g
      /\ outq[g][1] \notin attempted
  BY <1>1 DEF Inductive, QueuePart
<1> QED
  BY <1>1, <1>2, <1>3 DEF Inductive, TypeOK

\* Rows keep both UNIQUE constraints, and the writer starts on reserved votes only.
LEMMA RowPartStep ==
  ASSUME Inductive, Next
  PROVE  RowPart'
<1> USE DistinctAssumption DEF Inductive
<1>1. ASSUME UNCHANGED <<job, reserved, attempted>>
      PROVE  RowPart'
  BY <1>1 DEF RowPart, Conflict
<1>2. ASSUME NEW b \in Bots, NEW s \in Subs, NEW c \in CastIds, NEW v \in Voters,
             NEW r \in Rounds, NEW i \in Instances, CastAdmitted(b, s, c, v, r, i)
      PROVE  RowPart'
  <2>1. s \notin reserved
    BY <1>2 DEF CastAdmitted, Receives, HandlerPart
  <2>2. reserved' = reserved /\ attempted' = attempted
    BY <1>2 DEF CastAdmitted
  <2>3. \A t \in reserved : job'[t] = job[t]
    BY <1>2, <2>1 DEF CastAdmitted, TypeOK
  <2> QED
    BY <2>2, <2>3 DEF RowPart, Conflict
<1>3. ASSUME NEW s \in Subs, DbInserts(s)
      PROVE  RowPart'
  <2>1. reserved' = reserved \cup {s} /\ attempted' = attempted /\ job' = job
    BY <1>3 DEF DbInserts
  <2>2. \A t \in reserved : ~Conflict(s, t) /\ ~Conflict(t, s)
    BY <1>3 DEF DbInserts, Conflict
  <2>3. job[s] # None
    BY <1>3 DEF DbInserts, TypeOK, Running
  <2>4. \A t \in reserved' : job'[t] # None
    BY <2>1, <2>3 DEF RowPart
  <2>5. ASSUME NEW t \in reserved', NEW u \in reserved', t # u
        PROVE  ~Conflict(t, u)'
    BY <2>1, <2>2, <2>5 DEF RowPart, Conflict
  <2> QED
    BY <2>1, <2>4, <2>5 DEF RowPart
<1>4. ASSUME NEW g \in Games, WriterStarts(g)
      PROVE  RowPart'
  <2>1. reserved' = reserved /\ job' = job
    BY <1>4 DEF WriterStarts
  <2>2. attempted' \subseteq reserved
    <3>1. CASE Head(outq[g]) = Control
      BY <1>4, <3>1 DEF WriterStarts, RowPart
    <3>2. CASE Head(outq[g]) # Control
      <4>1. Valid(Head(outq[g]), g) /\ Head(outq[g]) \in Subs /\ job[Head(outq[g])].cast \in CastIds
        BY <1>4, <3>2, HeadOfQueue DEF WriterStarts, Jobs
      <4>2. Head(outq[g]) \in reserved
        BY <4>1 DEF Valid, PendingPart
      <4> QED
        BY <1>4, <4>2 DEF WriterStarts, RowPart
    <3> QED
      BY <3>1, <3>2
  <2> QED
    BY <2>1, <2>2 DEF RowPart, Conflict
<1> QED
  BY <1>1, <1>2, <1>3, <1>4, RowChanges

-----------------------------------------------------------------------------
(* VerdictPart *)

\* A vote waiting for its ACK has no verdict yet.
LEMMA PendingsAreFresh ==
  ASSUME Inductive
  PROVE  \A s \in Pendings : /\ s \in Subs
                             /\ answers[s] = <<>>
                             /\ phase[s] = "done"
BY DEF Inductive, TypeOK, PendingPart, Pendings

\* A vote whose handler is not done was not sent.
LEMMA UncommittedNotSent ==
  ASSUME Inductive, NEW s \in Subs, phase[s] # "done"
  PROVE  s \notin attempted
BY DEF Inductive, TypeOK, HandlerPart, RowPart

\* What VerdictPart says of one submission.
Fits(s) ==
  /\ Len(answers[s]) <= 1
  /\ \A k \in 1 .. Len(answers[s]) :
       /\ s \in attempted => answers[s][k] \notin Refusals
       /\ s \notin attempted => answers[s][k] # "ack"

\* VerdictPart, submission by submission.
LEMMA VerdictsFit ==
  ASSUME attempted \subseteq Subs
  PROVE  VerdictPart <=> \A s \in Subs : Fits(s)
BY DEF VerdictPart, Fits, OneVerdict, RefusedNeverSent, AckedWasSent

\* A submission whose verdict and sending do not change.
LEMMA KeptVerdict ==
  ASSUME NEW s \in Subs, Fits(s), answers'[s] = answers[s], attempted' = attempted
  PROVE  Fits(s)'
BY DEF Fits

\* A submission that gets its first verdict, in agreement with its sending.
LEMMA FirstVerdict ==
  ASSUME NEW s \in Subs, NEW code \in Codes, answers[s] = <<>>, attempted' = attempted,
         answers'[s] = answers[s] \/ answers'[s] = Append(answers[s], code),
         s \in attempted => code \notin Refusals,
         s \notin attempted => code # "ack"
  PROVE  Fits(s)'
<1>1. CASE answers'[s] = answers[s]
  BY <1>1 DEF Fits
<1>2. CASE answers'[s] = Append(answers[s], code)
  <2>1. Len(answers'[s]) = 1 /\ answers'[s][1] = code
    BY <1>2
  <2> QED
    BY <2>1 DEF Fits
<1> QED
  BY <1>1, <1>2

\* _resolve gives verdicts that agree with what was sent.
LEMMA ResolveFits ==
  ASSUME Inductive, NEW S \in SUBSET Subs, NEW full, NEW code \in Codes \ {"ack"},
         \A s \in S : answers[s] = <<>>,
         Resolve(S, code, full), attempted' = attempted
  PROVE  \A s \in Subs : Fits(s)'
<1> TAKE t \in Subs
<1>1. Fits(t)
  BY VerdictsFit DEF Inductive, TypeOK
<1>2. CASE t \in S
  <2>1. /\ VerdictFor(t, code) \in Codes \ {"ack"}
        /\ t \in attempted => VerdictFor(t, code) \notin Refusals
    BY DEF VerdictFor, Codes, Refusals
  <2>2. answers'[t] = answers[t] \/ answers'[t] = Append(answers[t], VerdictFor(t, code))
    BY DEF Resolve, Answered
  <2> QED
    BY <1>2, <2>1, <2>2, FirstVerdict
<1>3. CASE t \notin S
  BY <1>1, <1>3, KeptVerdict DEF Resolve, Answered
<1> QED
  BY <1>2, <1>3

\* So does a verdict for one submission without one.
LEMMA ReplyFits ==
  ASSUME Inductive, NEW s \in Subs, NEW code \in Codes, NEW full, answers[s] = <<>>,
         ReplyTo(s, code, full), attempted' = attempted,
         s \in attempted => code \notin Refusals,
         s \notin attempted => code # "ack"
  PROVE  \A t \in Subs : Fits(t)'
<1> TAKE t \in Subs
<1>1. Fits(t)
  BY VerdictsFit DEF Inductive, TypeOK
<1>2. CASE t = s
  <2>1. answers'[s] = answers[s] \/ answers'[s] = Append(answers[s], code)
    BY DEF ReplyTo, Inductive, TypeOK
  <2> QED
    BY <1>2, <2>1, FirstVerdict
<1>3. CASE t # s
  BY <1>1, <1>3, KeptVerdict DEF ReplyTo, Inductive, TypeOK
<1> QED
  BY <1>2, <1>3

\* So does an answer at the door, to a submission never admitted.
LEMMA RefuseFits ==
  ASSUME Inductive, NEW b \in Bots, NEW s \in Subs, NEW code \in Refusals, NEW full,
         phase[s] = "idle", Refuse(b, s, code, full)
  PROVE  \A t \in Subs : Fits(t)'
<1> TAKE t \in Subs
<1>1. Fits(t)
  BY VerdictsFit DEF Inductive, TypeOK
<1>2. CASE t = s
  <2>1. answers'[s] = answers[s] \/ answers'[s] = Append(answers[s], code)
    BY DEF Refuse, Inductive, TypeOK
  <2>2. answers[s] = <<>> /\ s \notin attempted
    BY UncommittedNotSent DEF Inductive, HandlerPart
  <2>3. attempted' = attempted /\ code \in Codes /\ code # "ack"
    BY DEF Refuse, Refusals
  <2> QED
    BY <1>2, <2>1, <2>2, <2>3, FirstVerdict
<1>3. CASE t # s
  BY <1>1, <1>3, KeptVerdict DEF Refuse, Inductive, TypeOK
<1> QED
  BY <1>2, <1>3

\* So does dropping the game, for every submission without a verdict.
LEMMA OfflineFits ==
  ASSUME Inductive, NEW g \in Games, NEW S \in SUBSET Subs, NEW full,
         \A s \in S : answers[s] = <<>>,
         GoOffline(g, S, full), attempted' = attempted
  PROVE  \A s \in Subs : Fits(s)'
<1>1. Resolve(S, "game_offline", full) /\ "game_offline" \in Codes \ {"ack"}
  BY DEF GoOffline, Codes
<1> QED
  BY <1>1, ResolveFits

\* No action gives a second verdict, or one that contradicts what was sent.
LEMMA VerdictStep ==
  ASSUME Inductive, TypeOK', Next
  PROVE  VerdictPart'
<1> SUFFICES \A s \in Subs : Fits(s)'
  <2>1. (attempted \subseteq Subs)'
    BY DEF TypeOK
  <2>2. (VerdictPart <=> \A s \in Subs : Fits(s))'
    BY <2>1, VerdictsFit DEF VerdictPart, Fits, OneVerdict, RefusedNeverSent, AckedWasSent
  <2> QED
    BY <2>2
<1> DEFINE Good == \A s \in Subs : Fits(s)'
<1>1. ASSUME UNCHANGED <<answers, attempted>>
      PROVE  Good
  BY <1>1, VerdictsFit, KeptVerdict DEF Inductive, TypeOK
<1>2. ASSUME NEW g \in Games, NEW full, NEW code \in Codes \ {"ack"},
             Resolve(Pendings, code, full), UNCHANGED attempted
      PROVE  Good
  BY <1>2, PendingsAreFresh, ResolveFits
<1>3. ASSUME NEW g \in Games, NEW full \in SUBSET RoomBots,
             GoOffline(g, Pendings, full), UNCHANGED attempted
      PROVE  Good
  BY <1>3, PendingsAreFresh, OfflineFits
<1>4. ASSUME NEW g \in Games, GameActs(g)
      PROVE  Good
  <2>1. ASSUME RegisterGame(g) \/ RefuseGame(g) \/ RejectedGameLeaves(g)
        PROVE  Good
    BY <1>1, <2>1 DEF RegisterGame, RefuseGame, RejectedGameLeaves
  <2>2. ASSUME NEW full \in SUBSET RoomBots, NEW r \in 0 .. MaxRound, NEW l \in 0 .. MaxRound,
               GameSync(g, r, l, full)
        PROVE  Good
    BY <1>2, <2>2 DEF GameSync, Codes
  <2>3. ASSUME NEW full \in SUBSET RoomBots, NEW r \in Rounds, VoteOpened(g, r, full)
        PROVE  Good
    BY <1>2, <2>3 DEF VoteOpened, Codes
  <2>4. ASSUME NEW full \in SUBSET RoomBots, VoteClosed(g, full)
        PROVE  Good
    BY <1>2, <2>4 DEF VoteClosed, Codes
  <2>5. ASSUME NEW full \in SUBSET RoomBots, NEW c \in CastIds, VoteAck(g, c, full)
        PROVE  Good
    <3>1. /\ pending[c] \in Subs
          /\ answers[pending[c]] = <<>>
          /\ pending[c] \in attempted
      BY <2>5 DEF VoteAck, Inductive, TypeOK, PendingPart
    <3>2. ReplyTo(pending[c], "ack", full) /\ attempted' = attempted
      BY <2>5 DEF VoteAck
    <3>3. "ack" \in Codes /\ "ack" \notin Refusals
      BY DEF Codes, Refusals
    <3> QED
      BY <3>1, <3>2, <3>3, ReplyFits
  <2>6. ASSUME NEW full \in SUBSET RoomBots, GameRelays(g, full)
        PROVE  Good
    BY <1>1, <2>6 DEF GameRelays
  <2>7. ASSUME NEW full \in SUBSET RoomBots, NEW next, ToGame(g, next, full), UNCHANGED attempted
        PROVE  Good
    BY <1>1, <1>3, <2>7 DEF ToGame
  <2>8. ASSUME NEW full \in SUBSET RoomBots,
               GameGetsReply(g, full) \/ GameFatal(g, full) \/ GameLeaves(g, full)
        PROVE  Good
    BY <1>3, <2>7, <2>8 DEF GameGetsReply, GameFatal, GameLeaves
  <2> QED
    BY <1>4, <2>1, <2>2, <2>3, <2>4, <2>5, <2>6, <2>8 DEF GameActs
<1>5. ASSUME NEW g \in Games, WriterActs(g)
      PROVE  Good
  <2>1. ASSUME WriterSkips(g) \/ WriterFinishes(g)
        PROVE  Good
    BY <1>1, <2>1 DEF WriterSkips, WriterFinishes
  <2>2. ASSUME WriterStarts(g), Head(outq[g]) = Control
        PROVE  Good
    BY <1>1, <2>2 DEF WriterStarts
  <2>3. ASSUME WriterStarts(g), Head(outq[g]) # Control
        PROVE  Good
    <3> DEFINE h == Head(outq[g])
    <3>1. h \in Pendings /\ attempted' = attempted \cup {h} /\ answers' = answers
      <4>1. h \in Subs /\ job[h].cast \in CastIds
        BY <2>3, HeadOfQueue DEF WriterStarts, Jobs
      <4>2. pending[job[h].cast] = h
        BY <2>3 DEF WriterStarts, Valid
      <4>3. attempted' = attempted \cup {h} /\ answers' = answers
        BY <2>3 DEF WriterStarts
      <4> QED
        BY <4>1, <4>2, <4>3, DistinctAssumption DEF Pendings
    <3>2. answers[h] = <<>>
      BY <3>1, PendingsAreFresh
    <3> TAKE t \in Subs
    <3>3. CASE t = h
      BY <3>1, <3>2, <3>3 DEF Fits
    <3>4. CASE t # h
      BY <3>1, <3>4, VerdictsFit DEF Fits, Inductive, TypeOK
    <3> QED
      BY <3>3, <3>4
  <2> QED
    BY <1>5, <2>1, <2>2, <2>3 DEF WriterActs
<1>6. ASSUME NEW b \in Bots, BotActs(b)
      PROVE  Good
  <2>1. ASSUME NEW s \in Subs, NEW r \in Rounds, NEW i \in Instances, NEW full \in SUBSET {b},
               CastRefused(b, s, r, i, full)
        PROVE  Good
    <3>1. DoorCode(r, i) \in Refusals
      BY <2>1 DEF CastRefused, DoorCode, Refusals, Codes
    <3> QED
      BY <2>1, <3>1, RefuseFits DEF CastRefused, Receives
  <2>2. ASSUME NEW s \in Subs, NEW full \in SUBSET {b}, CastTurnedAway(b, s, full)
        PROVE  Good
    <3>1. "turned_away" \in Refusals
      BY DEF Refusals, Codes
    <3> QED
      BY <2>2, <3>1, RefuseFits DEF CastTurnedAway, Receives
  <2>3. ASSUME UNCHANGED <<answers, attempted>>
        PROVE  Good
    BY <1>1, <2>3
  <2> QED
    BY <1>6, <2>1, <2>2, <2>3
       DEF BotActs, ConnectBot, BotWriterFails, BotLeaves, BotFatal, CastAdmitted
<1>7. ASSUME NEW s \in Subs, DbActs(s) \/ Resume(s) \/ DeadlinePasses(s)
      PROVE  Good
  <2>1. ASSUME phase[s] \in {"refused", "saved"}
        PROVE  answers[s] = <<>> /\ s \notin attempted
    BY <2>1, UncommittedNotSent DEF Inductive, HandlerPart, Running
  <2>2. ASSUME NEW full \in SUBSET RoomBots, ResumeDuplicate(s, full) \/ ResumeOutdated(s, full)
        PROVE  Good
    <3>1. {"duplicate_vote", "stale"} \subseteq Codes \ {"ack"}
      BY DEF Codes
    <3> QED
      BY <2>1, <2>2, <3>1, ReplyFits DEF ResumeDuplicate, ResumeOutdated
  <2>3. ASSUME NEW full \in SUBSET RoomBots, ResumeOverflows(s, full)
        PROVE  Good
    <3>1. game \in Games
      BY <2>3 DEF ResumeOverflows, Outdated, Inductive, TypeOK, Running, Jobs
    <3>2. GoOffline(game, Pendings \cup {s}, full) /\ attempted' = attempted /\ answers[s] = <<>>
      BY <2>1, <2>3 DEF ResumeOverflows
    <3> QED
      BY <3>1, <3>2, PendingsAreFresh, OfflineFits
  <2>4. ASSUME UNCHANGED <<answers, attempted>>
        PROVE  Good
    BY <1>1, <2>4
  <2> QED
    BY <1>7, <2>2, <2>3, <2>4
       DEF DbActs, DbInserts, DbRefuses, DbFails, Resume, ResumeForwards, ResumeBroken, DeadlinePasses
<1>8. ASSUME NEW full \in SUBSET RoomBots, Sweep(full)
      PROVE  Good
  <2>1. /\ Resolve(Pendings \cap overdue, "result_unknown", full)
        /\ attempted' = attempted
        /\ "result_unknown" \in Codes \ {"ack"}
    BY <1>8 DEF Sweep, Codes
  <2> QED
    BY <2>1, PendingsAreFresh, ResolveFits
<1>9. CASE Restart
  BY <1>1, <1>9 DEF Restart
<1> QED
  BY <1>4, <1>5, <1>6, <1>7, <1>8, <1>9 DEF Next, SweepActs

-----------------------------------------------------------------------------
(* RoomPart *)

\* Dropping bots does not touch the game sessions.
LEMMA DropKeepsGames ==
  ASSUME TypeOK, NEW full \in SUBSET RoomBots
  PROVE  \A g \in Games : Drop(full)[g] = conn[g]
BY DistinctAssumption DEF Drop, RoomBots

\* Dropping the game leaves a room without a game and without an open game session.
LEMMA OfflineRoom ==
  ASSUME Inductive, NEW full \in SUBSET RoomBots, NEW S,
         NEW g \in Games, game = g, GoOffline(g, S, full)
  PROVE  RoomPart'
<1>1. game' = None /\ ready' = FALSE /\ active' = 0 /\ ~Live(g)'
  BY DEF GoOffline, Live, Inductive, TypeOK, Drop
<1>2. ASSUME NEW h \in Games, h # g
      PROVE  ~Live(h)'
  <2>1. conn'[h] = conn[h]
    BY <1>2, DropKeepsGames DEF GoOffline, Inductive, TypeOK, Drop
  <2> QED
    BY <1>2, <2>1 DEF Inductive, RoomPart, Live
<1> QED
  BY <1>1, <1>2, DistinctAssumption DEF RoomPart

\* RoomPart depends on the room and the game sessions only.
LEMMA RoomKept ==
  ASSUME Inductive, UNCHANGED <<game, ready>>, active' # 0 => game # None,
         \A g \in Games : Live(g)' <=> Live(g)
  PROVE  RoomPart'
BY DEF Inductive, RoomPart

\* No action leaves the room with a closed game, or ready without one.
LEMMA RoomStep ==
  ASSUME Inductive, Next
  PROVE  RoomPart'
<1> USE DistinctAssumption
<1>1. ASSUME NEW full \in SUBSET RoomBots, UNCHANGED <<game, active, ready>>,
             \/ conn' = Drop(full)
             \/ conn' = conn
             \/ \E b \in Bots, q \in ConnStates : \/ conn' = [Drop(full) EXCEPT ![b] = q]
                                                  \/ conn' = [conn EXCEPT ![b] = q]
      PROVE  RoomPart'
  <2>1. \A g \in Games : conn'[g] = conn[g]
    <3>1. CASE conn' = Drop(full) \/ conn' = conn
      BY <3>1, DropKeepsGames DEF Inductive
    <3>2. ASSUME NEW b \in Bots, NEW q \in ConnStates,
                 conn' = [Drop(full) EXCEPT ![b] = q] \/ conn' = [conn EXCEPT ![b] = q]
          PROVE  \A g \in Games : conn'[g] = conn[g]
      BY <3>2, DropKeepsGames, DropType DEF Inductive, TypeOK
    <3> QED
      BY <1>1, <3>1, <3>2
  <2> QED
    BY <1>1, <2>1, RoomKept DEF Live, Inductive, RoomPart
<1>2. ASSUME NEW g \in Games, GameActs(g)
      PROVE  RoomPart'
  <2>1. ASSUME RegisterGame(g)
        PROVE  RoomPart'
    BY <2>1 DEF RegisterGame, Inductive, TypeOK, RoomPart, Live
  <2>2. ASSUME RefuseGame(g) \/ RejectedGameLeaves(g)
        PROVE  RoomPart'
    BY <2>2 DEF RefuseGame, RejectedGameLeaves, room, Inductive, TypeOK, RoomPart, Live
  <2>3. ASSUME NEW full \in SUBSET RoomBots, conn' = Drop(full), game = g, game' = game, ready' \in {ready, TRUE}
        PROVE  RoomPart'
    BY <2>3, DropKeepsGames DEF Inductive, RoomPart, Live
  <2>4. ASSUME NEW full \in SUBSET RoomBots, NEW r \in 0 .. MaxRound, NEW l \in 0 .. MaxRound,
               GameSync(g, r, l, full)
        PROVE  RoomPart'
    BY <2>3, <2>4 DEF GameSync
  <2>5. ASSUME NEW full \in SUBSET RoomBots, NEW r \in Rounds, VoteOpened(g, r, full)
        PROVE  RoomPart'
    BY <2>3, <2>5 DEF VoteOpened
  <2>6. ASSUME NEW full \in SUBSET RoomBots, VoteClosed(g, full)
        PROVE  RoomPart'
    BY <2>3, <2>6 DEF VoteClosed
  <2>7. ASSUME NEW full \in SUBSET RoomBots, NEW c \in CastIds, VoteAck(g, c, full)
        PROVE  RoomPart'
    BY <2>3, <2>7 DEF VoteAck, ReplyTo, room
  <2>8. ASSUME NEW full \in SUBSET RoomBots, GameRelays(g, full)
        PROVE  RoomPart'
    BY <2>3, <2>8 DEF GameRelays, room
  <2>9. ASSUME NEW full \in SUBSET RoomBots, NEW next \in {"open", "flushing"}, ToGame(g, next, full),
               conn[g] = "open", game = g
        PROVE  RoomPart'
    <3>1. CASE Len(outq[g]) < QueueLimit
      BY <2>9, <3>1 DEF ToGame, room, Inductive, TypeOK, RoomPart, Live
    <3>2. CASE ~(Len(outq[g]) < QueueLimit)
      BY <2>9, <3>2, OfflineRoom DEF ToGame
    <3> QED
      BY <3>1, <3>2
  <2>10. ASSUME NEW full \in SUBSET RoomBots, GameGetsReply(g, full) \/ GameFatal(g, full)
         PROVE  RoomPart'
    BY <2>9, <2>10 DEF GameGetsReply, GameFatal
  <2>11. ASSUME NEW full \in SUBSET RoomBots, GameLeaves(g, full)
         PROVE  RoomPart'
    BY <2>11, OfflineRoom DEF GameLeaves
  <2> QED
    BY <1>2, <2>1, <2>2, <2>4, <2>5, <2>6, <2>7, <2>8, <2>10, <2>11 DEF GameActs
<1>3. ASSUME NEW g \in Games, WriterActs(g)
      PROVE  RoomPart'
  BY <1>1, <1>3 DEF WriterActs, WriterSkips, WriterStarts, WriterFinishes, room
<1>4. ASSUME NEW b \in Bots, BotActs(b)
      PROVE  RoomPart'
  <2>1. \E q \in ConnStates : conn' = [conn EXCEPT ![b] = q]
    BY <1>4 DEF BotActs, ConnectBot, BotWriterFails, BotLeaves, BotFatal, CastRefused, CastTurnedAway,
       CastAdmitted, Refuse, AfterReceive, Closed, ConnStates, Inductive, TypeOK
  <2>2. UNCHANGED <<game, active, ready>>
    BY <1>4 DEF BotActs, ConnectBot, BotWriterFails, BotLeaves, BotFatal, CastRefused, CastTurnedAway,
       CastAdmitted, Refuse, room
  <2> QED
    BY <1>1, <2>1, <2>2
<1>5. ASSUME NEW s \in Subs, DbActs(s) \/ DeadlinePasses(s)
      PROVE  RoomPart'
  BY <1>1, <1>5 DEF DbActs, DbInserts, DbRefuses, DbFails, DeadlinePasses, room
<1>6. ASSUME NEW s \in Subs, Resume(s)
      PROVE  RoomPart'
  <2>1. CASE ResumeForwards(s)
    BY <1>1, <2>1 DEF ResumeForwards, room
  <2>2. ASSUME NEW full \in SUBSET RoomBots, ResumeDuplicate(s, full) \/ ResumeOutdated(s, full)
        PROVE  RoomPart'
    BY <1>1, <2>2 DEF ResumeDuplicate, ResumeOutdated, ReplyTo, room
  <2>3. ASSUME NEW full \in SUBSET RoomBots, ResumeBroken(s, full)
        PROVE  RoomPart'
    <3>1. job[s].bot \in Bots
      BY <2>3 DEF ResumeBroken, Inductive, TypeOK, Running, Jobs
    <3>2. Drop(full)[job[s].bot] \in ConnStates
      BY <3>1, DropType DEF Inductive
    <3>3. \E q \in ConnStates : conn' = [Drop(full) EXCEPT ![job[s].bot] = q]
      BY <2>3, <3>1, <3>2 DEF ResumeBroken, ConnStates, Drop
    <3> QED
      BY <1>1, <2>3, <3>1, <3>3 DEF ResumeBroken, room
  <2>4. ASSUME NEW full \in SUBSET RoomBots, ResumeOverflows(s, full)
        PROVE  RoomPart'
    <3>1. game \in Games
      BY <2>4 DEF ResumeOverflows, Outdated, Inductive, TypeOK, Running, Jobs
    <3> QED
      BY <2>4, <3>1, OfflineRoom DEF ResumeOverflows
  <2> QED
    BY <1>6, <2>1, <2>2, <2>3, <2>4 DEF Resume
<1>7. ASSUME NEW full \in SUBSET RoomBots, Sweep(full)
      PROVE  RoomPart'
  BY <1>1, <1>7 DEF Sweep, room
<1>8. CASE Restart
  BY <1>8 DEF Restart, RoomPart, Live, Inductive, TypeOK
<1> QED
  BY <1>2, <1>3, <1>4, <1>5, <1>6, <1>7, <1>8 DEF Next, SweepActs

-----------------------------------------------------------------------------
(* PendingPart *)

\* PendingPart says nothing when no vote is pending.
LEMMA NoPendings ==
  ASSUME \A c \in CastIds : pending'[c] = None
  PROVE  PendingPart'
BY DEF PendingPart

\* Resolving every pending vote empties pending_casts.
LEMMA AllResolved ==
  ASSUME TypeOK, NEW S, NEW code, NEW full, Pendings \subseteq S, Resolve(S, code, full)
  PROVE  \A c \in CastIds : pending'[c] = None
BY DEF Resolve, Forgotten, Pendings

\* A pending vote that stays pending, in a room that stays as it is.
LEMMA PendingKept ==
  ASSUME Inductive, UNCHANGED <<game, generation, active, ready>>,
         \A c \in CastIds : pending'[c] # None =>
           /\ pending'[c] = pending[c]
           /\ phase'[pending[c]] = phase[pending[c]]
           /\ answers'[pending[c]] = answers[pending[c]]
           /\ job'[pending[c]] = job[pending[c]],
         reserved \subseteq reserved'
  PROVE  PendingPart'
BY DEF Inductive, PendingPart

\* No action leaves a vote pending that belongs to an earlier state of the room.
LEMMA PendingStep ==
  ASSUME Inductive, Next
  PROVE  PendingPart'
<1> USE DistinctAssumption
<1>1. ASSUME UNCHANGED <<game, generation, active, ready, pending, phase, answers, job, reserved>>
      PROVE  PendingPart'
  BY <1>1, PendingKept
<1>2. ASSUME NEW full, NEW code, Resolve(Pendings, code, full)
      PROVE  PendingPart'
  BY <1>2, AllResolved, NoPendings DEF Inductive
<1>3. ASSUME NEW full, NEW g, NEW S, Pendings \subseteq S, GoOffline(g, S, full)
      PROVE  PendingPart'
  BY <1>3, AllResolved, NoPendings DEF Inductive, GoOffline
\* A handler that runs is not yet pending, so its own step disturbs no other vote.
<1>4. ASSUME NEW s \in Subs, phase[s] # "done",
             UNCHANGED <<game, generation, active, ready, pending>>,
             reserved \subseteq reserved',
             \A t \in Subs \ {s} : /\ phase'[t] = phase[t]
                                   /\ answers'[t] = answers[t]
                                   /\ job'[t] = job[t]
      PROVE  PendingPart'
  <2>1. \A c \in CastIds : pending[c] # None => pending[c] \in Subs \ {s}
    BY <1>4 DEF Inductive, TypeOK, PendingPart
  <2> QED
    BY <1>4, <2>1, PendingKept
<1>5. ASSUME NEW g \in Games, GameActs(g)
      PROVE  PendingPart'
  <2>1. ASSUME RegisterGame(g)
        PROVE  PendingPart'
    BY <2>1, NoPendings DEF RegisterGame, Inductive, RoomPart, PendingPart
  <2>2. ASSUME RefuseGame(g) \/ RejectedGameLeaves(g)
        PROVE  PendingPart'
    BY <1>1, <2>2 DEF RefuseGame, RejectedGameLeaves, room
  <2>3. ASSUME NEW full \in SUBSET RoomBots, NEW r \in 0 .. MaxRound, NEW l \in 0 .. MaxRound,
               GameSync(g, r, l, full)
        PROVE  PendingPart'
    BY <1>2, <2>3 DEF GameSync
  <2>4. ASSUME NEW full \in SUBSET RoomBots, NEW r \in Rounds, VoteOpened(g, r, full)
        PROVE  PendingPart'
    BY <1>2, <2>4 DEF VoteOpened
  <2>5. ASSUME NEW full \in SUBSET RoomBots, VoteClosed(g, full)
        PROVE  PendingPart'
    BY <1>2, <2>5 DEF VoteClosed
  <2>6. ASSUME NEW full \in SUBSET RoomBots, NEW c \in CastIds, VoteAck(g, c, full)
        PROVE  PendingPart'
    <3>1. pending[c] \in Subs /\ job[pending[c]].cast = c
      BY <2>6 DEF VoteAck, Inductive, TypeOK, PendingPart
    <3>2. pending' = [pending EXCEPT ![c] = None]
      BY <2>6 DEF VoteAck
    <3>3. \A d \in CastIds : pending'[d] # None => pending'[d] = pending[d] /\ pending[d] \in Subs \ {pending[c]}
      BY <3>1, <3>2 DEF Inductive, TypeOK, PendingPart
    <3>4. \A t \in Subs \ {pending[c]} : answers'[t] = answers[t]
      BY <2>6, <3>1 DEF VoteAck, ReplyTo, Inductive, TypeOK
    <3> QED
      BY <2>6, <3>3, <3>4, PendingKept DEF VoteAck, room
  <2>7. ASSUME NEW full \in SUBSET RoomBots, GameRelays(g, full)
        PROVE  PendingPart'
    BY <1>1, <2>7 DEF GameRelays, room
  <2>8. ASSUME NEW full \in SUBSET RoomBots, NEW next, ToGame(g, next, full),
               UNCHANGED <<phase, job, reserved>>
        PROVE  PendingPart'
    BY <1>1, <1>3, <2>8 DEF ToGame, room
  <2>9. ASSUME NEW full \in SUBSET RoomBots,
               GameGetsReply(g, full) \/ GameFatal(g, full) \/ GameLeaves(g, full)
        PROVE  PendingPart'
    BY <1>3, <2>8, <2>9 DEF GameGetsReply, GameFatal, GameLeaves
  <2> QED
    BY <1>5, <2>1, <2>2, <2>3, <2>4, <2>5, <2>6, <2>7, <2>9 DEF GameActs
<1>6. ASSUME NEW g \in Games, WriterActs(g)
      PROVE  PendingPart'
  BY <1>1, <1>6 DEF WriterActs, WriterSkips, WriterStarts, WriterFinishes, room
<1>7. ASSUME NEW b \in Bots, BotActs(b)
      PROVE  PendingPart'
  <2>1. ASSUME NEW s \in Subs, NEW code, NEW full, phase[s] = "idle", Refuse(b, s, code, full)
        PROVE  PendingPart'
    BY <1>4, <2>1 DEF Refuse, room, Inductive, TypeOK
  <2>2. ASSUME NEW s \in Subs, NEW r \in Rounds, NEW i \in Instances, NEW full \in SUBSET {b},
               CastRefused(b, s, r, i, full) \/ CastTurnedAway(b, s, full)
        PROVE  PendingPart'
    BY <2>1, <2>2 DEF CastRefused, CastTurnedAway, Receives
  <2>3. ASSUME NEW s \in Subs, NEW full \in SUBSET {b}, CastTurnedAway(b, s, full)
        PROVE  PendingPart'
    BY <2>1, <2>3 DEF CastTurnedAway, Receives
  <2>4. ASSUME NEW s \in Subs, NEW c \in CastIds, NEW v \in Voters, NEW r \in Rounds,
               NEW i \in Instances, CastAdmitted(b, s, c, v, r, i)
        PROVE  PendingPart'
    BY <1>4, <2>4 DEF CastAdmitted, Receives, room, Inductive, TypeOK
  <2> QED
    BY <1>1, <1>7, <2>2, <2>3, <2>4
       DEF BotActs, ConnectBot, BotWriterFails, BotLeaves, BotFatal, room
<1>8. ASSUME NEW s \in Subs, DbActs(s)
      PROVE  PendingPart'
  BY <1>4, <1>8 DEF DbActs, DbInserts, DbRefuses, DbFails, room, Inductive, TypeOK
<1>9. ASSUME NEW s \in Subs, Resume(s)
      PROVE  PendingPart'
  <2>1. CASE ResumeForwards(s)
    <3>1. /\ game = job[s].game /\ generation = job[s].generation
          /\ job[s].round = active /\ ready
          /\ s \in reserved /\ answers[s] = <<>>
          /\ job[s].cast \in CastIds
      BY <2>1 DEF ResumeForwards, Outdated, Inductive, TypeOK, HandlerPart, Running, Jobs
    <3>2. /\ pending' = [pending EXCEPT ![job[s].cast] = s]
          /\ phase' = [phase EXCEPT ![s] = "done"]
          /\ UNCHANGED <<game, generation, active, ready, job, reserved, answers>>
      BY <2>1 DEF ResumeForwards, Finish, room
    <3>3. ASSUME NEW c \in CastIds, pending'[c] # None, c # job[s].cast
          PROVE  pending'[c] = pending[c] /\ phase'[pending[c]] = "done"
      BY <3>2, <3>3 DEF Inductive, TypeOK, PendingPart
    <3>4. phase'[s] = "done" /\ pending'[job[s].cast] = s
      BY <3>1, <3>2 DEF Inductive, TypeOK
    <3> QED
      BY <3>1, <3>2, <3>3, <3>4 DEF PendingPart, Inductive
  <2>2. ASSUME NEW full \in SUBSET RoomBots,
               ResumeDuplicate(s, full) \/ ResumeOutdated(s, full) \/ ResumeBroken(s, full)
        PROVE  PendingPart'
    BY <1>4, <2>2 DEF ResumeDuplicate, ResumeOutdated, ResumeBroken, ReplyTo, Finish, room, Inductive, TypeOK
  <2>3. ASSUME NEW full \in SUBSET RoomBots, ResumeOverflows(s, full)
        PROVE  PendingPart'
    BY <1>3, <2>3 DEF ResumeOverflows
  <2> QED
    BY <1>9, <2>1, <2>2, <2>3 DEF Resume
<1>10. ASSUME NEW s \in Subs, DeadlinePasses(s)
       PROVE  PendingPart'
  BY <1>1, <1>10 DEF DeadlinePasses, room
<1>11. ASSUME NEW full \in SUBSET RoomBots, Sweep(full)
       PROVE  PendingPart'
  <2>1. \A c \in CastIds : pending'[c] # None =>
          pending'[c] = pending[c] /\ answers'[pending[c]] = answers[pending[c]]
    BY <1>11 DEF Sweep, Resolve, Answered, Forgotten, Inductive, TypeOK
  <2> QED
    BY <1>11, <2>1, PendingKept DEF Sweep, room
<1>12. CASE Restart
  BY <1>12, NoPendings DEF Restart
<1> QED
  BY <1>5, <1>6, <1>7, <1>8, <1>9, <1>10, <1>11, <1>12 DEF Next, SweepActs

-----------------------------------------------------------------------------
(* HandlerPart *)

\* What HandlerPart says of one submission.
HandlerOk(s) ==
  /\ phase[s] = "idle" => job[s] = None /\ answers[s] = <<>>
  /\ Running(s) =>
       /\ answers[s] = <<>>
       /\ job[s].generation <= generation
       /\ job[s].generation = generation =>
            job[s].game = game /\ job[s].round = active /\ ready
  /\ phase[s] \in {"idle", "saving", "refused", "broken"} => s \notin reserved
  /\ phase[s] = "saved" => s \in reserved /\ s \notin attempted
  /\ job[s] # None => job[s].instance = InstanceOf[job[s].game]

\* HandlerPart, submission by submission.
LEMMA HandlersOk == HandlerPart <=> \A s \in Subs : HandlerOk(s)
BY DEF HandlerPart, HandlerOk

\* The room is as it was, or its generation is higher.
RoomMoves == \/ UNCHANGED <<game, active, ready, generation>>
             \/ generation' > generation

\* A step of somebody else.
LEMMA OthersStep ==
  ASSUME Inductive, TypeOK', RoomMoves, NEW s \in Subs,
         phase'[s] = phase[s], job'[s] = job[s],
         phase[s] # "done" => answers'[s] = answers[s],
         s \in reserved' <=> s \in reserved,
         s \in attempted' => s \in attempted \/ phase[s] = "done"
  PROVE  HandlerOk(s)'
<1>1. HandlerOk(s)
  BY HandlersOk DEF Inductive
<1>2. generation \in Nat /\ generation' \in Nat /\ (Running(s) => job[s].generation \in Nat)
  BY DEF Inductive, TypeOK, Jobs
<1> QED
  BY <1>1, <1>2 DEF HandlerOk, RoomMoves, Running

\* The handler finishes.
LEMMA FinishedStep ==
  ASSUME Inductive, NEW s \in Subs, phase'[s] = "done", job'[s] = job[s]
  PROVE  HandlerOk(s)'
BY HandlersOk DEF Inductive, HandlerOk, Running

\* What a suspended handler remembers stays true, or its generation is out of date.
LEMMA HandlerStep ==
  ASSUME Inductive, TypeOK', Next
  PROVE  HandlerPart'
<1> DEFINE Good == \A s \in Subs : HandlerOk(s)'
<1> SUFFICES Good
  BY HandlersOk DEF HandlerPart, HandlerOk
<1>1. ASSUME RoomMoves, UNCHANGED <<phase, job, reserved, attempted>>,
             \A s \in Subs : phase[s] # "done" => answers'[s] = answers[s]
      PROVE  Good
  BY <1>1, OthersStep
<1>2. ASSUME NEW S \in SUBSET Subs, NEW code, NEW full, Resolve(S, code, full),
             \A s \in S : phase'[s] = "done"
      PROVE  \A s \in Subs : phase'[s] # "done" => answers'[s] = answers[s]
  BY <1>2 DEF Resolve, Answered
<1>3. \A s \in Pendings : s \in Subs /\ phase[s] = "done"
  BY PendingsAreFresh
<1>4. generation \in Nat
  BY DEF Inductive, TypeOK
<1>5. ASSUME NEW s \in Subs, RoomMoves,
             \/ phase'[s] = "done" /\ job'[s] = job[s]
             \/ HandlerOk(s)',
             \A t \in Subs \ {s} : /\ phase'[t] = phase[t]
                                   /\ job'[t] = job[t]
                                   /\ phase[t] # "done" => answers'[t] = answers[t]
                                   /\ t \in reserved' <=> t \in reserved,
             attempted' = attempted
      PROVE  Good
  <2>1. HandlerOk(s)'
    BY <1>5, FinishedStep
  <2>2. ASSUME NEW t \in Subs, t # s
        PROVE  HandlerOk(t)'
    BY <1>5, <2>2, OthersStep
  <2> QED
    BY <2>1, <2>2
<1>6. ASSUME NEW g \in Games, GameActs(g)
      PROVE  Good
  <2>1. ASSUME RegisterGame(g)
        PROVE  Good
    BY <1>1, <1>4, <2>1 DEF RegisterGame, RoomMoves
  <2>2. ASSUME RefuseGame(g) \/ RejectedGameLeaves(g)
        PROVE  Good
    BY <1>1, <2>2 DEF RefuseGame, RejectedGameLeaves, room, RoomMoves
  <2>3. ASSUME NEW full, NEW code, Resolve(Pendings, code, full), RoomMoves,
               UNCHANGED <<phase, job, reserved, attempted>>
        PROVE  Good
    BY <1>1, <1>2, <1>3, <2>3
  <2>4. ASSUME NEW full \in SUBSET RoomBots, NEW r \in 0 .. MaxRound, NEW l \in 0 .. MaxRound,
               GameSync(g, r, l, full)
        PROVE  Good
    <3>1. Resolve(Pendings, "result_unknown", full) /\ UNCHANGED <<phase, job, reserved, attempted>>
      BY <2>4 DEF GameSync
    <3>2. generation' = generation + 1
      BY <2>4 DEF GameSync
    <3>3. RoomMoves
      BY <1>4, <3>2 DEF RoomMoves
    <3> QED
      BY <2>3, <3>1, <3>3
  <2>5. ASSUME NEW full \in SUBSET RoomBots, NEW r \in Rounds, VoteOpened(g, r, full)
        PROVE  Good
    BY <1>4, <2>3, <2>5 DEF VoteOpened, RoomMoves
  <2>6. ASSUME NEW full \in SUBSET RoomBots, VoteClosed(g, full)
        PROVE  Good
    BY <1>4, <2>3, <2>6 DEF VoteClosed, RoomMoves
  <2>7. ASSUME NEW full \in SUBSET RoomBots, NEW c \in CastIds, VoteAck(g, c, full)
        PROVE  Good
    <3>1. pending[c] \in Subs /\ phase[pending[c]] = "done"
      BY <2>7 DEF VoteAck, Inductive, TypeOK, PendingPart
    <3>2. \A t \in Subs : t # pending[c] => answers'[t] = answers[t]
      BY <2>7 DEF VoteAck, ReplyTo, Inductive, TypeOK
    <3> QED
      BY <1>1, <2>7, <3>1, <3>2 DEF VoteAck, room, RoomMoves
  <2>8. ASSUME NEW full \in SUBSET RoomBots, GameRelays(g, full)
        PROVE  Good
    BY <1>1, <2>8 DEF GameRelays, room, RoomMoves
  <2>9. ASSUME NEW full, GoOffline(g, Pendings, full), UNCHANGED <<phase, job, reserved, attempted>>
        PROVE  Good
    BY <1>4, <2>3, <2>9 DEF GoOffline, RoomMoves
  <2>10. ASSUME NEW full, NEW next, ToGame(g, next, full), UNCHANGED <<phase, job, reserved, attempted>>
         PROVE  Good
    BY <1>1, <2>9, <2>10 DEF ToGame, room, RoomMoves
  <2>11. ASSUME NEW full \in SUBSET RoomBots,
                GameGetsReply(g, full) \/ GameFatal(g, full) \/ GameLeaves(g, full)
         PROVE  Good
    BY <2>9, <2>10, <2>11 DEF GameGetsReply, GameFatal, GameLeaves
  <2> QED
    BY <1>6, <2>1, <2>2, <2>4, <2>5, <2>6, <2>7, <2>8, <2>11 DEF GameActs
<1>7. ASSUME NEW g \in Games, WriterActs(g)
      PROVE  Good
  <2>1. CASE WriterSkips(g) \/ WriterFinishes(g)
    BY <1>1, <2>1 DEF WriterSkips, WriterFinishes, room, RoomMoves
  <2>2. CASE WriterStarts(g)
    <3>1. Head(outq[g]) # Control => phase[Head(outq[g])] = "done"
      BY <2>2, HeadOfQueue DEF WriterStarts
    <3>2. \A s \in Subs : s \in attempted' => s \in attempted \/ phase[s] = "done"
      BY <2>2, <3>1 DEF WriterStarts
    <3> QED
      BY <2>2, <3>2, OthersStep DEF WriterStarts, room, RoomMoves
  <2> QED
    BY <1>7, <2>1, <2>2 DEF WriterActs
<1>8. ASSUME NEW b \in Bots, BotActs(b)
      PROVE  Good
  <2>1. ASSUME NEW s \in Subs, NEW code, NEW full, Refuse(b, s, code, full)
        PROVE  Good
    <3>1. phase'[s] = "done" /\ job' = job /\ reserved' = reserved /\ attempted' = attempted /\ RoomMoves
      BY <2>1 DEF Refuse, room, RoomMoves, Inductive, TypeOK
    <3>2. \A t \in Subs \ {s} : phase'[t] = phase[t] /\ answers'[t] = answers[t]
      BY <2>1 DEF Refuse, Inductive, TypeOK
    <3> QED
      BY <1>5, <3>1, <3>2
  <2>2. ASSUME NEW s \in Subs, NEW r \in Rounds, NEW i \in Instances, NEW full \in SUBSET {b},
               CastRefused(b, s, r, i, full)
        PROVE  Good
    BY <2>1, <2>2 DEF CastRefused
  <2>3. ASSUME NEW s \in Subs, NEW full \in SUBSET {b}, CastTurnedAway(b, s, full)
        PROVE  Good
    BY <2>1, <2>3 DEF CastTurnedAway
  <2>4. ASSUME NEW s \in Subs, NEW c \in CastIds, NEW v \in Voters, NEW r \in Rounds,
               NEW i \in Instances, CastAdmitted(b, s, c, v, r, i)
        PROVE  Good
    <3>1. /\ game # None /\ InstanceOf[game] = i /\ ready /\ active = r
          /\ phase[s] = "idle"
      BY <2>4 DEF CastAdmitted, DoorCode, Receives
    <3>2. answers[s] = <<>> /\ s \notin reserved
      BY <3>1 DEF Inductive, HandlerPart
    <3>3. /\ phase'[s] = "saving"
          /\ job'[s] = [cast |-> c, voter |-> v, round |-> r, instance |-> i,
                        bot |-> b, game |-> game, generation |-> generation]
          /\ UNCHANGED <<room, answers, reserved, attempted>>
      BY <2>4 DEF CastAdmitted, Inductive, TypeOK
    <3>4. HandlerOk(s)'
      BY <1>4, <3>1, <3>2, <3>3 DEF HandlerOk, room, Running
    <3> QED
      BY <1>5, <2>4, <3>4 DEF CastAdmitted, room, RoomMoves, Inductive, TypeOK
  <2> QED
    BY <1>1, <1>8, <2>2, <2>3, <2>4
       DEF BotActs, ConnectBot, BotWriterFails, BotLeaves, BotFatal, room, RoomMoves
<1>9. ASSUME NEW s \in Subs, DbActs(s)
      PROVE  Good
  <2>1. /\ phase[s] = "saving"
        /\ UNCHANGED <<room, job, attempted, answers>>
        /\ \A t \in Subs \ {s} : phase'[t] = phase[t]
        /\ \/ phase'[s] = "saved" /\ reserved' = reserved \cup {s}
           \/ phase'[s] \in {"refused", "broken"} /\ reserved' = reserved
    BY <1>9 DEF DbActs, DbInserts, DbRefuses, DbFails, Inductive, TypeOK
  <2>2. HandlerOk(s) /\ s \notin attempted
    BY <2>1, HandlersOk, UncommittedNotSent DEF Inductive
  <2>3. HandlerOk(s)'
    BY <2>1, <2>2 DEF HandlerOk, Running, room
  <2> QED
    BY <1>5, <2>1, <2>3 DEF room, RoomMoves
<1>10. ASSUME NEW s \in Subs, Resume(s)
       PROVE  Good
  <2>1. /\ phase' = [phase EXCEPT ![s] = "done"]
        /\ UNCHANGED <<job, reserved, attempted>>
    BY <1>10 DEF Resume, ResumeForwards, ResumeDuplicate, ResumeOutdated, ResumeBroken,
       ResumeOverflows, Finish
  <2>2. RoomMoves
    BY <1>4, <1>10 DEF Resume, ResumeForwards, ResumeDuplicate, ResumeOutdated, ResumeBroken,
       ResumeOverflows, GoOffline, RoomMoves, room
  <2>3. \A t \in Subs \ {s} : phase[t] # "done" => answers'[t] = answers[t]
    <3>1. ASSUME NEW full \in SUBSET RoomBots, ResumeOverflows(s, full)
          PROVE  \A t \in Subs \ {s} : phase[t] # "done" => answers'[t] = answers[t]
      BY <1>3, <3>1 DEF ResumeOverflows, GoOffline, Resolve, Answered
    <3>2. ASSUME NEW full \in SUBSET RoomBots,
                 ResumeDuplicate(s, full) \/ ResumeOutdated(s, full) \/ ResumeBroken(s, full)
          PROVE  \A t \in Subs \ {s} : phase[t] # "done" => answers'[t] = answers[t]
      BY <3>2 DEF ResumeDuplicate, ResumeOutdated, ResumeBroken, ReplyTo, Inductive, TypeOK
    <3> QED
      BY <1>10, <3>1, <3>2 DEF Resume, ResumeForwards
  <2>4. phase'[s] = "done" /\ \A t \in Subs \ {s} : phase'[t] = phase[t]
    BY <2>1 DEF Inductive, TypeOK
  <2> QED
    BY <1>5, <2>1, <2>2, <2>3, <2>4
<1>11. ASSUME NEW s \in Subs, DeadlinePasses(s)
       PROVE  Good
  BY <1>1, <1>11 DEF DeadlinePasses, room, RoomMoves
<1>12. ASSUME NEW full \in SUBSET RoomBots, Sweep(full)
       PROVE  Good
  BY <1>1, <1>3, <1>12 DEF Sweep, Resolve, Answered, room, RoomMoves
<1>13. CASE Restart
  <2>1. ASSUME NEW s \in Subs
        PROVE  HandlerOk(s)'
    <3>1. HandlerOk(s) /\ phase'[s] = (IF phase[s] = "idle" THEN "idle" ELSE "done")
      BY <1>13, HandlersOk DEF Restart, Inductive
    <3> QED
      BY <1>13, <3>1 DEF Restart, HandlerOk, Running
  <2> QED
    BY <2>1
<1> QED
  BY <1>6, <1>7, <1>8, <1>9, <1>10, <1>11, <1>12, <1>13 DEF Next, SweepActs

-----------------------------------------------------------------------------
(* QueuePart *)

\* What QueuePart says of one queue.
QueueOk(g) ==
  \A k \in 1 .. Len(outq[g]) : outq[g][k] # Control =>
    /\ phase[outq[g][k]] = "done"
    /\ job[outq[g][k]] # None
    /\ job[outq[g][k]].game = g
    /\ outq[g][k] \notin attempted
    /\ \A m \in 1 .. Len(outq[g]) : outq[g][m] = outq[g][k] => m = k

\* QueuePart, queue by queue.
LEMMA QueuesOk == QueuePart <=> \A g \in Games : QueueOk(g)
BY DEF QueuePart, QueueOk

\* Handlers that finished stay finished, and keep their local variables.
DoneStays == \A s \in Subs : phase[s] = "done" => phase'[s] = "done" /\ job'[s] = job[s]

\* Every action keeps finished handlers as they are.
LEMMA DoneStaysStep ==
  ASSUME Inductive, Next
  PROVE  DoneStays
<1>1. ASSUME UNCHANGED <<phase, job>>
      PROVE  DoneStays
  BY <1>1 DEF DoneStays
<1>2. ASSUME NEW g \in Games, GameActs(g) \/ WriterActs(g)
      PROVE  UNCHANGED <<phase, job>>
  BY <1>2 DEF GameActs, RegisterGame, RefuseGame, RejectedGameLeaves, GameSync, VoteOpened, VoteClosed,
     VoteAck, GameRelays, GameGetsReply, GameFatal, GameLeaves, WriterActs, WriterSkips, WriterStarts,
     WriterFinishes
<1>3. ASSUME NEW s \in Subs, phase[s] # "done",
             \A t \in Subs \ {s} : phase'[t] = phase[t] /\ job'[t] = job[t]
      PROVE  DoneStays
  BY <1>3 DEF DoneStays
<1>4. ASSUME NEW b \in Bots, BotActs(b)
      PROVE  DoneStays
  <2>1. ASSUME NEW s \in Subs, NEW r \in Rounds, NEW i \in Instances, NEW full \in SUBSET {b},
               CastRefused(b, s, r, i, full)
        PROVE  DoneStays
    BY <1>3, <2>1 DEF CastRefused, Refuse, Receives, Inductive, TypeOK
  <2>2. ASSUME NEW s \in Subs, NEW full \in SUBSET {b}, CastTurnedAway(b, s, full)
        PROVE  DoneStays
    BY <1>3, <2>2 DEF CastTurnedAway, Refuse, Receives, Inductive, TypeOK
  <2>3. ASSUME NEW s \in Subs, NEW c \in CastIds, NEW v \in Voters, NEW r \in Rounds,
               NEW i \in Instances, CastAdmitted(b, s, c, v, r, i)
        PROVE  DoneStays
    BY <1>3, <2>3 DEF CastAdmitted, Receives, Inductive, TypeOK
  <2> QED
    BY <1>1, <1>4, <2>1, <2>2, <2>3 DEF BotActs, ConnectBot, BotWriterFails, BotLeaves, BotFatal
<1>5. ASSUME NEW s \in Subs, DbActs(s)
      PROVE  DoneStays
  BY <1>3, <1>5 DEF DbActs, DbInserts, DbRefuses, DbFails, Inductive, TypeOK
<1>6. ASSUME NEW s \in Subs, Resume(s)
      PROVE  DoneStays
  BY <1>3, <1>6 DEF Resume, ResumeForwards, ResumeDuplicate, ResumeOutdated, ResumeBroken,
     ResumeOverflows, Finish, Inductive, TypeOK
<1>7. ASSUME (\E s \in Subs : DeadlinePasses(s)) \/ SweepActs
      PROVE  DoneStays
  BY <1>1, <1>7 DEF DeadlinePasses, SweepActs, Sweep
<1>8. CASE Restart
  BY <1>8 DEF Restart, DoneStays
<1> QED
  BY <1>1, <1>2, <1>4, <1>5, <1>6, <1>7, <1>8 DEF Next

\* A queue that no action of the writer or a handler touched.
LEMMA QueueKept ==
  ASSUME Inductive, DoneStays, NEW g \in Games, outq'[g] = outq[g],
         \A k \in 1 .. Len(outq[g]) : outq[g][k] \in attempted' => outq[g][k] \in attempted
  PROVE  QueueOk(g)'
<1>1. QueueOk(g)
  BY QueuesOk DEF Inductive
<1>2. \A k \in 1 .. Len(outq[g]) : outq[g][k] # Control => outq[g][k] \in Subs
  BY DEF Inductive, TypeOK
<1>3. ASSUME NEW k \in 1 .. Len(outq[g]), outq[g][k] # Control
      PROVE  /\ phase'[outq[g][k]] = "done"
             /\ job'[outq[g][k]] = job[outq[g][k]]
  BY <1>1, <1>2, <1>3 DEF QueueOk, DoneStays
<1> QED
  BY <1>1, <1>3 DEF QueueOk

\* A queue that was emptied with its connection.
LEMMA QueueEmptied ==
  ASSUME NEW g \in Games, outq'[g] = <<>>
  PROVE  QueueOk(g)'
BY DEF QueueOk

\* A queue whose head was taken.
LEMMA QueueShorter ==
  ASSUME Inductive, DoneStays, NEW g \in Games, outq[g] # <<>>, outq'[g] = Tail(outq[g]),
         attempted' \subseteq attempted \cup {Head(outq[g])}
  PROVE  QueueOk(g)'
<1> DEFINE q == outq[g]
<1>1. q \in Seq(Subs \cup {Control}) /\ Head(q) = q[1] /\ 1 \in 1 .. Len(q)
  BY DEF Inductive, TypeOK
<1>2. QueueOk(g)
  BY QueuesOk DEF Inductive
<1>3. Len(Tail(q)) = Len(q) - 1 /\ \A k \in 1 .. Len(Tail(q)) : k + 1 \in 1 .. Len(q) /\ Tail(q)[k] = q[k + 1]
  BY <1>1
<1>4. ASSUME NEW k \in 1 .. Len(Tail(q)), Tail(q)[k] # Control
      PROVE  /\ phase'[Tail(q)[k]] = "done"
             /\ job'[Tail(q)[k]] # None
             /\ job'[Tail(q)[k]].game = g
             /\ Tail(q)[k] \notin attempted'
             /\ \A m \in 1 .. Len(Tail(q)) : Tail(q)[m] = Tail(q)[k] => m = k
  <2>1. k + 1 \in 1 .. Len(q) /\ q[k + 1] = Tail(q)[k] /\ q[k + 1] # Control /\ k + 1 # 1
    BY <1>3, <1>4
  <2>2. q[k + 1] \in Subs
    BY <1>1, <2>1
  <2>3. /\ phase[q[k + 1]] = "done"
        /\ job[q[k + 1]] # None
        /\ job[q[k + 1]].game = g
        /\ q[k + 1] \notin attempted
        /\ \A m \in 1 .. Len(q) : q[m] = q[k + 1] => m = k + 1
    BY <1>2, <2>1 DEF QueueOk
  <2>4. q[1] # q[k + 1]
    BY <1>1, <2>1, <2>3
  <2>5. \A m \in 1 .. Len(Tail(q)) : Tail(q)[m] = Tail(q)[k] => m = k
    BY <1>3, <2>1, <2>3
  <2> QED
    BY <1>1, <2>1, <2>2, <2>3, <2>4, <2>5 DEF DoneStays
<1> QED
  BY <1>4 DEF QueueOk

\* A queue that got one more frame.
LEMMA QueueLonger ==
  ASSUME Inductive, DoneStays, NEW g \in Games, NEW f \in Subs \cup {Control},
         outq'[g] = Append(outq[g], f), attempted' = attempted,
         f # Control =>
           /\ phase[f] # "done" /\ phase'[f] = "done"
           /\ job'[f] # None /\ job'[f].game = g
           /\ f \notin attempted
  PROVE  QueueOk(g)'
<1> DEFINE q == outq[g]
<1>1. q \in Seq(Subs \cup {Control})
  BY DEF Inductive, TypeOK
<1>2. QueueOk(g)
  BY QueuesOk DEF Inductive
<1>3. /\ Len(Append(q, f)) = Len(q) + 1
      /\ \A k \in 1 .. Len(q) : Append(q, f)[k] = q[k]
      /\ Append(q, f)[Len(q) + 1] = f
      /\ \A k \in 1 .. Len(Append(q, f)) : k \in 1 .. Len(q) \/ k = Len(q) + 1
  BY <1>1
<1>4. ASSUME NEW k \in 1 .. Len(q), q[k] # Control
      PROVE  /\ q[k] \in Subs
             /\ phase'[q[k]] = "done" /\ phase[q[k]] = "done"
             /\ job'[q[k]] # None
             /\ job'[q[k]].game = g
             /\ q[k] \notin attempted'
             /\ q[k] # f
             /\ \A m \in 1 .. Len(q) : q[m] = q[k] => m = k
  <2>1. q[k] \in Subs
    BY <1>1, <1>4
  <2>2. /\ phase[q[k]] = "done"
        /\ job[q[k]] # None
        /\ job[q[k]].game = g
        /\ q[k] \notin attempted
        /\ \A m \in 1 .. Len(q) : q[m] = q[k] => m = k
    BY <1>2, <1>4 DEF QueueOk
  <2> QED
    BY <1>4, <2>1, <2>2 DEF DoneStays
<1>5. ASSUME NEW k \in 1 .. Len(Append(q, f)), Append(q, f)[k] # Control
      PROVE  /\ phase'[Append(q, f)[k]] = "done"
             /\ job'[Append(q, f)[k]] # None
             /\ job'[Append(q, f)[k]].game = g
             /\ Append(q, f)[k] \notin attempted'
             /\ \A m \in 1 .. Len(Append(q, f)) : Append(q, f)[m] = Append(q, f)[k] => m = k
  <2>1. CASE k \in 1 .. Len(q)
    BY <1>3, <1>4, <1>5, <2>1
  <2>2. CASE k = Len(q) + 1
    <3>1. \A m \in 1 .. Len(q) : q[m] # f
      BY <1>3, <1>4, <1>5, <2>2
    <3> QED
      BY <1>3, <1>5, <2>2, <3>1
  <2> QED
    BY <1>3, <2>1, <2>2
<1> QED
  BY <1>5 DEF QueueOk

\* No action queues a vote twice, or keeps in a queue a vote that was started.
LEMMA QueueStep ==
  ASSUME Inductive, Next
  PROVE  QueuePart'
<1> DEFINE Good == \A g \in Games : QueueOk(g)'
<1> SUFFICES Good
  BY QueuesOk DEF QueuePart, QueueOk
<1> USE DoneStaysStep
<1>1. ASSUME UNCHANGED <<outq, attempted>>
      PROVE  Good
  BY <1>1, QueueKept
<1>2. ASSUME NEW g \in Games, NEW S, NEW full, GoOffline(g, S, full), UNCHANGED attempted
      PROVE  Good
  <2>1. outq'[g] = <<>> /\ \A h \in Games : h # g => outq'[h] = outq[h]
    BY <1>2 DEF GoOffline, Inductive, TypeOK
  <2> QED
    BY <1>2, <2>1, QueueKept, QueueEmptied
<1>3. ASSUME NEW g \in Games, NEW f \in Subs \cup {Control},
             outq' = [outq EXCEPT ![g] = Append(outq[g], f)], attempted' = attempted,
             f # Control =>
               /\ phase[f] # "done" /\ phase'[f] = "done"
               /\ job'[f] # None /\ job'[f].game = g
               /\ f \notin attempted
      PROVE  Good
  <2>1. outq'[g] = Append(outq[g], f) /\ \A h \in Games : h # g => outq'[h] = outq[h]
    BY <1>3 DEF Inductive, TypeOK
  <2> QED
    BY <1>3, <2>1, QueueKept, QueueLonger
<1>4. ASSUME NEW g \in Games, GameActs(g)
      PROVE  Good
  <2>1. ASSUME RegisterGame(g)
        PROVE  Good
    <3>1. /\ outq' = [outq EXCEPT ![g] = <<Control>>]
          /\ attempted' = attempted
      BY <2>1 DEF RegisterGame
    <3>2. outq'[g] = <<Control>> /\ \A h \in Games : h # g => outq'[h] = outq[h]
      BY <3>1 DEF Inductive, TypeOK
    <3>3. QueueOk(g)'
      BY <3>2 DEF QueueOk
    <3> QED
      BY <3>1, <3>2, <3>3, QueueKept
  <2>2. ASSUME NEW full, NEW next, ToGame(g, next, full), UNCHANGED attempted
        PROVE  Good
    BY <1>2, <1>3, <2>2 DEF ToGame
  <2>3. ASSUME NEW full \in SUBSET RoomBots,
               GameGetsReply(g, full) \/ GameFatal(g, full) \/ GameLeaves(g, full)
        PROVE  Good
    BY <1>2, <2>2, <2>3 DEF GameGetsReply, GameFatal, GameLeaves
  <2> QED
    BY <1>1, <1>4, <2>1, <2>3 DEF GameActs, RefuseGame, RejectedGameLeaves, GameSync, VoteOpened,
       VoteClosed, VoteAck, GameRelays, wire
<1>5. ASSUME NEW g \in Games, WriterSkips(g) \/ WriterStarts(g)
      PROVE  Good
  <2>1. /\ outq[g] # <<>> /\ game = g
        /\ outq' = [outq EXCEPT ![g] = Tail(outq[g])]
        /\ attempted' \subseteq attempted \cup {Head(outq[g])}
        /\ Head(outq[g]) = Control => attempted' = attempted
    BY <1>5 DEF WriterSkips, WriterStarts
  <2>2. outq'[g] = Tail(outq[g]) /\ \A h \in Games : h # g => outq'[h] = outq[h]
    BY <2>1 DEF Inductive, TypeOK
  <2>3. QueueOk(g)'
    BY <2>1, <2>2, QueueShorter
  <2>4. ASSUME NEW h \in Games, h # g
        PROVE  QueueOk(h)'
    <3>1. ASSUME NEW k \in 1 .. Len(outq[h]), outq[h][k] \in attempted', outq[h][k] \notin attempted
          PROVE  FALSE
      <4>1. outq[h][k] = Head(outq[g]) /\ Head(outq[g]) # Control
        BY <2>1, <3>1
      <4>2. job[outq[h][k]].game = h
        BY <4>1 DEF Inductive, QueuePart
      <4>3. job[outq[h][k]].game = g
        BY <2>1, <4>1, HeadOfQueue
      <4> QED
        BY <2>4, <4>2, <4>3
    <3> QED
      BY <2>2, <2>4, <3>1, QueueKept
  <2> QED
    BY <2>3, <2>4
<1>6. ASSUME NEW g \in Games, WriterFinishes(g)
      PROVE  Good
  BY <1>1, <1>6 DEF WriterFinishes
<1>7. ASSUME NEW b \in Bots, BotActs(b)
      PROVE  Good
  BY <1>1, <1>7 DEF BotActs, ConnectBot, BotWriterFails, BotLeaves, BotFatal, CastRefused,
     CastTurnedAway, CastAdmitted, Refuse, wire
<1>8. ASSUME NEW s \in Subs, DbActs(s) \/ DeadlinePasses(s)
      PROVE  Good
  BY <1>1, <1>8 DEF DbActs, DbInserts, DbRefuses, DbFails, DeadlinePasses, wire
<1>9. ASSUME NEW s \in Subs, Resume(s)
      PROVE  Good
  <2>1. CASE ResumeForwards(s)
    <3>1. /\ phase[s] = "saved" /\ phase'[s] = "done"
          /\ job[s] \in Jobs /\ job' = job
          /\ job[s].game = game
          /\ s \notin attempted /\ attempted' = attempted
          /\ outq' = [outq EXCEPT ![game] = Append(outq[game], s)]
      BY <2>1 DEF ResumeForwards, Outdated, Finish, Inductive, TypeOK, HandlerPart, Running
    <3>2. game \in Games /\ job[s] # None
      BY <3>1, DistinctAssumption DEF Jobs
    <3> QED
      BY <1>3, <3>1, <3>2
  <2>2. ASSUME NEW full \in SUBSET RoomBots, ResumeOverflows(s, full)
        PROVE  Good
    <3>1. game \in Games
      BY <2>2 DEF ResumeOverflows, Outdated, Inductive, TypeOK, Running, Jobs
    <3> QED
      BY <1>2, <2>2, <3>1 DEF ResumeOverflows
  <2>3. ASSUME NEW full \in SUBSET RoomBots,
               ResumeDuplicate(s, full) \/ ResumeOutdated(s, full) \/ ResumeBroken(s, full)
        PROVE  Good
    BY <1>1, <2>3 DEF ResumeDuplicate, ResumeOutdated, ResumeBroken, wire
  <2> QED
    BY <1>9, <2>1, <2>2, <2>3 DEF Resume
<1>10. ASSUME NEW full \in SUBSET RoomBots, Sweep(full)
       PROVE  Good
  BY <1>1, <1>10 DEF Sweep, wire
<1>11. CASE Restart
  BY <1>11, QueueEmptied DEF Restart
<1> QED
  BY <1>4, <1>5, <1>6, <1>7, <1>8, <1>9, <1>10, <1>11 DEF Next, WriterActs, SweepActs

=============================================================================
