-------------------------- MODULE VoteRelayTypes --------------------------
(***************************************************************************)
(* Type correctness of the vote relay: every action keeps TypeOK.          *)
(***************************************************************************)
EXTENDS VoteRelay, TLAPS

\* The part of TypeOK that a change of the room can touch.
SharedTypes ==
  /\ game \in Games \cup {None}
  /\ active \in 0 .. MaxRound
  /\ lastClosed \in 0 .. MaxRound
  /\ ready \in BOOLEAN
  /\ hasConnected \in BOOLEAN
  /\ generation \in Nat
  /\ pending \in [CastIds -> Subs \cup {None}]
  /\ conn \in [Games \cup Bots -> ConnStates]
  /\ outq \in [Games -> Seq(Subs \cup {Control})]
  /\ sending \in [Games -> Subs \cup {Control, None}]
  /\ answers \in [Subs -> Seq(Codes)]

\* The part that only the vote.cast handlers and the writer touch.
HandlerTypes ==
  /\ phase \in [Subs -> {"idle", "saving", "saved", "refused", "broken", "done"}]
  /\ job \in [Subs -> Jobs \cup {None}]
  /\ \A s \in Subs : Running(s) => job[s] \in Jobs
  /\ overdue \subseteq Subs
  /\ reserved \subseteq Subs
  /\ attempted \subseteq Subs

\* TypeOK falls into the part the room changes and the part the handlers change.
LEMMA TypeParts == TypeOK <=> SharedTypes /\ HandlerTypes
BY DEF TypeOK, SharedTypes, HandlerTypes

\* Only submissions wait in pending_casts.
LEMMA PendingsAreSubs ==
  ASSUME TypeOK
  PROVE  Pendings \subseteq Subs
BY DEF TypeOK, Pendings

\* _resolve queues nothing but verdict codes.
LEMMA AnsweredType ==
  ASSUME TypeOK, NEW S \in SUBSET Subs, NEW code \in Codes, NEW full
  PROVE  Answered(S, code, full) \in [Subs -> Seq(Codes)]
BY DEF TypeOK, Answered, VerdictFor, Codes

\* Dropping bots whose queue overflowed leaves every session in a known state.
LEMMA DropType ==
  ASSUME TypeOK, NEW full
  PROVE  Drop(full) \in [Games \cup Bots -> ConnStates]
BY DEF TypeOK, Drop, Closed, ConnStates

\* _resolve_all keeps the types of answers and pending_casts.
LEMMA ResolveType ==
  ASSUME TypeOK, NEW S \in SUBSET Subs, NEW code \in Codes, NEW full, Resolve(S, code, full)
  PROVE  /\ answers' \in [Subs -> Seq(Codes)]
         /\ pending' \in [CastIds -> Subs \cup {None}]
BY AnsweredType DEF Resolve, Forgotten, TypeOK

\* Dropping the room's game keeps the types of everything it changes.
LEMMA GoOfflineType ==
  ASSUME TypeOK, NEW g \in Games, NEW S \in SUBSET Subs, NEW full,
         GoOffline(g, S, full)
  PROVE  SharedTypes'
<1> USE DEF TypeOK, GoOffline
<1>1. answers' \in [Subs -> Seq(Codes)]
  BY AnsweredType DEF Resolve, Codes
<1>2. pending' \in [CastIds -> Subs \cup {None}]
  BY DEF Resolve, Forgotten
<1>3. conn' \in [Games \cup Bots -> ConnStates]
  BY DropType DEF ConnStates
<1>4. outq' \in [Games -> Seq(Subs \cup {Control})]
  OBVIOUS
<1>5. active' \in 0 .. MaxRound
  BY BoundAssumption
<1>6. sending' \in [Games -> Subs \cup {Control, None}]
  OBVIOUS
<1>7. /\ game' \in Games \cup {None}
      /\ lastClosed' \in 0 .. MaxRound
      /\ ready' \in BOOLEAN
      /\ hasConnected' \in BOOLEAN
  OBVIOUS
<1>8. generation' \in Nat
  OBVIOUS
<1> QED
  BY <1>1, <1>2, <1>3, <1>4, <1>5, <1>6, <1>7, <1>8 DEF SharedTypes

\* One verdict to one bot keeps the types of answers and sessions.
LEMMA ReplyType ==
  ASSUME TypeOK, NEW s \in Subs, NEW code \in Codes, NEW full, ReplyTo(s, code, full)
  PROVE  /\ answers' \in [Subs -> Seq(Codes)]
         /\ conn' \in [Games \cup Bots -> ConnStates]
<1>1. Append(answers[s], code) \in Seq(Codes)
  BY DEF TypeOK
<1> QED
  BY <1>1, DropType DEF ReplyTo, TypeOK

\* An answer given at the door keeps all types.
LEMMA RefuseType ==
  ASSUME TypeOK, NEW b \in Bots, NEW s \in Subs, NEW code \in Codes, NEW full,
         phase[s] = "idle", Refuse(b, s, code, full)
  PROVE  TypeOK'
<1>1. Append(answers[s], code) \in Seq(Codes)
  BY DEF TypeOK
<1>2. answers' \in [Subs -> Seq(Codes)]
  BY <1>1 DEF Refuse, TypeOK
<1>3. SharedTypes'
  BY <1>2 DEF Refuse, AfterReceive, TypeOK, SharedTypes, ConnStates, room, wire
<1>4. HandlerTypes'
  BY DEF Refuse, TypeOK, HandlerTypes, Running
<1> QED
  BY <1>3, <1>4 DEF TypeOK, SharedTypes, HandlerTypes

\* Every action keeps the types.
LEMMA TypeStep ==
  ASSUME TypeOK, Next
  PROVE  TypeOK'
<1> USE DistinctAssumption
<1>1. ASSUME NEW g \in Games, RegisterGame(g)
     PROVE  TypeOK'
  BY <1>1 DEF RegisterGame, TypeOK, Running, room, wire, ConnStates
<1>2. ASSUME NEW g \in Games, RefuseGame(g)
     PROVE  TypeOK'
  BY <1>2 DEF RefuseGame, TypeOK, Running, room, wire, ConnStates
<1>3. ASSUME NEW g \in Games, RejectedGameLeaves(g)
     PROVE  TypeOK'
  BY <1>3 DEF RejectedGameLeaves, TypeOK, Running, room, wire, ConnStates
<1>4. ASSUME NEW g \in Games, NEW r \in 0 .. MaxRound, NEW l \in 0 .. MaxRound,
              NEW full \in SUBSET RoomBots, GameSync(g, r, l, full)
     PROVE  TypeOK'
  <2>0. Resolve(Pendings, "result_unknown", full) /\ "result_unknown" \in Codes
    BY <1>4 DEF GameSync, Codes
  <2>1. SharedTypes'
    <3>1. /\ answers' \in [Subs -> Seq(Codes)]
          /\ pending' \in [CastIds -> Subs \cup {None}]
      BY <2>0, ResolveType, PendingsAreSubs
    <3>2. conn' \in [Games \cup Bots -> ConnStates]
      BY <1>4, DropType DEF GameSync
    <3>3. active' \in 0 .. MaxRound /\ lastClosed' \in 0 .. MaxRound /\ generation' \in Nat
      BY <1>4, BoundAssumption DEF GameSync, TypeOK, Rounds
    <3> QED
      BY <1>4, <3>1, <3>2, <3>3 DEF GameSync, TypeOK, SharedTypes, wire
  <2>2. HandlerTypes'
    BY <1>4 DEF GameSync, TypeOK, HandlerTypes, Running
  <2> QED
    BY <2>1, <2>2 DEF TypeOK, SharedTypes, HandlerTypes
<1>5. ASSUME NEW g \in Games, NEW r \in Rounds, NEW full \in SUBSET RoomBots, VoteOpened(g, r, full)
     PROVE  TypeOK'
  <2>0. Resolve(Pendings, "stale", full) /\ "stale" \in Codes
    BY <1>5 DEF VoteOpened, Codes
  <2>1. SharedTypes'
    <3>1. /\ answers' \in [Subs -> Seq(Codes)]
          /\ pending' \in [CastIds -> Subs \cup {None}]
      BY <2>0, ResolveType, PendingsAreSubs
    <3>2. conn' \in [Games \cup Bots -> ConnStates]
      BY <1>5, DropType DEF VoteOpened
    <3>3. active' \in 0 .. MaxRound /\ lastClosed' \in 0 .. MaxRound /\ generation' \in Nat
      BY <1>5, BoundAssumption DEF VoteOpened, TypeOK, Rounds
    <3> QED
      BY <1>5, <3>1, <3>2, <3>3 DEF VoteOpened, TypeOK, SharedTypes, wire
  <2>2. HandlerTypes'
    BY <1>5 DEF VoteOpened, TypeOK, HandlerTypes, Running
  <2> QED
    BY <2>1, <2>2 DEF TypeOK, SharedTypes, HandlerTypes
<1>6. ASSUME NEW g \in Games, NEW full \in SUBSET RoomBots, VoteClosed(g, full)
     PROVE  TypeOK'
  <2>0. Resolve(Pendings, "closed", full) /\ "closed" \in Codes
    BY <1>6 DEF VoteClosed, Codes
  <2>1. SharedTypes'
    <3>1. /\ answers' \in [Subs -> Seq(Codes)]
          /\ pending' \in [CastIds -> Subs \cup {None}]
      BY <2>0, ResolveType, PendingsAreSubs
    <3>2. conn' \in [Games \cup Bots -> ConnStates]
      BY <1>6, DropType DEF VoteClosed
    <3>3. active' \in 0 .. MaxRound /\ lastClosed' \in 0 .. MaxRound /\ generation' \in Nat
      BY <1>6, BoundAssumption DEF VoteClosed, TypeOK, Rounds
    <3> QED
      BY <1>6, <3>1, <3>2, <3>3 DEF VoteClosed, TypeOK, SharedTypes, wire
  <2>2. HandlerTypes'
    BY <1>6 DEF VoteClosed, TypeOK, HandlerTypes, Running
  <2> QED
    BY <2>1, <2>2 DEF TypeOK, SharedTypes, HandlerTypes
<1>7. ASSUME NEW g \in Games, NEW c \in CastIds, NEW full \in SUBSET RoomBots, VoteAck(g, c, full)
     PROVE  TypeOK'
  <2>0. pending[c] \in Subs /\ ReplyTo(pending[c], "ack", full) /\ "ack" \in Codes
    BY <1>7 DEF VoteAck, Codes, TypeOK
  <2>1. SharedTypes'
    BY <1>7, <2>0, ReplyType DEF VoteAck, TypeOK, SharedTypes, room, wire
  <2>2. HandlerTypes'
    BY <1>7 DEF VoteAck, TypeOK, HandlerTypes, Running
  <2> QED
    BY <2>1, <2>2 DEF TypeOK, SharedTypes, HandlerTypes
<1>8. ASSUME NEW g \in Games, NEW full \in SUBSET RoomBots, GameRelays(g, full)
     PROVE  TypeOK'
  BY <1>8, DropType DEF GameRelays, TypeOK, Running, room, wire
<1>9. ASSUME NEW g \in Games, NEW full \in SUBSET RoomBots, GameGetsReply(g, full)
     PROVE  TypeOK'
  <2>1. CASE Len(outq[g]) < QueueLimit
    <3>1. Append(outq[g], Control) \in Seq(Subs \cup {Control})
      BY DEF TypeOK
    <3>2. SharedTypes'
      <4>1. outq' \in [Games -> Seq(Subs \cup {Control})]
        BY <1>9, <2>1, <3>1 DEF TypeOK, GameGetsReply, ToGame
      <4>2. conn' \in [Games \cup Bots -> ConnStates]
        BY <1>9, <2>1 DEF TypeOK, GameGetsReply, ToGame, ConnStates
      <4> QED
        BY <1>9, <2>1, <4>1, <4>2 DEF TypeOK, SharedTypes, GameGetsReply, ToGame, room
    <3>3. HandlerTypes'
      BY <1>9 DEF GameGetsReply, TypeOK, HandlerTypes, Running
    <3> QED
      BY <3>2, <3>3 DEF TypeOK, SharedTypes, HandlerTypes
  <2>2. CASE ~(Len(outq[g]) < QueueLimit)
    <3>1. GoOffline(g, Pendings, full)
      BY <1>9, <2>2 DEF GameGetsReply, ToGame
    <3>2. SharedTypes'
      BY <3>1, GoOfflineType, PendingsAreSubs
    <3>3. HandlerTypes'
      BY <1>9 DEF GameGetsReply, TypeOK, HandlerTypes, Running
    <3> QED
      BY <3>2, <3>3 DEF TypeOK, SharedTypes, HandlerTypes
  <2> QED
    BY <2>1, <2>2
<1>10. ASSUME NEW g \in Games, NEW full \in SUBSET RoomBots, GameFatal(g, full)
     PROVE  TypeOK'
  <2>1. CASE Len(outq[g]) < QueueLimit
    <3>1. Append(outq[g], Control) \in Seq(Subs \cup {Control})
      BY DEF TypeOK
    <3>2. SharedTypes'
      <4>1. outq' \in [Games -> Seq(Subs \cup {Control})]
        BY <1>10, <2>1, <3>1 DEF TypeOK, GameFatal, ToGame
      <4>2. conn' \in [Games \cup Bots -> ConnStates]
        BY <1>10, <2>1 DEF TypeOK, GameFatal, ToGame, ConnStates
      <4> QED
        BY <1>10, <2>1, <4>1, <4>2 DEF TypeOK, SharedTypes, GameFatal, ToGame, room
    <3>3. HandlerTypes'
      BY <1>10 DEF GameFatal, TypeOK, HandlerTypes, Running
    <3> QED
      BY <3>2, <3>3 DEF TypeOK, SharedTypes, HandlerTypes
  <2>2. CASE ~(Len(outq[g]) < QueueLimit)
    <3>1. GoOffline(g, Pendings, full)
      BY <1>10, <2>2 DEF GameFatal, ToGame
    <3>2. SharedTypes'
      BY <3>1, GoOfflineType, PendingsAreSubs
    <3>3. HandlerTypes'
      BY <1>10 DEF GameFatal, TypeOK, HandlerTypes, Running
    <3> QED
      BY <3>2, <3>3 DEF TypeOK, SharedTypes, HandlerTypes
  <2> QED
    BY <2>1, <2>2
<1>11. ASSUME NEW g \in Games, NEW full \in SUBSET RoomBots, GameLeaves(g, full)
     PROVE  TypeOK'
  <2>0. GoOffline(g, Pendings, full)
    BY <1>11 DEF GameLeaves
  <2>1. SharedTypes'
    BY <2>0, GoOfflineType, PendingsAreSubs
  <2>2. HandlerTypes'
    BY <1>11 DEF GameLeaves, TypeOK, HandlerTypes, Running
  <2> QED
    BY <2>1, <2>2 DEF TypeOK, SharedTypes, HandlerTypes
<1>12. ASSUME NEW g \in Games, WriterSkips(g)
     PROVE  TypeOK'
  BY <1>12 DEF WriterSkips, TypeOK, Running, room, wire
<1>13. ASSUME NEW g \in Games, WriterStarts(g)
     PROVE  TypeOK'
  BY <1>13 DEF WriterStarts, TypeOK, Running, room, wire
<1>14. ASSUME NEW g \in Games, WriterFinishes(g)
     PROVE  TypeOK'
  BY <1>14 DEF WriterFinishes, TypeOK, Running, room, wire
<1>15. ASSUME NEW b \in Bots, ConnectBot(b)
     PROVE  TypeOK'
  BY <1>15 DEF ConnectBot, TypeOK, Running, room, wire, ConnStates
<1>16. ASSUME NEW b \in Bots, BotWriterFails(b)
     PROVE  TypeOK'
  BY <1>16 DEF BotWriterFails, TypeOK, Running, room, wire, ConnStates, Closed
<1>17. ASSUME NEW b \in Bots, BotLeaves(b)
     PROVE  TypeOK'
  BY <1>17 DEF BotLeaves, TypeOK, Running, room, wire, ConnStates
<1>18. ASSUME NEW b \in Bots, NEW full \in SUBSET {b}, BotFatal(b, full)
     PROVE  TypeOK'
  BY <1>18 DEF BotFatal, TypeOK, Running, room, wire, ConnStates
<1>19. ASSUME NEW b \in Bots, NEW s \in Subs, NEW r \in Rounds, NEW i \in Instances,
              NEW full \in SUBSET {b}, CastRefused(b, s, r, i, full)
     PROVE  TypeOK'
  <2>1. DoorCode(r, i) \in Codes
    BY <1>19 DEF CastRefused, DoorCode, Codes
  <2> QED
    BY <1>19, <2>1, RefuseType DEF CastRefused, Receives
<1>20. ASSUME NEW b \in Bots, NEW s \in Subs, NEW full \in SUBSET {b}, CastTurnedAway(b, s, full)
     PROVE  TypeOK'
  <2>1. "turned_away" \in Codes
    BY DEF Codes
  <2> QED
    BY <1>20, <2>1, RefuseType DEF CastTurnedAway, Receives
<1>21. ASSUME NEW b \in Bots, NEW s \in Subs, NEW c \in CastIds, NEW v \in Voters,
              NEW r \in Rounds, NEW i \in Instances, CastAdmitted(b, s, c, v, r, i)
     PROVE  TypeOK'
  BY <1>21 DEF TypeOK, CastAdmitted, Receives, AfterReceive, DoorCode, ConnStates, Jobs, Running,
     room, wire
<1>22. ASSUME NEW s \in Subs, DbInserts(s)
     PROVE  TypeOK'
  BY <1>22 DEF DbInserts, TypeOK, Running, room, wire
<1>23. ASSUME NEW s \in Subs, DbRefuses(s)
     PROVE  TypeOK'
  BY <1>23 DEF DbRefuses, TypeOK, Running, room, wire
<1>24. ASSUME NEW s \in Subs, DbFails(s)
     PROVE  TypeOK'
  BY <1>24 DEF DbFails, TypeOK, Running, room, wire
<1>25. ASSUME NEW s \in Subs, ResumeForwards(s)
     PROVE  TypeOK'
  <2>0. game \in Games /\ Append(outq[game], s) \in Seq(Subs \cup {Control})
    BY <1>25 DEF ResumeForwards, Outdated, TypeOK, Running, Jobs
  <2>1. SharedTypes'
    BY <1>25, <2>0 DEF ResumeForwards, TypeOK, SharedTypes, room
  <2>2. HandlerTypes'
    BY <1>25 DEF ResumeForwards, TypeOK, HandlerTypes, Finish, Running
  <2> QED
    BY <2>1, <2>2 DEF TypeOK, SharedTypes, HandlerTypes
<1>26. ASSUME NEW s \in Subs, NEW full \in SUBSET RoomBots, ResumeDuplicate(s, full)
     PROVE  TypeOK'
  <2>0. ReplyTo(s, "duplicate_vote", full) /\ "duplicate_vote" \in Codes
    BY <1>26 DEF ResumeDuplicate, Codes
  <2>1. SharedTypes'
    BY <1>26, <2>0, ReplyType DEF ResumeDuplicate, TypeOK, SharedTypes, room, wire
  <2>2. HandlerTypes'
    BY <1>26 DEF ResumeDuplicate, TypeOK, HandlerTypes, Finish, Running
  <2> QED
    BY <2>1, <2>2 DEF TypeOK, SharedTypes, HandlerTypes
<1>27. ASSUME NEW s \in Subs, NEW full \in SUBSET RoomBots, ResumeOutdated(s, full)
     PROVE  TypeOK'
  <2>0. ReplyTo(s, "stale", full) /\ "stale" \in Codes
    BY <1>27 DEF ResumeOutdated, Codes
  <2>1. SharedTypes'
    BY <1>27, <2>0, ReplyType DEF ResumeOutdated, TypeOK, SharedTypes, room, wire
  <2>2. HandlerTypes'
    BY <1>27 DEF ResumeOutdated, TypeOK, HandlerTypes, Finish, Running
  <2> QED
    BY <2>1, <2>2 DEF TypeOK, SharedTypes, HandlerTypes
<1>28. ASSUME NEW s \in Subs, NEW full \in SUBSET RoomBots, ResumeBroken(s, full)
     PROVE  TypeOK'
  BY <1>28 DEF ResumeBroken, TypeOK, Running, room, wire, Finish, Drop, Closed, ConnStates
<1>29. ASSUME NEW s \in Subs, NEW full \in SUBSET RoomBots, ResumeOverflows(s, full)
     PROVE  TypeOK'
  <2>0. game \in Games /\ GoOffline(game, Pendings \cup {s}, full)
    BY <1>29 DEF ResumeOverflows, Outdated, TypeOK, Running, Jobs
  <2>1. SharedTypes'
    BY <2>0, PendingsAreSubs, GoOfflineType
  <2>2. HandlerTypes'
    BY <1>29 DEF ResumeOverflows, TypeOK, HandlerTypes, Finish, Running
  <2> QED
    BY <2>1, <2>2 DEF TypeOK, SharedTypes, HandlerTypes
<1>30. ASSUME NEW s \in Subs, DeadlinePasses(s)
     PROVE  TypeOK'
  BY <1>30 DEF DeadlinePasses, TypeOK, Running, room, wire, Pendings
<1>31. ASSUME NEW full \in SUBSET RoomBots, Sweep(full)
     PROVE  TypeOK'
  <2>0. /\ Resolve(Pendings \cap overdue, "result_unknown", full)
        /\ "result_unknown" \in Codes
        /\ Pendings \cap overdue \in SUBSET Subs
    BY <1>31, PendingsAreSubs DEF Sweep, Codes
  <2>1. SharedTypes'
    BY <1>31, <2>0, ResolveType, DropType DEF Sweep, TypeOK, SharedTypes, room, wire
  <2>2. HandlerTypes'
    BY <1>31 DEF Sweep, TypeOK, HandlerTypes, Running
  <2> QED
    BY <2>1, <2>2 DEF TypeOK, SharedTypes, HandlerTypes
<1>32. CASE Restart
  <2>1. SharedTypes'
    <3>1. conn' \in [Games \cup Bots -> ConnStates]
      BY <1>32 DEF Restart, TypeOK, ConnStates
    <3>2. outq' \in [Games -> Seq(Subs \cup {Control})]
      BY <1>32 DEF Restart
    <3>3. active' \in 0 .. MaxRound /\ lastClosed' \in 0 .. MaxRound
      BY <1>32, BoundAssumption DEF Restart
    <3>4. /\ pending' \in [CastIds -> Subs \cup {None}]
          /\ sending' \in [Games -> Subs \cup {Control, None}]
      BY <1>32 DEF Restart
    <3> QED
      BY <1>32, <3>1, <3>2, <3>3, <3>4 DEF Restart, TypeOK, SharedTypes
  <2>2. HandlerTypes'
    BY <1>32 DEF Restart, TypeOK, HandlerTypes, Running
  <2> QED
    BY <2>1, <2>2 DEF TypeOK, SharedTypes, HandlerTypes
<1> QED
  BY <1>1, <1>2, <1>3, <1>4, <1>5, <1>6, <1>7, <1>8, <1>9, <1>10, <1>11, <1>12, <1>13, <1>14, <1>15, <1>16, <1>17, <1>18, <1>19, <1>20, <1>21, <1>22, <1>23, <1>24, <1>25, <1>26, <1>27, <1>28, <1>29, <1>30, <1>31, <1>32
     DEF Next, GameActs, WriterActs, BotActs, DbActs, Resume, SweepActs

=============================================================================
