------------------------- MODULE VoteRelayTheorems -------------------------
(***************************************************************************)
(* What the vote relay guarantees for any number of games, bots, votes,    *)
(* rounds and instances, and any bounds.                                   *)
(***************************************************************************)
EXTENDS VoteRelayInvariants

-----------------------------------------------------------------------------
(* The inductive invariant *)

\* It holds when the process starts on an empty database.
LEMMA InductiveInit ==
  ASSUME Init
  PROVE  Inductive
<1> USE DistinctAssumption DEF Init
<1>1. TypeOK
  <2>1. /\ outq \in [Games -> Seq(Subs \cup {Control})]
        /\ answers \in [Subs -> Seq(Codes)]
    OBVIOUS
  <2>2. active \in 0 .. MaxRound /\ lastClosed \in 0 .. MaxRound
    BY BoundAssumption
  <2>3. conn \in [Games \cup Bots -> ConnStates]
    BY DEF ConnStates
  <2>4. \A s \in Subs : ~Running(s)
    BY DEF Running
  <2> QED
    BY <2>1, <2>2, <2>3, <2>4 DEF TypeOK
<1>2. RoomPart
  BY DEF RoomPart, Live
<1>3. HandlerPart
  BY DEF HandlerPart, Running
<1>4. PendingPart
  BY DEF PendingPart
<1>5. QueuePart
  BY DEF QueuePart
<1>6. RowPart
  BY DEF RowPart
<1>7. VerdictPart
  BY DEF VerdictPart, OneVerdict, RefusedNeverSent, AckedWasSent
<1> QED
  BY <1>1, <1>2, <1>3, <1>4, <1>5, <1>6, <1>7 DEF Inductive

\* Every step of the relay keeps it.
LEMMA InductiveStep ==
  ASSUME Inductive, [Next]_vars
  PROVE  Inductive'
<1>1. CASE Next
  <2>1. TypeOK'
    BY <1>1, TypeStep DEF Inductive
  <2> QED
    BY <1>1, <2>1, RoomStep, HandlerStep, PendingStep, QueueStep, RowPartStep, VerdictStep
       DEF Inductive
<1>2. CASE UNCHANGED vars
  <2>1. TypeOK'
    BY <1>2 DEF vars, room, wire, Inductive, TypeOK, Running
  <2>2. RoomPart' /\ PendingPart' /\ QueuePart'
    BY <1>2 DEF vars, room, wire, Inductive, RoomPart, Live, PendingPart, QueuePart
  <2>3. HandlerPart' /\ RowPart'
    BY <1>2 DEF vars, room, wire, Inductive, HandlerPart, Running, RowPart, Conflict
  <2>4. VerdictPart'
    BY <1>2 DEF vars, Inductive, VerdictPart, OneVerdict, RefusedNeverSent, AckedWasSent
  <2> QED
    BY <2>1, <2>2, <2>3, <2>4 DEF Inductive
<1> QED
  BY <1>1, <1>2

\* The invariant all results rest on: types, the state of the room, what the
\* suspended handlers remember, what is pending, queued, reserved and answered.
THEOREM InductiveCorrect == Spec => []Inductive
BY InductiveInit, InductiveStep, PTL DEF Spec

\* Type correctness: every variable always holds a value the program can hold.
THEOREM TypeCorrect == Spec => []TypeOK
<1>1. Inductive => TypeOK
  BY DEF Inductive
<1> QED
  BY <1>1, InductiveCorrect, PTL

-----------------------------------------------------------------------------
(* Safety *)

\* The room's game is open: no path that closes it forgets to take the room offline.
THEOREM GameSessionLiveCorrect == Spec => []GameSessionLive
<1>1. Inductive => GameSessionLive
  BY DistinctAssumption DEF Inductive, TypeOK, RoomPart, GameSessionLive
<1> QED
  BY <1>1, InductiveCorrect, PTL

\* A vote that waits for its ACK belongs to the room as it is now.
THEOREM PendingIsCurrentCorrect == Spec => []PendingIsCurrent
<1>1. Inductive => PendingIsCurrent
  BY DEF Inductive, PendingPart, PendingIsCurrent
<1> QED
  BY <1>1, InductiveCorrect, PTL

\* Only reserved votes are sent, and no two sent votes share a cast id, or a
\* voter, round and instance: also across reconnections and restarts.
THEOREM ForwardedOnceCorrect == Spec => []ForwardedOnce
<1>1. Inductive => ForwardedOnce
  BY DEF Inductive, RowPart, ForwardedOnce
<1> QED
  BY <1>1, InductiveCorrect, PTL

\* A submission gets one verdict at most, from whatever ends it.
THEOREM OneVerdictCorrect == Spec => []OneVerdict
<1>1. Inductive => OneVerdict
  BY DEF Inductive, VerdictPart
<1> QED
  BY <1>1, InductiveCorrect, PTL

\* A vote that was refused as not sent is never handed to the game's socket.
THEOREM RefusedNeverSentCorrect == Spec => []RefusedNeverSent
<1>1. Inductive => RefusedNeverSent
  BY DEF Inductive, VerdictPart
<1> QED
  BY <1>1, InductiveCorrect, PTL

\* An acknowledged vote had been handed to the game's socket.
THEOREM AckedWasSentCorrect == Spec => []AckedWasSent
<1>1. Inductive => AckedWasSent
  BY DEF Inductive, VerdictPart
<1> QED
  BY <1>1, InductiveCorrect, PTL

-----------------------------------------------------------------------------
(* Sending *)

\* Only the writer puts a frame on the wire, and it takes the head of the queue.
LEMMA WireChanges ==
  ASSUME Inductive, Next, NEW g \in Games
  PROVE  sending'[g] = sending[g] \/ sending'[g] = None \/ WriterStarts(g)
<1> USE DEF Inductive, TypeOK, wire, room
<1>1. ASSUME NEW h \in Games, GameActs(h)
      PROVE  sending'[g] = sending[g] \/ sending'[g] = None
  BY <1>1 DEF GameActs, RegisterGame, RefuseGame, RejectedGameLeaves, GameSync, VoteOpened,
     VoteClosed, VoteAck, GameRelays, GameGetsReply, GameFatal, GameLeaves, ToGame, GoOffline
<1>2. ASSUME NEW h \in Games, WriterActs(h)
      PROVE  sending'[g] = sending[g] \/ sending'[g] = None \/ WriterStarts(g)
  BY <1>2 DEF WriterActs, WriterSkips, WriterStarts, WriterFinishes
<1>3. ASSUME NEW b \in Bots, BotActs(b)
      PROVE  sending' = sending
  BY <1>3 DEF BotActs, ConnectBot, BotWriterFails, BotLeaves, BotFatal, CastRefused, CastTurnedAway,
     Refuse, CastAdmitted
<1>4. ASSUME NEW s \in Subs, DbActs(s) \/ Resume(s) \/ DeadlinePasses(s)
      PROVE  sending'[g] = sending[g] \/ sending'[g] = None
  BY <1>4 DEF DbActs, DbInserts, DbRefuses, DbFails, Resume, ResumeForwards, ResumeDuplicate,
     ResumeOutdated, ResumeBroken, ResumeOverflows, DeadlinePasses, GoOffline
<1>5. ASSUME SweepActs \/ Restart
      PROVE  sending'[g] = sending[g] \/ sending'[g] = None
  BY <1>5 DEF SweepActs, Sweep, Restart
<1> QED
  BY <1>1, <1>2, <1>3, <1>4, <1>5 DEF Next

\* A vote the writer starts on is valid, has not been started before, and is
\* reserved, pending and still without a verdict.
LEMMA SentVote ==
  ASSUME Inductive, NEW g \in Games, WriterStarts(g), Head(outq[g]) # Control
  PROVE  LET s == Head(outq[g])
         IN  /\ s \in Subs \ attempted
             /\ s \in reserved
             /\ answers[s] = <<>>
             /\ game = g /\ ready
             /\ job[s].round = active
             /\ job[s].instance = InstanceOf[g]
<1> DEFINE s == Head(outq[g])
<1>1. outq[g] # <<>> /\ Valid(s, g)
  BY DEF WriterStarts
<1>2. s \in Subs /\ job[s] \in Jobs /\ job[s].game = g /\ s \notin attempted
  BY <1>1, HeadOfQueue
<1>3. pending[job[s].cast] = s /\ job[s].cast \in CastIds /\ s # None /\ game = g
  BY <1>1, <1>2, DistinctAssumption DEF Valid, Jobs
<1>4. s \in reserved /\ answers[s] = <<>> /\ ready /\ job[s].round = active
  BY <1>3 DEF Inductive, PendingPart
<1>5. job[s].instance = InstanceOf[g]
  BY <1>2, DistinctAssumption DEF Inductive, HandlerPart
<1> QED
  BY <1>2, <1>3, <1>4, <1>5

\* When a vote appears on the wire, the writer has just started on it.
LEMMA StartOfSending ==
  ASSUME Inductive, Next, NEW g \in Games, NEW s \in Subs, sending'[g] = s, sending[g] # s
  PROVE  WriterStarts(g) /\ s = Head(outq[g]) /\ s # Control
<1>1. WriterStarts(g)
  BY WireChanges, DistinctAssumption
<1> QED
  BY <1>1, DistinctAssumption DEF WriterStarts, Inductive, TypeOK

\* A vote leaves for the game only in the round, readiness and instance the bot named.
THEOREM SendsOnlyCurrentCorrect == Spec => SendsOnlyCurrent
<1> DEFINE A == \A g \in Games, s \in Subs :
                  sending'[g] = s /\ sending[g] # s =>
                    /\ game = g /\ ready
                    /\ job[s].round = active
                    /\ job[s].instance = InstanceOf[g]
<1>1. ASSUME Inductive, Next
      PROVE  A
  BY <1>1, StartOfSending, SentVote
<1>2. Inductive /\ [Next]_vars => [A]_vars
  BY <1>1
<1> QED
  BY <1>2, InductiveCorrect, PTL DEF Spec, SendsOnlyCurrent

\* No vote leaves for a game twice.
THEOREM NeverResentCorrect == Spec => NeverResent
<1> DEFINE A == \A g \in Games, s \in Subs :
                  sending'[g] = s /\ sending[g] # s => s \notin attempted
<1>1. ASSUME Inductive, Next
      PROVE  A
  BY <1>1, StartOfSending, SentVote
<1>2. Inductive /\ [Next]_vars => [A]_vars
  BY <1>1
<1> QED
  BY <1>2, InductiveCorrect, PTL DEF Spec, NeverResent

-----------------------------------------------------------------------------
(* The relay implements VotePromise *)

\* A step gives each submission at most one verdict, and takes none back.
LEMMA AnswersGrow ==
  ASSUME Inductive, Next, NEW s \in Subs
  PROVE  answers'[s] = answers[s] \/ \E c \in Codes : answers'[s] = Append(answers[s], c)
<1> DEFINE Grows == answers'[s] = answers[s] \/ \E c \in Codes : answers'[s] = Append(answers[s], c)
<1> USE DEF Inductive, TypeOK, wire, room
<1>1. ASSUME NEW S, NEW code \in Codes, NEW full, answers' = Answered(S, code, full)
      PROVE  Grows
  <2>1. VerdictFor(s, code) \in Codes
    BY DEF VerdictFor, Codes
  <2> QED
    BY <1>1, <2>1 DEF Answered
<1>2. ASSUME NEW t \in Subs, NEW code \in Codes, NEW full, ReplyTo(t, code, full)
      PROVE  Grows
  BY <1>2 DEF ReplyTo
<1>3. ASSUME NEW b, NEW t \in Subs, NEW code \in Codes, NEW full, Refuse(b, t, code, full)
      PROVE  Grows
  BY <1>3 DEF Refuse
<1>4. ASSUME NEW g, NEW S, NEW full, GoOffline(g, S, full)
      PROVE  Grows
  <2>1. "game_offline" \in Codes
    BY DEF Codes
  <2> QED
    BY <1>1, <1>4, <2>1 DEF GoOffline, Resolve
<1>5. ASSUME NEW g \in Games, GameActs(g)
      PROVE  Grows
  <2>1. ASSUME NEW full, NEW r, NEW l, GameSync(g, r, l, full)
        PROVE  Grows
    BY <2>1, <1>1 DEF GameSync, Resolve, Codes
  <2>2. ASSUME NEW full, NEW r, VoteOpened(g, r, full)
        PROVE  Grows
    BY <2>2, <1>1 DEF VoteOpened, Resolve, Codes
  <2>3. ASSUME NEW full, VoteClosed(g, full)
        PROVE  Grows
    BY <2>3, <1>1 DEF VoteClosed, Resolve, Codes
  <2>4. ASSUME NEW full, NEW c \in CastIds, VoteAck(g, c, full)
        PROVE  Grows
    <3>1. pending[c] \in Subs /\ "ack" \in Codes
      BY <2>4 DEF VoteAck, Codes
    <3> QED
      BY <2>4, <3>1, <1>2 DEF VoteAck
  <2>5. ASSUME NEW full, NEW next, ToGame(g, next, full)
        PROVE  Grows
    BY <2>5, <1>4 DEF ToGame
  <2>6. ASSUME UNCHANGED answers
        PROVE  Grows
    BY <2>6
  <2> QED
    BY <1>4, <1>5, <2>1, <2>2, <2>3, <2>4, <2>5, <2>6
       DEF GameActs, RegisterGame, RefuseGame, RejectedGameLeaves, GameRelays, GameGetsReply,
           GameFatal, GameLeaves
<1>6. ASSUME NEW g \in Games, WriterActs(g)
      PROVE  Grows
  BY <1>6 DEF WriterActs, WriterSkips, WriterStarts, WriterFinishes
<1>7. ASSUME NEW b \in Bots, BotActs(b)
      PROVE  Grows
  <2>1. ASSUME NEW t \in Subs, NEW r, NEW i, NEW full, CastRefused(b, t, r, i, full)
        PROVE  Grows
    <3>1. DoorCode(r, i) \in Codes
      BY <2>1 DEF CastRefused, DoorCode, Codes
    <3> QED
      BY <2>1, <3>1, <1>3 DEF CastRefused
  <2>2. ASSUME NEW t \in Subs, NEW full, CastTurnedAway(b, t, full)
        PROVE  Grows
    BY <2>2, <1>3 DEF CastTurnedAway, Codes
  <2> QED
    BY <1>7, <2>1, <2>2 DEF BotActs, ConnectBot, BotWriterFails, BotLeaves, BotFatal, CastAdmitted
<1>8. ASSUME NEW t \in Subs, DbActs(t) \/ DeadlinePasses(t)
      PROVE  Grows
  BY <1>8 DEF DbActs, DbInserts, DbRefuses, DbFails, DeadlinePasses
<1>9. ASSUME NEW t \in Subs, Resume(t)
      PROVE  Grows
  <2>1. ASSUME NEW full, ResumeDuplicate(t, full) \/ ResumeOutdated(t, full)
        PROVE  Grows
    BY <2>1, <1>2 DEF ResumeDuplicate, ResumeOutdated, Codes
  <2>2. ASSUME NEW full, ResumeOverflows(t, full)
        PROVE  Grows
    BY <2>2, <1>4 DEF ResumeOverflows
  <2> QED
    BY <1>9, <2>1, <2>2 DEF Resume, ResumeForwards, ResumeBroken
<1>10. ASSUME SweepActs \/ Restart
       PROVE  Grows
  BY <1>10, <1>1 DEF SweepActs, Sweep, Resolve, Restart, Codes
<1> QED
  BY <1>5, <1>6, <1>7, <1>8, <1>9, <1>10 DEF Next

\* Verdicts given in a step that neither admits nor sends: the abstract Conclude.
LEMMA VerdictsConclude ==
  ASSUME Inductive, Inductive', Next, UNCHANGED <<job, attempted>>
  PROVE  Promise!Conclude
<1>1. ASSUME NEW s \in Subs
      PROVE  /\ answers'[s] \in {<<>>} \cup {<<c>> : c \in Refusals \cup {"ack", "result_unknown"}}
             /\ answers'[s] # answers[s] =>
                  /\ answers[s] = <<>>
                  /\ \E c \in Promise!Truthful(s) : answers'[s] = <<c>>
  <2>1. /\ answers[s] \in Seq(Codes) /\ answers'[s] \in Seq(Codes)
        /\ Len(answers[s]) <= 1 /\ Len(answers'[s]) <= 1
    BY DEF Inductive, TypeOK, VerdictPart, OneVerdict
  <2>2. CASE answers'[s] = answers[s]
    <3>1. answers[s] = <<>> \/ \E c \in Codes : answers[s] = <<c>>
      BY <2>1
    <3>2. Codes \subseteq Refusals \cup {"ack", "result_unknown"}
      BY DEF Codes, Refusals
    <3> QED
      BY <2>2, <3>1, <3>2
  <2>3. CASE answers'[s] # answers[s]
    <3>1. PICK c \in Codes : answers'[s] = Append(answers[s], c)
      BY <2>3, AnswersGrow
    <3>2. answers[s] = <<>> /\ answers'[s] = <<c>>
      <4>1. Len(Append(answers[s], c)) = Len(answers[s]) + 1
        BY <2>1
      <4>2. Len(answers[s]) = 0
        BY <2>1, <3>1, <4>1
      <4>3. answers[s] = <<>>
        BY <2>1, <4>2
      <4>4. Append(<<>>, c) = <<c>>
        OBVIOUS
      <4> QED
        BY <3>1, <4>3, <4>4
    <3>3. (s \in attempted => c \notin Refusals) /\ (s \notin attempted => c # "ack")
      <4>1. Fits(s)'
        BY VerdictsFit DEF Inductive, TypeOK, VerdictPart, OneVerdict, RefusedNeverSent,
           AckedWasSent, Fits
      <4>2. 1 \in 1 .. Len(answers'[s]) /\ answers'[s][1] = c
        BY <3>2
      <4> QED
        BY <4>1, <4>2 DEF Fits
    <3>4. c \in Promise!Truthful(s) /\ c \in Refusals \cup {"ack", "result_unknown"}
      BY <3>3 DEF Promise!Truthful, Refusals, Codes
    <3> QED
      BY <3>2, <3>4
  <2> QED
    BY <2>2, <2>3
<1>2. answers' \in [Subs -> {<<>>} \cup {<<c>> : c \in Refusals \cup {"ack", "result_unknown"}}]
  BY <1>1 DEF Inductive, TypeOK
<1> QED
  BY <1>1, <1>2 DEF Promise!Conclude, BallotOf

\* A vote that passes the door: the abstract Admit.
LEMMA CastAdmits ==
  ASSUME Inductive, NEW b \in Bots, NEW s \in Subs, NEW c \in CastIds, NEW v \in Voters,
         NEW r \in Rounds, NEW i \in Instances, CastAdmitted(b, s, c, v, r, i)
  PROVE  Promise!Admit(s)
<1> DEFINE before == [t \in Subs |-> IF job[t] = None THEN None ELSE BallotOf(job[t])]
           after == [t \in Subs |-> IF job'[t] = None THEN None ELSE BallotOf(job'[t])]
           mine == [cast |-> c, voter |-> v, round |-> r, instance |-> i]
<1>1. job[s] = None /\ answers[s] = <<>>
  BY DEF CastAdmitted, Receives, Inductive, HandlerPart
<1>2. game \in Games /\ generation \in Nat
  BY DEF CastAdmitted, DoorCode, Inductive, TypeOK
<1>3. job'[s] \in Jobs /\ BallotOf(job'[s]) = mine
  BY <1>2 DEF CastAdmitted, Jobs, BallotOf, Inductive, TypeOK
<1>4. job'[s] # None
  BY <1>3, DistinctAssumption
<1>5. \A t \in Subs : after[t] = [before EXCEPT ![s] = mine][t]
  BY <1>3, <1>4 DEF CastAdmitted, Inductive, TypeOK
<1>6. after = [before EXCEPT ![s] = mine]
  BY <1>5
<1>7. mine \in Ballots
  BY DEF Ballots
<1>8. UNCHANGED <<attempted, answers>>
  BY DEF CastAdmitted
<1> QED
  BY <1>1, <1>6, <1>7, <1>8 DEF Promise!Admit

\* The writer starting on a vote: the abstract Send.
LEMMA StartSends ==
  ASSUME Inductive, NEW g \in Games, WriterStarts(g), Head(outq[g]) # Control
  PROVE  Promise!Send(Head(outq[g]))
<1> DEFINE s == Head(outq[g])
<1>1. s \in Subs \ attempted /\ s \in reserved /\ answers[s] = <<>>
  BY SentVote
<1>2. attempted' = attempted \cup {s} /\ UNCHANGED <<job, answers>>
  BY DEF WriterStarts
<1>3. job[s] \in Jobs
  BY <1>1 DEF Inductive, TypeOK, RowPart
<1>4. BallotOf(job[s]) \in Ballots
  BY <1>3 DEF BallotOf, Ballots, Jobs
<1>5. job[s] # None /\ BallotOf(job[s]) # None
  BY <1>3, <1>4, DistinctAssumption
<1>6. ASSUME NEW t \in attempted
      PROVE  t \in Subs /\ job[t] # None /\ ~Promise!Rivals(BallotOf(job[s]), BallotOf(job[t]))
  <2>1. t \in reserved /\ t \in Subs /\ t # s
    BY <1>1, <1>6 DEF Inductive, RowPart, TypeOK
  <2>2. ~Conflict(s, t) /\ job[t] # None
    BY <1>1, <2>1 DEF Inductive, RowPart
  <2> QED
    BY <2>1, <2>2 DEF Promise!Rivals, BallotOf, Conflict
<1> QED
  BY <1>1, <1>2, <1>5, <1>6 DEF Promise!Send

\* Every step of the relay is a step of the promise, or changes nothing in it.
LEMMA PromiseStep ==
  ASSUME Inductive, Inductive', [Next]_vars
  PROVE  [Promise!Next]_(Promise!vars)
<1>1. CASE UNCHANGED vars
  BY <1>1 DEF vars, Promise!vars
<1>2. ASSUME Next, UNCHANGED <<job, attempted>>
      PROVE  Promise!Next
  BY <1>2, VerdictsConclude DEF Promise!Next
<1>3. ASSUME NEW b \in Bots, NEW s \in Subs, NEW c \in CastIds, NEW v \in Voters,
             NEW r \in Rounds, NEW i \in Instances, CastAdmitted(b, s, c, v, r, i)
      PROVE  Promise!Next
  <2>1. Promise!Admit(s)
    BY <1>3, CastAdmits
  <2> QED
    BY <2>1 DEF Promise!Next
<1>4. ASSUME NEW g \in Games, WriterStarts(g), Head(outq[g]) # Control
      PROVE  Promise!Next
  <2>1. Promise!Send(Head(outq[g])) /\ Head(outq[g]) \in Subs
    BY <1>4, StartSends, SentVote
  <2> QED
    BY <2>1 DEF Promise!Next
<1>5. ASSUME NEW g \in Games, WriterStarts(g), Head(outq[g]) = Control
      PROVE  UNCHANGED <<job, attempted>>
  BY <1>5 DEF WriterStarts
<1>6. ASSUME NEW s \in Subs, DbInserts(s)
      PROVE  UNCHANGED <<job, attempted>>
  BY <1>6 DEF DbInserts
<1> QED
  BY <1>1, <1>2, <1>3, <1>4, <1>5, <1>6, RowChanges

\* The relay implements the abstract specification of the votes.
THEOREM PromiseKept == Spec => KeepsPromise
<1>1. Init => Promise!Init
  BY DEF Init, Promise!Init
<1> QED
  BY <1>1, InductiveCorrect, PromiseStep, PTL DEF Spec, KeepsPromise, Promise!Spec
=============================================================================
