----------------------------- MODULE AuditStore -----------------------------
(***************************************************************************)
(* The audit of votes and messages (server/storage.py) and the hub calls   *)
(* that feed it.  A vote's row is inserted and committed before the vote   *)
(* goes anywhere; what becomes of it is queued, and one worker task writes *)
(* the queue to SQLite in batches, one transaction each.  The queue is     *)
(* bounded and lives in memory: what does not fit, what a failed batch     *)
(* held, and what a crash finds in it, is lost.                            *)
(*                                                                         *)
(* The SQLite lock is held while a batch is written, so the only other     *)
(* user of the connection, the INSERT of a vote, cannot fall in between.   *)
(*                                                                         *)
(* VoteRelay says when the hub decides something about a vote.  Here only  *)
(* the order of the decisions about one vote is kept.                      *)
(*                                                                         *)
(* An operator marked "Mutant" is not part of the specification: put in    *)
(* place of the definition below it, it must break the property it names.  *)
(***************************************************************************)
EXTENDS Naturals, Sequences, FiniteSets

CONSTANTS
  Casts,       \* votes, by cast_id
  Messages,    \* accepted messages that are not heartbeats
  MessageIds,  \* their client-chosen message_id values
  IdOf,        \* the message_id of a message
  QueueLimit,  \* Settings.audit_queue_size
  BatchLimit,  \* at most so many jobs in one transaction (100 in the code)
  MaxAcks,     \* bound: vote.acks the game sends
  MaxRestarts, \* bound: restarts of the process
  None         \* "no vote"

ASSUME IdAssumption == IdOf \in [Messages -> MessageIds]

ASSUME LimitAssumption ==
  /\ QueueLimit \in Nat \ {0}
  /\ BatchLimit \in Nat \ {0}
  /\ MaxAcks \in Nat
  /\ MaxRestarts \in Nat

ASSUME CastAssumption == None \notin Casts /\ IsFiniteSet(Casts)

\* Verdicts of the game; outcomes the hub found by itself.
Verdicts == {"accepted", "rejected"}
Outcomes == {"unknown", "not_sent"}
\* "restart" stands for unknown:restart, "absent" for no row.
Statuses == {"absent", "reserved", "forwarded", "restart"} \cup Verdicts \cup Outcomes

\* Queued jobs: _status of a vote, and record_event of a message.
StatusJobs == [cast : Casts, status : {"forwarded"} \cup Verdicts \cup Outcomes]
EventJobs == [message : Messages]
AuditJobs == StatusJobs \cup EventJobs

VARIABLES
  status,    \* vote_attempts.status, as committed
  events,    \* messages in the events table, as committed
  draft,     \* what the open transaction has made of both tables
  queue,     \* AuditStore._queue
  batch,     \* the jobs the worker holds
  worker,    \* what it is doing
  written,   \* how many of them are executed in the open transaction
  stage,     \* "running", "closing" (AuditStore._closing) or "closed"
  saved,     \* votes whose handler waits for, or returns from, record_vote
  pending,   \* votes in pending_casts
  writing,   \* the vote in send_text, or None
  sent,      \* history: votes whose sending started
  said,      \* history: what the hub decided to record of each vote
  handled,   \* history: messages handled
  lost,      \* history: votes and messages counted in dropped and failures, or crashed away
  acks,      \* bound: vote.acks so far
  restarts   \* bound: restarts so far

tables == <<status, events>>
transaction == <<draft, batch, worker, written>>
votes == <<saved, pending, writing, sent>>
bounds == <<acks, restarts>>
vars == <<tables, transaction, votes, bounds, queue, stage, said, handled, lost>>

-----------------------------------------------------------------------------
(* Helpers *)

\* No transaction is open.
NoDraft == [status |-> [c \in Casts |-> "absent"], events |-> {}]

\* The transaction ends and the worker turns to the queue again.
EndBatch == worker' = "idle" /\ batch' = <<>> /\ written' = 0 /\ draft' = NoDraft

Subject(j) == IF j \in EventJobs THEN j.message ELSE j.cast

SubjectsOf(seq) == {Subject(seq[k]) : k \in 1 .. Len(seq)}

\* Mutant: the queue takes one job too many (TypeOK).
EnqueueTooMany(seq) ==
  LET all == queue \o seq
  IN  IF Len(all) <= QueueLimit + 1
      THEN queue' = all /\ lost' = lost
      ELSE /\ queue' = SubSeq(all, 1, QueueLimit + 1)
           /\ lost' = lost \cup SubjectsOf(SubSeq(all, QueueLimit + 2, Len(all)))

\* _enqueue of several jobs in a row: the queue keeps what fits, the rest is
\* dropped and counted.
EnqueueAll(seq) ==
  LET all == queue \o seq
  IN  IF Len(all) <= QueueLimit
      THEN queue' = all /\ lost' = lost
      ELSE /\ queue' = SubSeq(all, 1, QueueLimit)
           /\ lost' = lost \cup SubjectsOf(SubSeq(all, QueueLimit + 1, Len(all)))

Job(c, value) == [cast |-> c, status |-> value]

Says(S, value(_)) ==
  said' = [c \in Casts |-> IF c \in S THEN said[c] \cup {value(c)} ELSE said[c]]

\* _status of one vote.
Records(c, value) ==
  LET V(d) == value
  IN  EnqueueAll(<<Job(c, value)>>) /\ Says({c}, V)

\* Mutant: the outcome does not look at pending.attempted (StatusTruthful).
OutcomeBlind(c) == "not_sent"

\* The status _resolve queues.
OutcomeOf(c) == IF c \in sent THEN "unknown" ELSE "not_sent"

Orders(S) == {f \in [1 .. Cardinality(S) -> S] : \A c \in S : \E k \in DOMAIN f : f[k] = c}

\* _resolve of the votes S, one after the other.
Settle(S) ==
  /\ pending' = pending \ S
  /\ \E f \in Orders(S) : EnqueueAll([k \in 1 .. Cardinality(S) |-> Job(f[k], OutcomeOf(f[k]))])
  /\ Says(S, OutcomeOf)

\* Mutant: the UPDATE has no condition on the old status (Reconciled).
OverwritesAlways(new, old) == old # "absent"

\* The WHERE clause of the UPDATE: a verdict of the game is never overwritten
\* by an outcome, and "forwarded" only follows "reserved".
Overwrites(new, old) ==
  /\ old # "absent"
  /\ new = "forwarded" => old = "reserved"
  /\ new \in Outcomes => old \notin Verdicts

\* INSERT OR IGNORE under UNIQUE(room_id, message_id).
Recordable(m, table) == \A e \in table : IdOf[e] # IdOf[m]

-----------------------------------------------------------------------------
(* Hub: decisions about votes *)

\* _record_vote_sync: INSERT and commit, under the lock.
RecordVote(c) ==
  /\ stage # "closed"
  /\ status[c] = "absent"
  /\ worker # "writing"
  /\ status' = [status EXCEPT ![c] = "reserved"]
  /\ saved' = saved \cup {c}
  /\ UNCHANGED <<events, transaction, queue, stage, pending, writing, sent, said, handled, lost, bounds>>

\* The handler finds the room changed.  While the store is closing, _enqueue
\* raises and the row stays as it is.
GivesUp(c) ==
  /\ c \in saved
  /\ saved' = saved \ {c}
  /\ IF stage = "running" THEN Records(c, "not_sent") ELSE UNCHANGED <<queue, said, lost>>
  /\ UNCHANGED <<tables, transaction, stage, pending, writing, sent, handled, bounds>>

\* The handler queues the vote for the game.
Waits(c) ==
  /\ stage = "running"
  /\ c \in saved
  /\ saved' = saved \ {c}
  /\ pending' = pending \cup {c}
  /\ UNCHANGED <<tables, transaction, queue, stage, writing, sent, said, handled, lost, bounds>>

StartsSending(c) ==
  /\ c \in pending
  /\ c \notin sent
  /\ writing = None
  /\ writing' = c
  /\ sent' = sent \cup {c}
  /\ UNCHANGED <<tables, transaction, queue, stage, saved, pending, said, handled, lost, bounds>>

\* on_sent.  The vote may have been settled, or acknowledged, meanwhile.
Sent(c) ==
  /\ writing = c
  /\ writing' = None
  /\ Records(c, "forwarded")
  /\ UNCHANGED <<tables, transaction, stage, saved, pending, sent, handled, bounds>>

\* The sweeper, a sync, a new round or a closed round settles waiting votes.
Settles(S) ==
  /\ S # {}
  /\ Settle(S)
  /\ UNCHANGED <<tables, transaction, stage, saved, writing, sent, handled, bounds>>

\* The game goes: a vote in send_text is abandoned, on_sent does not run.
GameDrops ==
  /\ stage = "running"
  /\ pending # {} \/ writing # None
  /\ writing' = None
  /\ Settle(pending)
  /\ UNCHANGED <<tables, transaction, stage, saved, sent, handled, bounds>>

\* vote.ack: the vote may wait for it, or have been settled, acknowledged or
\* forgotten by a restart before.  The game acknowledges only votes it was sent.
Acked(c, verdict) ==
  /\ stage = "running"
  /\ acks < MaxAcks
  /\ acks' = acks + 1
  /\ c \in sent
  /\ pending' = pending \ {c}
  /\ Records(c, verdict)
  /\ UNCHANGED <<tables, transaction, stage, saved, writing, sent, handled, restarts>>

\* record_event of an accepted message.
RecordEvent(m) ==
  /\ stage = "running"
  /\ m \notin handled
  /\ handled' = handled \cup {m}
  /\ EnqueueAll(<<[message |-> m]>>)
  /\ UNCHANGED <<tables, transaction, votes, stage, said, bounds>>

-----------------------------------------------------------------------------
(* Worker: AuditStore._run *)

\* Mutant: the worker waits for a full batch (QueueDrains).
TakeFirstOfMany ==
  /\ worker = "idle"
  /\ Len(queue) >= BatchLimit
  /\ batch' = <<Head(queue)>>
  /\ queue' = Tail(queue)
  /\ worker' = "collecting"
  /\ UNCHANGED <<tables, draft, written, votes, stage, said, handled, lost, bounds>>

TakeFirst ==
  /\ worker = "idle"
  /\ queue # <<>>
  /\ batch' = <<Head(queue)>>
  /\ queue' = Tail(queue)
  /\ worker' = "collecting"
  /\ UNCHANGED <<tables, draft, written, votes, stage, said, handled, lost, bounds>>

\* The coalescing window is over: whatever came meanwhile joins the batch, and
\* the thread opens the transaction.
Collect ==
  /\ worker = "collecting"
  /\ LET room == BatchLimit - 1
         n == IF Len(queue) < room THEN Len(queue) ELSE room
     IN  /\ batch' = batch \o SubSeq(queue, 1, n)
         /\ queue' = SubSeq(queue, n + 1, Len(queue))
  /\ worker' = "writing"
  /\ written' = 0
  /\ draft' = [status |-> status, events |-> events]
  /\ UNCHANGED <<tables, votes, stage, said, handled, lost, bounds>>

ExecuteJob ==
  /\ worker = "writing"
  /\ written < Len(batch)
  /\ written' = written + 1
  /\ LET j == batch[written + 1]
     IN  IF j \in EventJobs
         THEN draft' = [draft EXCEPT !.events =
                          IF Recordable(j.message, @) THEN @ \cup {j.message} ELSE @]
         ELSE draft' = [draft EXCEPT !.status[j.cast] =
                          IF Overwrites(j.status, @) THEN j.status ELSE @]
  /\ UNCHANGED <<tables, batch, worker, queue, votes, stage, said, handled, lost, bounds>>

CommitBatch ==
  /\ worker = "writing"
  /\ written = Len(batch)
  /\ status' = draft.status
  /\ events' = draft.events
  /\ EndBatch
  /\ UNCHANGED <<queue, votes, stage, said, handled, lost, bounds>>

\* Mutant: the error ends the worker task (CloseEnds).
BatchKillsWorker ==
  /\ worker = "writing"
  /\ worker' = "ended" /\ batch' = <<>> /\ written' = 0 /\ draft' = NoDraft
  /\ lost' = lost \cup SubjectsOf(batch)
  /\ UNCHANGED <<tables, queue, votes, stage, said, handled, bounds>>

\* Any SQLite error rolls the whole batch back; it is counted, not retried.
BatchFails ==
  /\ worker = "writing"
  /\ EndBatch
  /\ lost' = lost \cup SubjectsOf(batch)
  /\ UNCHANGED <<tables, queue, votes, stage, said, handled, bounds>>

-----------------------------------------------------------------------------
(* Shutdown and restart *)

\* aclose, which Hub.close calls after every connection was dropped.
BeginClose ==
  /\ stage = "running"
  /\ pending = {} /\ writing = None
  /\ stage' = "closing"
  /\ UNCHANGED <<tables, transaction, votes, queue, said, handled, lost, bounds>>

\* Mutant: the file is closed without joining the queue (CleanExit).
EndCloseAtOnce ==
  /\ stage = "closing"
  /\ worker = "idle"
  /\ stage' = "closed"
  /\ UNCHANGED <<tables, transaction, votes, queue, said, handled, lost, bounds>>

\* The queue is joined, the worker took the end marker, the database is closed.
EndClose ==
  /\ stage = "closing"
  /\ queue = <<>> /\ worker = "idle"
  /\ stage' = "closed"
  /\ UNCHANGED <<tables, transaction, votes, queue, said, handled, lost, bounds>>

\* Mutant: every row of the last process is marked (VerdictSticks).
RecoveredAll(value) == IF value = "absent" THEN value ELSE "restart"

\* The UPDATE in __init__: rows left open by the last process.
Recovered(value) == IF value \in {"reserved", "forwarded"} THEN "restart" ELSE value

\* The process ends, by a crash or after closing, and a new one opens the file.
Restart ==
  /\ restarts < MaxRestarts
  /\ restarts' = restarts + 1
  /\ status' = [c \in Casts |-> Recovered(status[c])]
  /\ queue' = <<>> /\ EndBatch
  /\ lost' = lost \cup SubjectsOf(queue) \cup SubjectsOf(batch)
  /\ stage' = "running"
  /\ saved' = {} /\ pending' = {} /\ writing' = None
  /\ UNCHANGED <<events, sent, said, handled, acks>>

Init ==
  /\ status = [c \in Casts |-> "absent"]
  /\ events = {}
  /\ draft = NoDraft
  /\ queue = <<>> /\ batch = <<>> /\ worker = "idle" /\ written = 0
  /\ stage = "running"
  /\ saved = {} /\ pending = {} /\ writing = None /\ sent = {}
  /\ said = [c \in Casts |-> {}]
  /\ handled = {} /\ lost = {}
  /\ acks = 0 /\ restarts = 0

HubActs ==
  \/ \E c \in Casts :
       \/ RecordVote(c)
       \/ GivesUp(c)
       \/ Waits(c)
       \/ StartsSending(c)
       \/ Sent(c)
       \/ \E verdict \in Verdicts : Acked(c, verdict)
  \/ \E S \in SUBSET pending : Settles(S)
  \/ GameDrops
  \/ \E m \in Messages : RecordEvent(m)

WorkerActs == TakeFirst \/ Collect \/ ExecuteJob \/ CommitBatch \/ BatchFails

Next == HubActs \/ WorkerActs \/ BeginClose \/ EndClose \/ Restart

Spec == Init /\ [][Next]_vars

-----------------------------------------------------------------------------
(* Properties *)

\* Every variable holds a value the program can hold.
TypeOK ==
  /\ status \in [Casts -> Statuses]
  /\ events \subseteq Messages
  /\ draft \in [status : [Casts -> Statuses], events : SUBSET Messages]
  /\ queue \in Seq(AuditJobs) /\ Len(queue) <= QueueLimit
  /\ batch \in Seq(AuditJobs) /\ Len(batch) <= BatchLimit
  /\ worker \in {"idle", "collecting", "writing"}
  /\ written \in Nat
  /\ stage \in {"running", "closing", "closed"}
  /\ saved \subseteq Casts /\ pending \subseteq Casts /\ sent \subseteq Casts
  /\ writing \in Casts \cup {None}
  /\ said \in [Casts -> SUBSET Statuses]
  /\ handled \subseteq Messages
  /\ lost \subseteq Casts \cup Messages
  /\ acks \in Nat /\ restarts \in Nat

\* The verdict of the game, once in the database, is never replaced by anything
\* but another verdict of the game: not by a delayed status, not by a restart.
VerdictSticks ==
  [][\A c \in Casts : status[c] \in Verdicts => status'[c] \in Verdicts]_vars

\* The audit never claims a vote was kept back when its sending had started, nor
\* that it was sent or may have been sent when it was not.
StatusTruthful ==
  \A c \in Casts :
    /\ status[c] = "not_sent" => c \notin sent
    /\ status[c] \in {"forwarded", "unknown"} => c \in sent

\* Jobs about vote c that are still on their way to the database.
OnItsWay(c) ==
  \/ \E k \in 1 .. Len(queue) : queue[k] \notin EventJobs /\ queue[k].cast = c
  \/ \E k \in 1 .. Len(batch) : batch[k] \notin EventJobs /\ batch[k].cast = c

\* When nothing about a vote is on its way and nothing was lost, its row tells
\* how it ended, in whatever order the decisions came: a verdict of the game
\* before what the hub found out, and that before "forwarded".
Reconciled ==
  \A c \in Casts : status[c] # "absent" /\ c \notin lost /\ ~OnItsWay(c) =>
    IF said[c] \cap Verdicts # {} THEN status[c] \in said[c] \cap Verdicts
    ELSE IF said[c] \cap Outcomes # {} THEN status[c] \in said[c] \cap Outcomes
    ELSE IF said[c] # {} THEN status[c] \in {"forwarded", "restart"}
    ELSE status[c] \in {"reserved", "restart"}

\* A clean exit leaves no vote open in the database that the game may have, unless
\* its record was dropped: the queue is written out before the file is closed.
CleanExit ==
  stage = "closed" => \A c \in sent : status[c] \in {"reserved", "forwarded"} => c \in lost

\* Records are lost only by a full queue or a failed batch (README.md): a message
\* whose turn has come is in the table, or counted.
EventsComplete ==
  queue = <<>> /\ batch = <<>> => handled \subseteq events \cup lost

-----------------------------------------------------------------------------
(* Liveness *)

\* The worker task and the SQLite thread make progress; aclose goes on when they
\* are done.
Fairness == WF_vars(WorkerActs) /\ WF_vars(EndClose)

FairSpec == Spec /\ Fairness

\* Closing the store always ends.
CloseEnds == stage = "closing" ~> stage # "closing"

\* What is queued does not stay: the worker gets to every job.
QueueDrains == \A c \in Casts : OnItsWay(c) ~> ~OnItsWay(c)
=============================================================================
