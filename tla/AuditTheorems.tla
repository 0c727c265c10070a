---------------------------- MODULE AuditTheorems ----------------------------
(***************************************************************************)
(* What holds of the audit for any number of votes and messages, any size  *)
(* of queue and batch, and any number of restarts: what a row says, what   *)
(* becomes of it, and how much of it can be lost.                          *)
(***************************************************************************)
EXTENDS AuditStore, FiniteSetTheorems, SequenceTheorems, TLAPS

ElemsTo(seq, n) == {seq[k] : k \in 1 .. n}
Elems(seq) == ElemsTo(seq, Len(seq))

\* Jobs that are still on their way to the database, and the statuses of vote c
\* among the jobs J.
OnWay == Elems(queue) \cup Elems(batch)
StatusesOf(c, J) == {v \in Statuses : Job(c, v) \in J}

\* A status may be written of a vote: it is not kept back when it may be sent,
\* and sent when it is said to be.
Fair(c, v) ==
  /\ v = "not_sent" => c \notin saved \cup pending \cup sent
  /\ v \in {"forwarded", "unknown"} => c \in sent

\* The value of a row after the jobs A, in whatever order.
Settled(A, v) ==
  IF A \cap Verdicts # {} THEN v \in A \cap Verdicts
  ELSE IF A \cap Outcomes # {} THEN v \in A \cap Outcomes
  ELSE IF A # {} THEN v \in {"forwarded", "restart"}
  ELSE v \in {"reserved", "restart"}

-----------------------------------------------------------------------------
(* The inductive invariant *)

\* Where votes, jobs and the worker may stand.
StagePart ==
  /\ saved \cap (pending \cup sent) = {}
  /\ writing # None => writing \in sent
  /\ worker = "idle" => batch = <<>>
  /\ worker = "collecting" => Len(batch) = 1
  /\ written <= Len(batch)
  /\ stage # "running" => pending = {} /\ writing = None
  /\ stage = "closed" => queue = <<>> /\ worker = "idle"

\* Nothing is known of a vote that has no row; rows and jobs are fair.
RowPart ==
  \A c \in Casts :
    /\ status[c] = "absent" =>
         c \notin saved \cup pending \cup sent /\ said[c] = {} /\ StatusesOf(c, OnWay) = {}
    /\ Fair(c, status[c])
    /\ \A v \in StatusesOf(c, OnWay) : Fair(c, v)

\* What the open transaction has made of the rows.
DraftPart ==
  worker = "writing" =>
    \A c \in Casts :
      /\ draft.status[c] = "absent" <=> status[c] = "absent"
      /\ Fair(c, draft.status[c])
      /\ status[c] \in Verdicts => draft.status[c] \in Verdicts
      /\ draft.status[c] \in {"reserved", "forwarded"} => status[c] \in {"reserved", "forwarded"}

\* The end of a vote that was sent and waits no more was said, or a restart has
\* closed its row.
EndPart ==
  \A c \in sent \ pending :
    \/ said[c] \cap (Verdicts \cup Outcomes) # {}
    \/ status[c] \notin {"reserved", "forwarded"}

\* What was said of a vote with no loss is in its row or on its way.
AccountPart ==
  \A c \in Casts : c \notin lost /\ status[c] # "absent" =>
    \E A \in SUBSET Statuses :
      /\ A \cup StatusesOf(c, OnWay) = said[c]
      /\ Settled(A, status[c])
      /\ worker = "writing" =>
           Settled(A \cup StatusesOf(c, ElemsTo(batch, written)), draft.status[c])

AuditInv == TypeOK /\ StagePart /\ RowPart /\ DraftPart /\ EndPart /\ AccountPart

-----------------------------------------------------------------------------
(* Jobs and queues *)

\* A job about a vote is not about a message.
LEMMA JobKinds ==
  /\ \A c, v : Job(c, v) \notin EventJobs
  /\ \A c \in Casts, v \in {"forwarded"} \cup Verdicts \cup Outcomes : Job(c, v) \in StatusJobs
  /\ \A j \in AuditJobs \ EventJobs :
       /\ j \in StatusJobs /\ j.cast \in Casts
       /\ j.status \in {"forwarded"} \cup Verdicts \cup Outcomes
       /\ j = Job(j.cast, j.status)
  /\ \A c, v, d, w : Job(c, v) = Job(d, w) => c = d /\ v = w
<1>1. \A c, v : Job(c, v) \notin EventJobs
  <2>1. SUFFICES ASSUME NEW c, NEW v, Job(c, v) \in EventJobs
                 PROVE  FALSE
    OBVIOUS
  <2>2. DOMAIN Job(c, v) = {"cast", "status"}
    BY DEF Job
  <2>3. DOMAIN Job(c, v) = {"message"}
    BY <2>1 DEF EventJobs
  <2> QED
    BY <2>2, <2>3
<1>2. \A j \in AuditJobs \ EventJobs :
        /\ j \in StatusJobs /\ j.cast \in Casts
        /\ j.status \in {"forwarded"} \cup Verdicts \cup Outcomes
        /\ j = Job(j.cast, j.status)
  BY DEF AuditJobs, StatusJobs, Job
<1>3. \A c \in Casts, v \in {"forwarded"} \cup Verdicts \cup Outcomes : Job(c, v) \in StatusJobs
  BY DEF Job, StatusJobs
<1>4. ASSUME NEW c, NEW v, NEW d, NEW w, Job(c, v) = Job(d, w)
      PROVE  c = d /\ v = w
  <2>1. Job(c, v).cast = c /\ Job(c, v).status = v /\ Job(d, w).cast = d /\ Job(d, w).status = w
    BY DEF Job
  <2> QED
    BY <1>4, <2>1
<1> QED
  BY <1>1, <1>2, <1>3, <1>4

\* Every job is about a vote or a message.
LEMMA SubjectTypes ==
  ASSUME NEW seq \in Seq(AuditJobs)
  PROVE  /\ SubjectsOf(seq) \subseteq Casts \cup Messages
         /\ \A j \in Elems(seq) : Subject(j) \in SubjectsOf(seq)
         /\ Elems(seq) \subseteq AuditJobs
<1>1. \A j \in AuditJobs : Subject(j) \in Casts \cup Messages
  BY JobKinds DEF Subject, EventJobs
<1>2. \A k \in 1 .. Len(seq) : seq[k] \in AuditJobs
  OBVIOUS
<1> QED
  BY <1>1, <1>2 DEF SubjectsOf, Elems, ElemsTo

\* Two sequences put together have the jobs of both.
LEMMA ConcatElems ==
  ASSUME NEW s \in Seq(AuditJobs), NEW t \in Seq(AuditJobs)
  PROVE  s \o t \in Seq(AuditJobs) /\ Elems(s \o t) = Elems(s) \cup Elems(t)
<1>1. /\ s \o t \in Seq(AuditJobs) /\ Len(s \o t) = Len(s) + Len(t)
      /\ \A k \in 1 .. Len(s) + Len(t) : (s \o t)[k] = IF k <= Len(s) THEN s[k] ELSE t[k - Len(s)]
      /\ Len(s) \in Nat /\ Len(t) \in Nat
  BY ConcatProperties
<1>2. ASSUME NEW j \in Elems(s \o t)
      PROVE  j \in Elems(s) \cup Elems(t)
  <2>1. PICK k \in 1 .. Len(s) + Len(t) : j = IF k <= Len(s) THEN s[k] ELSE t[k - Len(s)]
    BY <1>1 DEF Elems, ElemsTo
  <2>2. k \in 1 .. Len(s) \/ k - Len(s) \in 1 .. Len(t)
    BY <1>1
  <2> QED
    BY <1>1, <2>1, <2>2 DEF Elems, ElemsTo
<1>3. ASSUME NEW j \in Elems(s)
      PROVE  j \in Elems(s \o t)
  <2>1. PICK k \in 1 .. Len(s) : j = s[k]
    BY DEF Elems, ElemsTo
  <2>2. k \in 1 .. Len(s \o t) /\ (s \o t)[k] = j
    BY <1>1, <2>1
  <2> QED
    BY <2>2 DEF Elems, ElemsTo
<1>4. ASSUME NEW j \in Elems(t)
      PROVE  j \in Elems(s \o t)
  <2>1. PICK k \in 1 .. Len(t) : j = t[k]
    BY DEF Elems, ElemsTo
  <2>2. k + Len(s) \in 1 .. Len(s \o t) /\ (s \o t)[k + Len(s)] = t[k]
    BY <1>1, <2>1
  <2> QED
    BY <2>1, <2>2 DEF Elems, ElemsTo
<1> QED
  BY <1>1, <1>2, <1>3, <1>4

\* A sequence cut in two has its jobs in one part or the other.
LEMMA CutElems ==
  ASSUME NEW s \in Seq(AuditJobs), NEW n \in 0 .. Len(s)
  PROVE  /\ SubSeq(s, 1, n) \in Seq(AuditJobs) /\ Len(SubSeq(s, 1, n)) = n
         /\ SubSeq(s, n + 1, Len(s)) \in Seq(AuditJobs)
         /\ Elems(SubSeq(s, 1, n)) \cup Elems(SubSeq(s, n + 1, Len(s))) = Elems(s)
         /\ \A k \in 1 .. n : SubSeq(s, 1, n)[k] = s[k]
<1> DEFINE a == SubSeq(s, 1, n)
           b == SubSeq(s, n + 1, Len(s))
<1>0. Len(s) \in Nat
  OBVIOUS
<1>1. a \in Seq(AuditJobs) /\ Len(a) = n /\ \A k \in 1 .. n : a[k] = s[k]
  BY <1>0
<1>2. b \in Seq(AuditJobs) /\ Len(b) = Len(s) - n /\ \A k \in 1 .. Len(s) - n : b[k] = s[n + k]
  BY <1>0
<1> HIDE DEF a, b
<1>3. ASSUME NEW j \in Elems(s)
      PROVE  j \in Elems(a) \cup Elems(b)
  <2>1. PICK k \in 1 .. Len(s) : j = s[k]
    BY DEF Elems, ElemsTo
  <2>2. CASE k <= n
    BY <1>1, <2>1, <2>2 DEF Elems, ElemsTo
  <2>3. CASE k > n
    <3>1. k - n \in 1 .. Len(b) /\ n + (k - n) = k
      BY <1>0, <1>2, <2>3
    <3> QED
      BY <1>2, <2>1, <3>1 DEF Elems, ElemsTo
  <2> QED
    BY <2>2, <2>3
<1>4. ASSUME NEW j \in Elems(a) \cup Elems(b)
      PROVE  j \in Elems(s)
  <2>1. \A k \in 1 .. n : k \in 1 .. Len(s)
    BY <1>0
  <2>2. \A k \in 1 .. Len(s) - n : n + k \in 1 .. Len(s)
    BY <1>0
  <2> QED
    BY <1>1, <1>2, <2>1, <2>2 DEF Elems, ElemsTo
<1> QED
  BY <1>1, <1>2, <1>3, <1>4 DEF a, b
\* _enqueue keeps what is queued, and a job that does not fit is counted.
LEMMA Enqueued ==
  ASSUME TypeOK, NEW seq \in Seq(AuditJobs), EnqueueAll(seq)
  PROVE  /\ queue' \in Seq(AuditJobs) /\ Len(queue') <= QueueLimit
         /\ lost \subseteq lost' /\ lost' \subseteq Casts \cup Messages
         /\ Elems(queue) \subseteq Elems(queue')
         /\ Elems(queue') \subseteq Elems(queue) \cup Elems(seq)
         /\ \A j \in Elems(seq) : j \in Elems(queue') \/ Subject(j) \in lost'
<1> DEFINE all == queue \o seq
<1>1. /\ queue \in Seq(AuditJobs) /\ Len(queue) <= QueueLimit /\ lost \subseteq Casts \cup Messages
      /\ QueueLimit \in Nat /\ Len(queue) \in Nat
  BY LimitAssumption DEF TypeOK
<1>2. /\ all \in Seq(AuditJobs) /\ Elems(all) = Elems(queue) \cup Elems(seq)
      /\ Len(all) \in Nat /\ Len(queue) <= Len(all)
      /\ \A k \in 1 .. Len(queue) : all[k] = queue[k]
  <2>1. all \in Seq(AuditJobs) /\ Elems(all) = Elems(queue) \cup Elems(seq)
    BY <1>1, ConcatElems
  <2>2. /\ Len(all) = Len(queue) + Len(seq) /\ Len(seq) \in Nat
        /\ \A k \in 1 .. Len(queue) + Len(seq) : all[k] = IF k <= Len(queue) THEN queue[k]
                                                 ELSE seq[k - Len(queue)]
    BY <1>1, ConcatProperties
  <2> HIDE DEF all
  <2> QED
    BY <1>1, <2>1, <2>2
<1>3. /\ Len(all) <= QueueLimit => queue' = all /\ lost' = lost
      /\ Len(all) > QueueLimit =>
           /\ queue' = SubSeq(all, 1, QueueLimit)
           /\ lost' = lost \cup SubjectsOf(SubSeq(all, QueueLimit + 1, Len(all)))
  BY <1>1, <1>2 DEF EnqueueAll
<1> HIDE DEF all
<1>4. CASE Len(all) <= QueueLimit
  BY <1>1, <1>2, <1>3, <1>4
<1>5. CASE Len(all) > QueueLimit
  <2> DEFINE rest == SubSeq(all, QueueLimit + 1, Len(all))
  <2>1. /\ queue' \in Seq(AuditJobs) /\ Len(queue') = QueueLimit
        /\ rest \in Seq(AuditJobs) /\ Elems(queue') \cup Elems(rest) = Elems(all)
        /\ \A k \in 1 .. QueueLimit : queue'[k] = all[k]
    <3>1. QueueLimit \in 0 .. Len(all)
      BY <1>1, <1>2, <1>5
    <3> QED
      BY <1>2, <1>3, <1>5, <3>1, CutElems
  <2>2. lost' = lost \cup SubjectsOf(rest)
    BY <1>3, <1>5
  <2> HIDE DEF rest
  <2>3. SubjectsOf(rest) \subseteq Casts \cup Messages /\ \A j \in Elems(rest) : Subject(j) \in SubjectsOf(rest)
    BY <2>1, SubjectTypes
  <2>4. ASSUME NEW j \in Elems(queue)
        PROVE  j \in Elems(queue')
    <3>1. PICK k \in 1 .. Len(queue) : j = queue[k]
      BY DEF Elems, ElemsTo
    <3>2. k \in 1 .. QueueLimit /\ queue'[k] = j
      BY <1>1, <1>2, <2>1, <3>1
    <3> QED
      BY <2>1, <3>2 DEF Elems, ElemsTo
  <2> QED
    BY <1>1, <1>2, <2>1, <2>2, <2>3, <2>4
<1> QED
  BY <1>1, <1>2, <1>4, <1>5

\* _resolve of several votes queues one job for each of them.
LEMMA SettleJobs ==
  ASSUME TypeOK, NEW S \in SUBSET pending, Settle(S)
  PROVE  \E seq \in Seq(AuditJobs) :
           EnqueueAll(seq) /\ Elems(seq) = {Job(c, OutcomeOf(c)) : c \in S}
<1>1. PICK f \in Orders(S) :
        EnqueueAll([k \in 1 .. Cardinality(S) |-> Job(f[k], OutcomeOf(f[k]))])
  BY DEF Settle
<1> DEFINE n == Cardinality(S)
           seq == [k \in 1 .. n |-> Job(f[k], OutcomeOf(f[k]))]
<1>2. n \in Nat
  <2>1. S \in SUBSET Casts
    BY DEF TypeOK
  <2> QED
    BY <2>1, CastAssumption, FS_Subset, FS_CardinalityType
<1> HIDE DEF n
<1>3. f \in [1 .. n -> S] /\ \A c \in S : \E k \in 1 .. n : f[k] = c
  BY DEF Orders, n
<1>4. \A c \in S : Job(c, OutcomeOf(c)) \in AuditJobs
  BY JobKinds DEF TypeOK, OutcomeOf, Outcomes, AuditJobs
<1>5. seq \in Seq(AuditJobs) /\ Len(seq) = n /\ \A k \in 1 .. n : seq[k] = Job(f[k], OutcomeOf(f[k]))
  <2>1. \A k \in 1 .. n : Job(f[k], OutcomeOf(f[k])) \in AuditJobs
    BY <1>3, <1>4
  <2>2. seq \in [1 .. n -> AuditJobs]
    BY <2>1
  <2> HIDE DEF seq
  <2>3. seq \in Seq(AuditJobs) /\ Len(seq) = n
    BY <1>2, <2>2
  <2> QED
    BY <2>3 DEF seq
<1>6. EnqueueAll(seq)
  BY <1>1 DEF n
<1> HIDE DEF seq
<1>7. Elems(seq) = {Job(c, OutcomeOf(c)) : c \in S}
  BY <1>3, <1>5 DEF Elems, ElemsTo
<1> QED
  BY <1>5, <1>6, <1>7
-----------------------------------------------------------------------------
(* Steps of the hub *)

\* The jobs J go to the queue or to the count of losses, and are said.
Queued(J) ==
  /\ queue' \in Seq(AuditJobs) /\ Len(queue') <= QueueLimit
  /\ Elems(queue) \subseteq Elems(queue') /\ Elems(queue') \subseteq Elems(queue) \cup J
  /\ lost' \subseteq Casts \cup Messages
  /\ lost \subseteq lost' /\ \A j \in J : j \in Elems(queue') \/ Subject(j) \in lost'
  /\ said' \in [Casts -> SUBSET Statuses]
  /\ \A c \in Casts : said'[c] = said[c] \cup StatusesOf(c, J)

\* A step that queues the jobs J and lets no vote go further than its sending.
HubStep(J) ==
  /\ UNCHANGED <<status, draft, batch, worker, written>>
  /\ Queued(J)
  /\ \A c \in Casts : StatusesOf(c, J) # {} => status[c] # "absent"
  /\ \A c \in Casts : \A v \in StatusesOf(c, J) :
       /\ v = "not_sent" => c \notin saved' \cup pending' \cup sent'
       /\ v \in {"forwarded", "unknown"} => c \in sent'
  /\ saved' \cup pending' \cup sent' \subseteq saved \cup pending \cup sent
  /\ sent \subseteq sent'
  /\ \A c \in sent' \ pending' :
       c \in sent \ pending \/ StatusesOf(c, J) \cap (Verdicts \cup Outcomes) # {}

\* Such a step keeps rows fair and the account of what was said.
LEMMA HubKeeps ==
  ASSUME AuditInv, NEW J, HubStep(J)
  PROVE  RowPart' /\ DraftPart' /\ EndPart' /\ AccountPart'
<1>0. TypeOK /\ RowPart /\ DraftPart /\ EndPart /\ AccountPart
  BY DEF AuditInv
<1>1. ASSUME NEW c \in Casts, NEW v, Fair(c, v)
      PROVE  Fair(c, v)'
  BY <1>1 DEF Fair, HubStep, Queued
<1>2. ASSUME NEW c \in Casts
      PROVE  /\ StatusesOf(c, OnWay)' \subseteq StatusesOf(c, OnWay) \cup StatusesOf(c, J)
             /\ StatusesOf(c, OnWay) \subseteq StatusesOf(c, OnWay)'
             /\ c \notin lost' => StatusesOf(c, J) \subseteq StatusesOf(c, OnWay)'
  <2>1. Elems(batch') = Elems(batch)
    BY DEF HubStep, Queued
  <2>2. \A v : Subject(Job(c, v)) = c
    BY JobKinds DEF Subject, Job
  <2>3. \A v : Job(c, v) \in J => Job(c, v) \in Elems(queue') \/ c \in lost'
    BY <2>2 DEF HubStep, Queued
  <2> QED
    BY <2>1, <2>3 DEF HubStep, Queued, StatusesOf, OnWay
<1>3. RowPart'
  <2>1. ASSUME NEW c \in Casts, status'[c] = "absent"
        PROVE  c \notin saved' \cup pending' \cup sent' /\ said'[c] = {} /\ StatusesOf(c, OnWay)' = {}
    <3>1. status[c] = "absent" /\ StatusesOf(c, J) = {}
      BY <2>1 DEF HubStep, Queued
    <3>2. c \notin saved \cup pending \cup sent /\ said[c] = {} /\ StatusesOf(c, OnWay) = {}
      BY <1>0, <3>1 DEF RowPart
    <3> QED
      BY <1>2, <3>1, <3>2 DEF HubStep, Queued
  <2>2. ASSUME NEW c \in Casts
        PROVE  Fair(c, status[c])'
    <3>1. Fair(c, status[c]) /\ status' = status
      BY <1>0 DEF RowPart, HubStep, Queued
    <3> QED
      BY <1>1, <3>1 DEF Fair
  <2>3. ASSUME NEW c \in Casts, NEW v \in StatusesOf(c, OnWay)'
        PROVE  Fair(c, v)'
    <3>1. CASE v \in StatusesOf(c, OnWay)
      BY <1>0, <1>1, <3>1 DEF RowPart
    <3>2. CASE v \in StatusesOf(c, J)
      BY <3>2 DEF HubStep, Queued, Fair
    <3> QED
      BY <1>2, <2>3, <3>1, <3>2
  <2> QED
    BY <2>1, <2>2, <2>3 DEF RowPart
<1>4. DraftPart'
  <2>1. ASSUME NEW c \in Casts, Fair(c, draft.status[c])
        PROVE  Fair(c, draft.status[c])'
    BY <1>1, <2>1 DEF HubStep, Queued, Fair
  <2> QED
    BY <1>0, <2>1 DEF DraftPart, HubStep, Queued
<1>5. EndPart'
  <2>1. ASSUME NEW c \in sent' \ pending'
        PROVE  \/ said'[c] \cap (Verdicts \cup Outcomes) # {}
               \/ status'[c] \notin {"reserved", "forwarded"}
    <3>1. c \in Casts
      BY <1>0 DEF HubStep, Queued, TypeOK
    <3>2. CASE c \in sent \ pending
      BY <1>0, <3>1, <3>2 DEF EndPart, HubStep, Queued
    <3>3. CASE StatusesOf(c, J) \cap (Verdicts \cup Outcomes) # {}
      BY <3>1, <3>3 DEF HubStep, Queued
    <3> QED
      BY <2>1, <3>2, <3>3 DEF HubStep, Queued
  <2> QED
    BY <2>1 DEF EndPart
<1>6. AccountPart'
  <2>1. SUFFICES ASSUME NEW c \in Casts, c \notin lost', status'[c] # "absent"
                 PROVE  \E A \in SUBSET Statuses :
                          /\ A \cup StatusesOf(c, OnWay)' = said'[c]
                          /\ Settled(A, status'[c])
                          /\ worker' = "writing" =>
                               Settled(A \cup StatusesOf(c, ElemsTo(batch', written')), draft'.status[c])
    BY DEF AccountPart
  <2>2. c \notin lost /\ status[c] # "absent"
    BY <2>1 DEF HubStep, Queued
  <2>3. PICK A \in SUBSET Statuses :
          /\ A \cup StatusesOf(c, OnWay) = said[c]
          /\ Settled(A, status[c])
          /\ worker = "writing" =>
               Settled(A \cup StatusesOf(c, ElemsTo(batch, written)), draft.status[c])
    BY <1>0, <2>2 DEF AccountPart
  <2>4. A \cup StatusesOf(c, OnWay)' = said'[c]
    BY <1>2, <2>1, <2>3 DEF HubStep, Queued
  <2> QED
    BY <2>3, <2>4 DEF HubStep, Queued
<1> QED
  BY <1>3, <1>4, <1>5, <1>6
\* _status of one vote.
LEMMA RecordsShape ==
  ASSUME TypeOK, NEW c \in Casts, NEW v \in {"forwarded"} \cup Verdicts \cup Outcomes, Records(c, v)
  PROVE  /\ Queued({Job(c, v)})
         /\ \A d \in Casts : StatusesOf(d, {Job(c, v)}) = IF d = c THEN {v} ELSE {}
<1>1. /\ EnqueueAll(<<Job(c, v)>>)
      /\ said' = [d \in Casts |-> IF d \in {c} THEN said[d] \cup {v} ELSE said[d]]
  BY DEF Records, Says
<1>2. v \in Statuses /\ Job(c, v) \in AuditJobs
  BY JobKinds DEF Statuses, AuditJobs
<1> DEFINE seq == <<Job(c, v)>>
<1>3. seq \in Seq(AuditJobs) /\ Elems(seq) = {Job(c, v)}
  <2>1. seq \in Seq(AuditJobs) /\ Len(seq) = 1 /\ seq[1] = Job(c, v)
    BY <1>2
  <2> HIDE DEF seq
  <2>2. 1 .. Len(seq) = {1}
    BY <2>1
  <2> QED
    BY <2>1, <2>2 DEF Elems, ElemsTo
<1>4. EnqueueAll(seq)
  BY <1>1
<1> HIDE DEF seq
<1>5. \A d \in Casts : StatusesOf(d, {Job(c, v)}) = IF d = c THEN {v} ELSE {}
  BY <1>2, JobKinds DEF StatusesOf
<1>6. said \in [Casts -> SUBSET Statuses]
  BY DEF TypeOK
<1>7. /\ said' \in [Casts -> SUBSET Statuses]
      /\ \A d \in Casts : said'[d] = said[d] \cup StatusesOf(d, {Job(c, v)})
  BY <1>1, <1>2, <1>5, <1>6
<1> QED
  BY <1>3, <1>4, <1>5, <1>7, Enqueued DEF Queued

\* _resolve of the votes S.
LEMMA SettleShape ==
  ASSUME TypeOK, NEW S \in SUBSET pending, Settle(S)
  PROVE  LET J == {Job(c, OutcomeOf(c)) : c \in S}
         IN  /\ Queued(J)
             /\ \A d \in Casts : StatusesOf(d, J) = IF d \in S THEN {OutcomeOf(d)} ELSE {}
             /\ pending' = pending \ S
<1> DEFINE J == {Job(c, OutcomeOf(c)) : c \in S}
<1>1. PICK seq \in Seq(AuditJobs) : EnqueueAll(seq) /\ Elems(seq) = J
  BY SettleJobs
<1>2. said' = [d \in Casts |-> IF d \in S THEN said[d] \cup {OutcomeOf(d)} ELSE said[d]]
      /\ pending' = pending \ S
  BY DEF Settle, Says
<1>3. \A d : OutcomeOf(d) \in Statuses
  BY DEF OutcomeOf, Statuses, Outcomes
<1>4. \A d \in Casts : StatusesOf(d, J) = IF d \in S THEN {OutcomeOf(d)} ELSE {}
  BY <1>3, JobKinds DEF StatusesOf
<1>5. said \in [Casts -> SUBSET Statuses]
  BY DEF TypeOK
<1>6. /\ said' \in [Casts -> SUBSET Statuses]
      /\ \A d \in Casts : said'[d] = said[d] \cup StatusesOf(d, J)
  BY <1>2, <1>3, <1>4, <1>5
<1> HIDE DEF J
<1>7. Queued(J)
  BY <1>1, <1>6, Enqueued DEF Queued
<1> QED
  BY <1>2, <1>4, <1>7 DEF J

\* A step that queues nothing.
LEMMA NothingQueued ==
  ASSUME TypeOK, UNCHANGED <<queue, said, lost>>
  PROVE  Queued({}) /\ \A d \in Casts : StatusesOf(d, {}) = {}
BY DEF Queued, StatusesOf, TypeOK
\* The other variables a step of the hub may change.
HubTypes ==
  /\ UNCHANGED <<tables, transaction>>
  /\ saved' \subseteq Casts /\ pending' \subseteq Casts /\ sent' \subseteq Casts
  /\ writing' \in Casts \cup {None} /\ stage' = stage
  /\ handled' \subseteq Messages /\ acks' \in Nat /\ restarts' = restarts

\* They keep their types, and the worker stays where it was.
LEMMA HubTypesKeep ==
  ASSUME AuditInv, HubTypes, NEW J, Queued(J)
  PROVE  TypeOK' /\ worker' = worker /\ batch' = batch /\ written' = written
BY DEF AuditInv, TypeOK, HubTypes, Queued, tables, transaction

\* Every decision of the hub but the first keeps the invariant.
LEMMA HubActsKeep ==
  ASSUME AuditInv,
         \/ \E c \in Casts : \/ GivesUp(c) \/ Waits(c) \/ StartsSending(c) \/ Sent(c)
                             \/ \E verdict \in Verdicts : Acked(c, verdict)
         \/ \E S \in SUBSET pending : Settles(S)
         \/ GameDrops
         \/ \E m \in Messages : RecordEvent(m)
  PROVE  AuditInv'
<1>0. TypeOK /\ StagePart /\ RowPart
  BY DEF AuditInv
<1>1. /\ saved \subseteq Casts /\ pending \subseteq Casts /\ sent \subseteq Casts
      /\ writing \in Casts \cup {None} /\ handled \subseteq Messages
      /\ acks \in Nat /\ restarts \in Nat /\ None \notin Casts
      /\ \A c \in saved \cup pending \cup sent : c \in Casts /\ status[c] # "absent"
  BY <1>0, CastAssumption DEF TypeOK, RowPart
<1>2. ASSUME NEW J, HubStep(J), HubTypes, StagePart'
      PROVE  AuditInv'
  <2>1. Queued(J)
    BY <1>2 DEF HubStep
  <2> QED
    BY <1>2, <2>1, HubTypesKeep, HubKeeps DEF AuditInv
<1>3. ASSUME NEW J, Queued(J), HubTypes,
             saved' \cap (pending' \cup sent') = {}, writing' # None => writing' \in sent',
             stage # "running" => pending' = {} /\ writing' = None,
             stage = "closed" => queue' = queue
      PROVE  StagePart'
  <2>1. worker' = worker /\ batch' = batch /\ written' = written /\ stage' = stage
    BY <1>3, HubTypesKeep DEF HubTypes
  <2> QED
    BY <1>0, <1>3, <2>1 DEF StagePart
<1>4. ASSUME NEW c \in Casts, GivesUp(c)
      PROVE  AuditInv'
  <2>1. /\ c \in saved /\ saved' = saved \ {c} /\ c \notin pending \cup sent
        /\ UNCHANGED <<tables, transaction, stage, pending, writing, sent, handled, bounds>>
    BY <1>0, <1>4 DEF GivesUp, StagePart
  <2>2. HubTypes
    BY <1>1, <2>1 DEF HubTypes, bounds
  <2>3. CASE stage = "running"
    <3> DEFINE J == {Job(c, "not_sent")}
    <3>1. Records(c, "not_sent")
      BY <1>4, <2>3 DEF GivesUp
    <3>2. Queued(J) /\ \A d \in Casts : StatusesOf(d, J) = IF d = c THEN {"not_sent"} ELSE {}
      BY <1>0, <3>1, RecordsShape DEF Outcomes
    <3> HIDE DEF J
    <3>3. StagePart'
      BY <1>0, <1>3, <2>1, <2>2, <2>3, <3>2 DEF StagePart
    <3>4. HubStep(J)
      BY <1>1, <2>1, <3>2 DEF HubStep, tables, transaction
    <3> QED
      BY <1>2, <2>2, <3>3, <3>4
  <2>4. CASE stage # "running"
    <3>1. UNCHANGED <<queue, said, lost>>
      BY <1>4, <2>4 DEF GivesUp
    <3>2. Queued({}) /\ \A d \in Casts : StatusesOf(d, {}) = {}
      BY <1>0, <3>1, NothingQueued
    <3>3. StagePart'
      BY <1>0, <1>3, <2>1, <2>2, <3>1, <3>2 DEF StagePart
    <3>4. HubStep({})
      BY <1>1, <2>1, <3>2 DEF HubStep, tables, transaction
    <3> QED
      BY <1>2, <2>2, <3>3, <3>4
  <2> QED
    BY <2>3, <2>4
<1>5. ASSUME NEW c \in Casts, Waits(c) \/ StartsSending(c)
      PROVE  AuditInv'
  <2>1. /\ UNCHANGED <<tables, transaction, queue, stage, said, handled, lost, bounds>>
        /\ \/ /\ stage = "running" /\ c \in saved /\ saved' = saved \ {c}
              /\ pending' = pending \cup {c} /\ UNCHANGED <<writing, sent>>
           \/ /\ c \in pending /\ writing' = c /\ sent' = sent \cup {c}
              /\ UNCHANGED <<saved, pending>>
    BY <1>5 DEF Waits, StartsSending
  <2>2. HubTypes
    BY <1>1, <2>1 DEF HubTypes, bounds
  <2>3. Queued({}) /\ \A d \in Casts : StatusesOf(d, {}) = {}
    BY <1>0, <2>1, NothingQueued
  <2>4. StagePart'
    BY <1>0, <1>3, <2>1, <2>2, <2>3 DEF StagePart
  <2>5. HubStep({})
    BY <1>0, <1>1, <2>1, <2>3 DEF HubStep, tables, transaction
  <2> QED
    BY <1>2, <2>2, <2>4, <2>5
<1>6. ASSUME NEW c \in Casts, Sent(c)
      PROVE  AuditInv'
  <2> DEFINE J == {Job(c, "forwarded")}
  <2>1. /\ writing = c /\ writing' = None /\ Records(c, "forwarded") /\ c \in sent
        /\ stage = "running"
        /\ UNCHANGED <<tables, transaction, stage, saved, pending, sent, handled, bounds>>
    BY <1>0, <1>1, <1>6 DEF Sent, StagePart
  <2>2. HubTypes
    BY <1>1, <2>1 DEF HubTypes, bounds
  <2>3. Queued(J) /\ \A d \in Casts : StatusesOf(d, J) = IF d = c THEN {"forwarded"} ELSE {}
    BY <1>0, <2>1, RecordsShape
  <2> HIDE DEF J
  <2>4. StagePart'
    BY <1>0, <1>3, <2>1, <2>2, <2>3 DEF StagePart
  <2>5. HubStep(J)
    BY <1>1, <2>1, <2>3 DEF HubStep, tables, transaction
  <2> QED
    BY <1>2, <2>2, <2>4, <2>5
<1>7. ASSUME NEW c \in Casts, NEW verdict \in Verdicts, Acked(c, verdict)
      PROVE  AuditInv'
  <2> DEFINE J == {Job(c, verdict)}
  <2>1. /\ stage = "running" /\ c \in sent /\ pending' = pending \ {c} /\ Records(c, verdict)
        /\ acks' = acks + 1
        /\ UNCHANGED <<tables, transaction, stage, saved, writing, sent, handled, restarts>>
    BY <1>7 DEF Acked
  <2>2. HubTypes
    BY <1>1, <2>1 DEF HubTypes
  <2>3. Queued(J) /\ \A d \in Casts : StatusesOf(d, J) = IF d = c THEN {verdict} ELSE {}
    BY <1>0, <2>1, RecordsShape
  <2> HIDE DEF J
  <2>4. StagePart'
    BY <1>0, <1>3, <2>1, <2>2, <2>3 DEF StagePart
  <2>5. verdict \notin {"not_sent", "forwarded", "unknown"}
    BY DEF Verdicts
  <2>6. HubStep(J)
    BY <1>1, <2>1, <2>3, <2>5 DEF HubStep, tables, transaction
  <2> QED
    BY <1>2, <2>2, <2>4, <2>6
<1>8. ASSUME NEW S \in SUBSET pending, Settle(S), S # {} \/ stage = "running",
             writing' \in {writing, None},
             UNCHANGED <<tables, transaction, stage, saved, sent, handled, bounds>>
      PROVE  AuditInv'
  <2> DEFINE J == {Job(c, OutcomeOf(c)) : c \in S}
  <2>1. /\ Queued(J) /\ pending' = pending \ S
        /\ \A d \in Casts : StatusesOf(d, J) = IF d \in S THEN {OutcomeOf(d)} ELSE {}
    BY <1>0, <1>8, SettleShape
  <2> HIDE DEF J
  <2>2. HubTypes
    BY <1>1, <1>8, <2>1 DEF HubTypes, bounds
  <2>3. stage = "running"
    BY <1>0, <1>8 DEF StagePart
  <2>4. StagePart'
    BY <1>0, <1>3, <1>8, <2>1, <2>2, <2>3 DEF StagePart
  <2>5. \A d \in S : /\ d \in pending /\ d \notin saved
                     /\ OutcomeOf(d) = IF d \in sent THEN "unknown" ELSE "not_sent"
    BY <1>0 DEF StagePart, OutcomeOf
  <2>6. HubStep(J)
    BY <1>1, <1>8, <2>1, <2>5 DEF HubStep, tables, transaction, Outcomes
  <2> QED
    BY <1>2, <2>2, <2>4, <2>6
<1>9. ASSUME NEW m \in Messages, RecordEvent(m)
      PROVE  AuditInv'
  <2> DEFINE J == {[message |-> m]}
             seq == <<[message |-> m]>>
  <2>1. /\ stage = "running" /\ handled' = handled \cup {m} /\ EnqueueAll(seq)
        /\ UNCHANGED <<tables, transaction, votes, stage, said, bounds>>
    BY <1>9 DEF RecordEvent
  <2>2. seq \in Seq(AuditJobs) /\ Elems(seq) = J /\ [message |-> m] \in EventJobs
    <3>1. [message |-> m] \in EventJobs /\ [message |-> m] \in AuditJobs
      BY DEF EventJobs, AuditJobs
    <3>2. seq \in Seq(AuditJobs) /\ Len(seq) = 1 /\ seq[1] = [message |-> m]
      BY <3>1
    <3> HIDE DEF seq
    <3>3. 1 .. Len(seq) = {1}
      BY <3>2
    <3> QED
      BY <3>1, <3>2, <3>3 DEF Elems, ElemsTo
  <2>3. \A d : StatusesOf(d, J) = {}
    BY <2>2, JobKinds DEF StatusesOf
  <2> HIDE DEF J, seq
  <2>4. said \in [Casts -> SUBSET Statuses]
    BY <1>0 DEF TypeOK
  <2>5. Queued(J)
    BY <1>0, <2>1, <2>2, <2>3, <2>4, Enqueued DEF Queued
  <2>6. HubTypes
    BY <1>1, <2>1 DEF HubTypes, bounds, votes
  <2>7. StagePart'
    BY <1>0, <1>3, <2>1, <2>5, <2>6 DEF StagePart, votes
  <2>8. HubStep(J)
    BY <2>1, <2>3, <2>5 DEF HubStep, tables, transaction, votes
  <2> QED
    BY <1>2, <2>6, <2>7, <2>8
<1>10. ASSUME NEW S \in SUBSET pending, Settles(S)
       PROVE  AuditInv'
  BY <1>8, <1>10 DEF Settles
<1>11. CASE GameDrops
  BY <1>8, <1>11 DEF GameDrops
<1> QED
  BY <1>4, <1>5, <1>6, <1>7, <1>9, <1>10, <1>11

-----------------------------------------------------------------------------
(* Steps of the worker *)

\* A job is executed: the row settles into what was said of the vote so far.
LEMMA JobSettles ==
  ASSUME NEW A \in SUBSET Statuses, NEW v, v # "absent", Settled(A, v),
         NEW s \in {"forwarded"} \cup Verdicts \cup Outcomes
  PROVE  Settled(A \cup {s}, IF Overwrites(s, v) THEN s ELSE v)
<1>1. Verdicts \cap Outcomes = {} /\ "forwarded" \notin Verdicts \cup Outcomes
      /\ {"restart", "reserved"} \cap (Verdicts \cup Outcomes) = {}
  BY DEF Verdicts, Outcomes
<1>2. CASE s \in Verdicts
  BY <1>1, <1>2 DEF Settled, Overwrites
<1>3. CASE s \in Outcomes
  BY <1>1, <1>3 DEF Settled, Overwrites
<1>4. CASE s = "forwarded"
  BY <1>1, <1>4 DEF Settled, Overwrites
<1> QED
  BY <1>2, <1>3, <1>4


\* A step of the worker loses nothing and says nothing: what was on its way still
\* is, and the transaction it leaves open, if any, fits the rows.
WorkerStep ==
  /\ UNCHANGED <<status, votes, said, lost>>
  /\ OnWay' = OnWay
  /\ worker' = "writing" => DraftPart'
  /\ worker' = "writing" => \A c \in Casts : status[c] # "absent" =>
       \A A \in SUBSET Statuses :
         /\ Settled(A, status[c])
         /\ worker = "writing" =>
              Settled(A \cup StatusesOf(c, ElemsTo(batch, written)), draft.status[c])
         => Settled(A \cup StatusesOf(c, ElemsTo(batch', written')), draft'.status[c])

LEMMA WorkerKeeps ==
  ASSUME AuditInv, WorkerStep
  PROVE  RowPart' /\ DraftPart' /\ EndPart' /\ AccountPart'
<1>0. RowPart /\ EndPart /\ AccountPart
  BY DEF AuditInv
<1>1. /\ \A c : StatusesOf(c, OnWay)' = StatusesOf(c, OnWay)
      /\ \A c, v : Fair(c, v)' = Fair(c, v)
      /\ UNCHANGED <<status, saved, pending, sent, said, lost>>
  BY DEF WorkerStep, StatusesOf, Fair, votes
<1>2. RowPart'
  <2>1. \A c \in Casts : Fair(c, status[c])' = Fair(c, status[c])
    BY <1>1 DEF Fair
  <2> QED
    BY <1>0, <1>1, <2>1 DEF RowPart
<1>3. DraftPart'
  <2>1. CASE worker' = "writing"
    BY <2>1 DEF WorkerStep
  <2> QED
    BY <2>1 DEF DraftPart
<1>4. EndPart'
  BY <1>0, <1>1 DEF EndPart
<1>5. AccountPart'
  <2>1. SUFFICES ASSUME NEW c \in Casts, c \notin lost, status[c] # "absent"
                 PROVE  \E A \in SUBSET Statuses :
                          /\ A \cup StatusesOf(c, OnWay) = said[c]
                          /\ Settled(A, status[c])
                          /\ worker' = "writing" =>
                               Settled(A \cup StatusesOf(c, ElemsTo(batch', written')), draft'.status[c])
    BY <1>1 DEF AccountPart
  <2>2. PICK A \in SUBSET Statuses :
          /\ A \cup StatusesOf(c, OnWay) = said[c]
          /\ Settled(A, status[c])
          /\ worker = "writing" =>
               Settled(A \cup StatusesOf(c, ElemsTo(batch, written)), draft.status[c])
    BY <1>0, <2>1 DEF AccountPart
  <2> QED
    BY <2>1, <2>2 DEF WorkerStep
<1> QED
  BY <1>2, <1>3, <1>4, <1>5

\* The first job leaves the queue, the rest of a batch follows.
LEMMA TakesKeep ==
  ASSUME AuditInv, TakeFirst \/ Collect
  PROVE  AuditInv'
<1>0. /\ TypeOK /\ StagePart /\ RowPart
      /\ queue \in Seq(AuditJobs) /\ batch \in Seq(AuditJobs) /\ Len(queue) \in Nat
      /\ Len(queue) <= QueueLimit /\ Len(batch) <= BatchLimit
      /\ QueueLimit \in Nat \ {0} /\ BatchLimit \in Nat \ {0}
  BY LimitAssumption DEF AuditInv, TypeOK
<1>1. CASE TakeFirst
  <2>1. /\ worker = "idle" /\ queue # <<>> /\ batch = <<>>
        /\ batch' = <<Head(queue)>> /\ queue' = Tail(queue) /\ worker' = "collecting"
        /\ UNCHANGED <<tables, draft, written, votes, stage, said, handled, lost, bounds>>
    BY <1>0, <1>1 DEF TakeFirst, StagePart
  <2>2. /\ queue[1] \in AuditJobs /\ batch' \in Seq(AuditJobs) /\ Len(batch') = 1
        /\ batch'[1] = queue[1] /\ Len(queue) >= 1
        /\ queue' \in Seq(AuditJobs) /\ Len(queue') = Len(queue) - 1
        /\ \A k \in 1 .. Len(queue) - 1 : queue'[k] = queue[k + 1]
    BY <1>0, <2>1
  <2>3. Elems(batch') \cup Elems(queue') = Elems(queue)
    <3>1. Elems(batch') = {queue[1]}
      <4>1. 1 .. Len(batch') = {1}
        BY <2>2
      <4> QED
        BY <2>2, <4>1 DEF Elems, ElemsTo
    <3>2. ASSUME NEW j \in Elems(queue), j # queue[1]
          PROVE  j \in Elems(queue')
      <4>1. PICK k \in 1 .. Len(queue) : j = queue[k]
        BY DEF Elems, ElemsTo
      <4>2. k - 1 \in 1 .. Len(queue') /\ queue'[k - 1] = queue[(k - 1) + 1] /\ (k - 1) + 1 = k
        BY <1>0, <2>2, <3>2, <4>1
      <4> QED
        BY <4>1, <4>2 DEF Elems, ElemsTo
    <3>3. ASSUME NEW j \in Elems(queue')
          PROVE  j \in Elems(queue)
      <4>1. PICK k \in 1 .. Len(queue') : j = queue'[k]
        BY DEF Elems, ElemsTo
      <4>2. k + 1 \in 1 .. Len(queue) /\ j = queue[k + 1]
        BY <1>0, <2>2, <4>1
      <4> QED
        BY <4>2 DEF Elems, ElemsTo
    <3>4. queue[1] \in Elems(queue)
      <4>1. 1 \in 1 .. Len(queue)
        BY <1>0, <2>2
      <4> QED
        BY <4>1 DEF Elems, ElemsTo
    <3> QED
      BY <3>1, <3>2, <3>3, <3>4
  <2>4. OnWay' = OnWay
    <3>1. Elems(batch) = {}
      <4>1. 1 .. Len(batch) = {}
        BY <2>1
      <4> QED
        BY <4>1 DEF Elems, ElemsTo
    <3> QED
      BY <2>3, <3>1 DEF OnWay
  <2>5. TypeOK'
    BY <1>0, <2>1, <2>2 DEF TypeOK, tables, votes, bounds
  <2>6. StagePart'
    <3>1. written = 0
      BY <1>0, <2>1 DEF StagePart, TypeOK
    <3> QED
      BY <1>0, <2>1, <2>2, <3>1 DEF StagePart, votes
  <2>7. WorkerStep
    BY <2>1, <2>4 DEF WorkerStep, tables
  <2> QED
    BY <2>5, <2>6, <2>7, WorkerKeeps DEF AuditInv
<1>2. CASE Collect
  <2> DEFINE n == IF Len(queue) < BatchLimit - 1 THEN Len(queue) ELSE BatchLimit - 1
             more == SubSeq(queue, 1, n)
  <2>1. /\ worker = "collecting"
        /\ batch' = batch \o more /\ queue' = SubSeq(queue, n + 1, Len(queue))
        /\ worker' = "writing" /\ written' = 0
        /\ draft' = [status |-> status, events |-> events]
        /\ UNCHANGED <<tables, votes, stage, said, handled, lost, bounds>>
    BY <1>2 DEF Collect
  <2>2. n \in 0 .. Len(queue) /\ n <= BatchLimit - 1 /\ Len(queue) - n <= QueueLimit
    BY <1>0
  <2> HIDE DEF n
  <2>3. /\ more \in Seq(AuditJobs) /\ Len(more) = n /\ queue' \in Seq(AuditJobs)
        /\ Elems(more) \cup Elems(queue') = Elems(queue)
        /\ Len(queue') <= QueueLimit
    <3>1. /\ more \in Seq(AuditJobs) /\ Len(more) = n /\ queue' \in Seq(AuditJobs)
          /\ Elems(more) \cup Elems(queue') = Elems(queue)
      BY <1>0, <2>1, <2>2, CutElems
    <3>2. n + 1 \in Nat /\ n + 1 >= 1 /\ Len(queue) <= QueueLimit
      BY <1>0, <2>2
    <3>3. Len(SubSeq(queue, n + 1, Len(queue))) = Len(queue) - n
      BY <1>0, <2>2
    <3> QED
      BY <1>0, <2>1, <2>2, <3>1, <3>3
  <2> HIDE DEF more
  <2>4. /\ batch' \in Seq(AuditJobs) /\ Elems(batch') = Elems(batch) \cup Elems(more)
        /\ Len(batch') = Len(batch) + n
    <3>1. batch \o more \in Seq(AuditJobs) /\ Elems(batch \o more) = Elems(batch) \cup Elems(more)
      BY <1>0, <2>3, ConcatElems
    <3>2. Len(batch \o more) = Len(batch) + Len(more)
      BY <1>0, <2>3, ConcatProperties
    <3> QED
      BY <2>1, <2>3, <3>1, <3>2
  <2>5. Len(batch') <= BatchLimit /\ written' <= Len(batch')
    <3>1. Len(batch) = 1 /\ Len(batch') = 1 + n /\ n \in Nat /\ n <= BatchLimit - 1 /\ written' = 0
      <4>1. Len(batch) = 1
        BY <1>0, <2>1 DEF StagePart
      <4> QED
        BY <1>0, <2>1, <2>2, <2>4, <4>1
    <3> QED
      BY <1>0, <3>1
  <2>6. OnWay' = OnWay
    BY <2>3, <2>4 DEF OnWay
  <2>7. TypeOK'
    BY <1>0, <2>1, <2>3, <2>4, <2>5 DEF TypeOK, tables, votes, bounds
  <2>8. StagePart'
    BY <1>0, <2>1, <2>5 DEF StagePart, votes
  <2>9. DraftPart'
    <3>1. /\ draft' = [status |-> status, events |-> events] /\ UNCHANGED <<status, saved, pending, sent>>
          /\ \A c \in Casts : Fair(c, status[c])
      BY <1>0, <2>1 DEF tables, votes, RowPart
    <3> QED
      BY <3>1 DEF DraftPart, Fair
  <2>10. \A c : StatusesOf(c, ElemsTo(batch', written')) = {}
    <3>1. 1 .. 0 = {}
      OBVIOUS
    <3> QED
      BY <2>1, <3>1 DEF StatusesOf, ElemsTo
  <2>11. ASSUME NEW c \in Casts, NEW A \in SUBSET Statuses, Settled(A, status[c])
         PROVE  Settled(A \cup StatusesOf(c, ElemsTo(batch', written')), draft'.status[c])
    BY <2>1, <2>10, <2>11
  <2>12. WorkerStep
    BY <2>1, <2>6, <2>9, <2>11 DEF WorkerStep, tables
  <2> QED
    BY <2>7, <2>8, <2>12, WorkerKeeps DEF AuditInv
<1> QED
  BY <1>1, <1>2

\* One job is executed in the open transaction.
LEMMA ExecuteKeeps ==
  ASSUME AuditInv, ExecuteJob
  PROVE  AuditInv'
<1>0. TypeOK /\ StagePart /\ RowPart /\ DraftPart
  BY DEF AuditInv
<1> DEFINE j == batch[written + 1]
<1>1. /\ worker = "writing" /\ written < Len(batch) /\ written' = written + 1
      /\ UNCHANGED <<tables, batch, worker, queue, votes, stage, said, handled, lost, bounds>>
  BY DEF ExecuteJob
<1>2. /\ written \in Nat /\ Len(batch) \in Nat /\ batch \in Seq(AuditJobs)
      /\ draft \in [status : [Casts -> Statuses], events : SUBSET Messages]
  BY <1>0 DEF TypeOK
<1>3. /\ written + 1 \in 1 .. Len(batch) /\ j \in AuditJobs /\ j \in OnWay
      /\ ElemsTo(batch', written') = ElemsTo(batch, written) \cup {j}
  <2>1. written + 1 \in 1 .. Len(batch)
    BY <1>1, <1>2
  <2>2. 1 .. written + 1 = (1 .. written) \cup {written + 1}
    BY <1>2
  <2>3. j \in Elems(batch)
    BY <2>1 DEF Elems, ElemsTo
  <2>4. j \in AuditJobs /\ j \in OnWay
    BY <1>2, <2>1, <2>3 DEF OnWay
  <2>5. batch' = batch /\ written' = written + 1
    BY <1>1
  <2>6. ElemsTo(batch, written + 1) = ElemsTo(batch, written) \cup {j}
    BY <2>2 DEF ElemsTo
  <2> QED
    BY <2>1, <2>4, <2>5, <2>6
<1>4. j \in EventJobs =>
        draft' = [draft EXCEPT !.events =
                    IF Recordable(j.message, @) THEN @ \cup {j.message} ELSE @]
  BY DEF ExecuteJob
<1>5. j \notin EventJobs =>
        draft' = [draft EXCEPT !.status[j.cast] = IF Overwrites(j.status, @) THEN j.status ELSE @]
  BY DEF ExecuteJob
<1> HIDE DEF j
<1>6. \/ /\ j \in EventJobs /\ draft'.status = draft.status
         /\ draft' \in [status : [Casts -> Statuses], events : SUBSET Messages]
      \/ /\ j \notin EventJobs /\ j.cast \in Casts
         /\ j.status \in {"forwarded"} \cup Verdicts \cup Outcomes /\ j = Job(j.cast, j.status)
         /\ draft' \in [status : [Casts -> Statuses], events : SUBSET Messages]
         /\ \A c \in Casts : draft'.status[c] =
              IF c = j.cast /\ Overwrites(j.status, draft.status[c]) THEN j.status ELSE draft.status[c]
  <2>1. CASE j \in EventJobs
    <3>1. j.message \in Messages
      BY <2>1 DEF EventJobs
    <3> QED
      BY <1>2, <1>4, <2>1, <3>1
  <2>2. CASE j \notin EventJobs
    <3>1. j.cast \in Casts /\ j.status \in {"forwarded"} \cup Verdicts \cup Outcomes
          /\ j = Job(j.cast, j.status) /\ j.status \in Statuses
      BY <1>3, <2>2, JobKinds DEF Statuses
    <3>2. draft' = [draft EXCEPT !.status =
                      [draft.status EXCEPT ![j.cast] =
                         IF Overwrites(j.status, @) THEN j.status ELSE @]]
      BY <1>5, <2>2
    <3> QED
      BY <1>2, <2>2, <3>1, <3>2
  <2> QED
    BY <2>1, <2>2
<1>7. \A c \in Casts : \/ draft'.status[c] = draft.status[c]
                        \/ \E s \in StatusesOf(c, {j}) : Overwrites(s, draft.status[c]) /\ draft'.status[c] = s
  BY <1>6 DEF StatusesOf, Statuses
<1>8. StatusesOf(j.cast, {j}) \subseteq {j.status}
      /\ \A c : StatusesOf(c, {j}) # {} => j \notin EventJobs /\ c = j.cast
  BY <1>6, JobKinds DEF StatusesOf
<1>9. DraftPart'
  <2>1. SUFFICES ASSUME NEW c \in Casts
                 PROVE  /\ draft'.status[c] = "absent" <=> status[c] = "absent"
                        /\ Fair(c, draft'.status[c])
                        /\ status[c] \in Verdicts => draft'.status[c] \in Verdicts
                        /\ draft'.status[c] \in {"reserved", "forwarded"} =>
                             status[c] \in {"reserved", "forwarded"}
    BY <1>1 DEF DraftPart, Fair, tables, votes
  <2>2. /\ draft.status[c] = "absent" <=> status[c] = "absent"
        /\ Fair(c, draft.status[c])
        /\ status[c] \in Verdicts => draft.status[c] \in Verdicts
        /\ draft.status[c] \in {"reserved", "forwarded"} => status[c] \in {"reserved", "forwarded"}
    BY <1>0, <1>1 DEF DraftPart
  <2>3. CASE draft'.status[c] = draft.status[c]
    BY <2>2, <2>3 DEF Fair
  <2>4. ASSUME NEW s \in StatusesOf(c, {j}), Overwrites(s, draft.status[c]), draft'.status[c] = s
        PROVE  /\ draft'.status[c] = "absent" <=> status[c] = "absent"
               /\ Fair(c, draft'.status[c])
               /\ status[c] \in Verdicts => draft'.status[c] \in Verdicts
               /\ draft'.status[c] \in {"reserved", "forwarded"} =>
                    status[c] \in {"reserved", "forwarded"}
    <3>1. s \in {"forwarded"} \cup Verdicts \cup Outcomes
      BY <1>6, <1>8
    <3>2. Fair(c, s)
      BY <1>0, <1>3 DEF RowPart, StatusesOf
    <3>3. Fair(c, draft'.status[c])
      BY <2>4, <3>2
    <3>4. s # "absent" /\ draft.status[c] # "absent"
      BY <2>4, <3>1 DEF Overwrites, Verdicts, Outcomes
    <3>5. draft.status[c] \in Verdicts => s \in Verdicts
      BY <2>4, <3>1 DEF Overwrites, Verdicts, Outcomes
    <3>6. s \in {"reserved", "forwarded"} => draft.status[c] = "reserved"
      BY <2>4, <3>1 DEF Overwrites, Verdicts, Outcomes
    <3> QED
      BY <2>2, <2>4, <3>3, <3>4, <3>5, <3>6
  <2> QED
    BY <1>7, <2>3, <2>4
<1>10. ASSUME NEW c \in Casts, status[c] # "absent", NEW A \in SUBSET Statuses,
              Settled(A \cup StatusesOf(c, ElemsTo(batch, written)), draft.status[c])
       PROVE  Settled(A \cup StatusesOf(c, ElemsTo(batch', written')), draft'.status[c])
  <2> DEFINE B == A \cup StatusesOf(c, ElemsTo(batch, written))
  <2>1. A \cup StatusesOf(c, ElemsTo(batch', written')) = B \cup StatusesOf(c, {j})
    BY <1>3 DEF StatusesOf
  <2>2. B \in SUBSET Statuses /\ Settled(B, draft.status[c]) /\ draft.status[c] # "absent"
    BY <1>0, <1>1, <1>10 DEF StatusesOf, DraftPart
  <2> HIDE DEF B
  <2>3. CASE StatusesOf(c, {j}) = {}
    BY <1>7, <2>1, <2>2, <2>3
  <2>4. CASE StatusesOf(c, {j}) # {}
    <3>1. c = j.cast /\ j \notin EventJobs
      BY <1>8, <2>4
    <3>2. StatusesOf(c, {j}) = {j.status} /\ j.status \in {"forwarded"} \cup Verdicts \cup Outcomes
      BY <1>6, <1>8, <2>4, <3>1
    <3>3. draft'.status[c] = IF Overwrites(j.status, draft.status[c]) THEN j.status ELSE draft.status[c]
      BY <1>6, <3>1
    <3>4. Settled(B \cup {j.status}, draft'.status[c])
      BY <2>2, <3>2, <3>3, JobSettles
    <3> QED
      BY <2>1, <3>2, <3>4
  <2> QED
    BY <2>3, <2>4
<1>11. WorkerStep
  BY <1>1, <1>9, <1>10 DEF WorkerStep, tables, OnWay
<1>12. TypeOK'
  BY <1>0, <1>1, <1>2, <1>6 DEF TypeOK, tables, votes, bounds
<1>13. StagePart'
  BY <1>0, <1>1, <1>2 DEF StagePart, votes
<1> QED
  BY <1>11, <1>12, <1>13, WorkerKeeps DEF AuditInv

\* The transaction is committed.
LEMMA CommitKeeps ==
  ASSUME AuditInv, CommitBatch
  PROVE  AuditInv'
<1>0. TypeOK /\ StagePart /\ RowPart /\ DraftPart /\ EndPart /\ AccountPart
  BY DEF AuditInv
<1>1. /\ worker = "writing" /\ written = Len(batch) /\ status' = draft.status /\ events' = draft.events
      /\ worker' = "idle" /\ batch' = <<>> /\ written' = 0 /\ draft' = NoDraft
      /\ UNCHANGED <<queue, saved, pending, writing, sent, stage, said, handled, lost, acks, restarts>>
  BY DEF CommitBatch, EndBatch, votes, bounds
<1>2. Elems(batch') = {} /\ ElemsTo(batch, written) = Elems(batch)
  <2>1. 1 .. Len(batch') = {}
    BY <1>1
  <2> QED
    BY <1>1, <2>1 DEF Elems, ElemsTo
<1>3. OnWay' = Elems(queue)
  BY <1>1, <1>2 DEF OnWay, Elems, ElemsTo
<1>4. \A c : StatusesOf(c, OnWay)' \subseteq StatusesOf(c, OnWay)
  BY <1>3 DEF StatusesOf, OnWay
<1>5. \A c \in Casts :
        /\ status'[c] = "absent" <=> status[c] = "absent"
        /\ Fair(c, status'[c])
        /\ status'[c] \in {"reserved", "forwarded"} => status[c] \in {"reserved", "forwarded"}
  BY <1>0, <1>1 DEF DraftPart
<1>6. TypeOK'
  <2>1. NoDraft \in [status : [Casts -> Statuses], events : SUBSET Messages]
    BY DEF NoDraft, Statuses
  <2>2. draft.status \in [Casts -> Statuses] /\ draft.events \subseteq Messages
    BY <1>0 DEF TypeOK
  <2>3. batch' \in Seq(AuditJobs) /\ Len(batch') <= BatchLimit
    BY <1>1, LimitAssumption
  <2> QED
    BY <1>0, <1>1, <2>1, <2>2, <2>3 DEF TypeOK
<1>7. StagePart'
  BY <1>0, <1>1 DEF StagePart
<1>8. RowPart'
  <2>1. SUFFICES ASSUME NEW c \in Casts
                 PROVE  /\ status'[c] = "absent" =>
                             /\ c \notin saved \cup pending \cup sent /\ said[c] = {}
                             /\ StatusesOf(c, OnWay)' = {}
                        /\ Fair(c, status'[c])
                        /\ \A v \in StatusesOf(c, OnWay)' : Fair(c, v)
    BY <1>1 DEF RowPart, Fair
  <2> QED
    BY <1>0, <1>4, <1>5 DEF RowPart
<1>9. DraftPart'
  BY <1>1 DEF DraftPart
<1>10. EndPart'
  <2>1. \A c \in sent : c \in Casts
    BY <1>0 DEF TypeOK
  <2> QED
    BY <1>0, <1>1, <1>5, <2>1 DEF EndPart
<1>11. AccountPart'
  <2>1. SUFFICES ASSUME NEW c \in Casts, c \notin lost, status'[c] # "absent"
                 PROVE  \E A \in SUBSET Statuses :
                          A \cup StatusesOf(c, OnWay)' = said[c] /\ Settled(A, status'[c])
    BY <1>1 DEF AccountPart
  <2>2. PICK A \in SUBSET Statuses :
          /\ A \cup StatusesOf(c, OnWay) = said[c]
          /\ Settled(A \cup StatusesOf(c, ElemsTo(batch, written)), draft.status[c])
    BY <1>0, <1>1, <1>5, <2>1 DEF AccountPart
  <2> DEFINE B == A \cup StatusesOf(c, Elems(batch))
  <2>3. B \in SUBSET Statuses /\ Settled(B, status'[c])
    BY <1>1, <1>2, <2>2 DEF StatusesOf
  <2>4. B \cup StatusesOf(c, OnWay)' = said[c]
    BY <1>3, <2>2 DEF StatusesOf, OnWay
  <2> QED
    BY <2>3, <2>4
<1> QED
  BY <1>6, <1>7, <1>8, <1>9, <1>10, <1>11 DEF AuditInv

\* What is lost of the jobs on their way: a batch that fails, or everything at a
\* restart.
LEMMA LossKeeps ==
  ASSUME AuditInv, BatchFails \/ Restart
  PROVE  AuditInv'
<1>0. /\ TypeOK /\ StagePart /\ RowPart /\ DraftPart /\ EndPart /\ AccountPart
      /\ queue \in Seq(AuditJobs) /\ batch \in Seq(AuditJobs)
  BY DEF AuditInv, TypeOK
<1>1. /\ worker' = "idle" /\ batch' = <<>> /\ written' = 0 /\ draft' = NoDraft
      /\ UNCHANGED <<sent, said, handled, acks>>
  BY DEF BatchFails, Restart, EndBatch, votes, bounds
<1>2. \/ /\ lost' = lost \cup SubjectsOf(batch) /\ BatchFails
         /\ UNCHANGED <<status, events, queue, saved, pending, writing, stage, restarts>>
      \/ /\ lost' = lost \cup SubjectsOf(queue) \cup SubjectsOf(batch) /\ Restart
         /\ queue' = <<>> /\ status' = [c \in Casts |-> Recovered(status[c])]
         /\ stage' = "running" /\ saved' = {} /\ pending' = {} /\ writing' = None
         /\ UNCHANGED events /\ restarts' = restarts + 1
  BY DEF BatchFails, Restart, EndBatch, votes, bounds, tables
<1>3. /\ Elems(batch') = {} /\ OnWay' = Elems(queue')
      /\ queue' = <<>> => OnWay' = {}
  <2>1. 1 .. Len(batch') = {} /\ (queue' = <<>> => 1 .. Len(queue') = {})
    BY <1>1
  <2> QED
    BY <2>1 DEF Elems, ElemsTo, OnWay
<1>4. /\ lost \subseteq lost' /\ lost' \subseteq Casts \cup Messages
      /\ \A j \in OnWay : j \in OnWay' \/ Subject(j) \in lost'
      /\ OnWay' \subseteq OnWay
  <2>1. /\ SubjectsOf(queue) \subseteq Casts \cup Messages
        /\ \A j \in Elems(queue) : Subject(j) \in SubjectsOf(queue)
        /\ SubjectsOf(batch) \subseteq Casts \cup Messages
        /\ \A j \in Elems(batch) : Subject(j) \in SubjectsOf(batch)
    BY <1>0, SubjectTypes
  <2>2. lost \subseteq Casts \cup Messages
    BY <1>0 DEF TypeOK
  <2>3. CASE queue' = queue
    <3>1. OnWay' = Elems(queue)
      BY <1>3, <2>3
    <3> QED
      BY <1>2, <2>1, <2>2, <3>1 DEF OnWay
  <2>4. CASE /\ queue' = <<>>
             /\ lost' = lost \cup SubjectsOf(queue) \cup SubjectsOf(batch)
    <3>1. OnWay' = {}
      BY <1>3, <2>4
    <3> QED
      BY <2>1, <2>2, <2>4, <3>1 DEF OnWay
  <2> QED
    BY <1>2, <2>3, <2>4
<1>5. \A c : /\ StatusesOf(c, OnWay)' \subseteq StatusesOf(c, OnWay)
             /\ c \notin lost' => StatusesOf(c, OnWay)' = StatusesOf(c, OnWay)
  <2>1. \A c, v : Subject(Job(c, v)) = c
    BY JobKinds DEF Subject, Job
  <2> QED
    BY <1>4, <2>1 DEF StatusesOf
<1>6. \A c \in Casts :
        /\ \/ status'[c] = status[c]
           \/ status[c] \in {"reserved", "forwarded"} /\ status'[c] = "restart"
        /\ status'[c] \in {"reserved", "forwarded"} => status[c] \in {"reserved", "forwarded"}
  BY <1>2 DEF Recovered
<1>7. TypeOK'
  <2>1. NoDraft \in [status : [Casts -> Statuses], events : SUBSET Messages]
    BY DEF NoDraft, Statuses
  <2>2. batch' \in Seq(AuditJobs) /\ Len(batch') <= BatchLimit
    BY <1>1, LimitAssumption
  <2>3. CASE BatchFails
    BY <1>0, <1>1, <1>2, <1>4, <2>1, <2>2, <2>3 DEF TypeOK, BatchFails, tables, votes, bounds
  <2>4. CASE Restart
    <3>1. status' \in [Casts -> Statuses]
      <4>1. status' = [c \in Casts |-> Recovered(status[c])]
        BY <2>4 DEF Restart
      <4> QED
        BY <1>0, <4>1 DEF TypeOK, Recovered, Statuses
    <3>2. queue' \in Seq(AuditJobs) /\ Len(queue') <= QueueLimit /\ restarts' \in Nat
      BY <1>0, <2>4, LimitAssumption DEF TypeOK, Restart
    <3> QED
      BY <1>0, <1>1, <1>4, <2>1, <2>2, <2>4, <3>1, <3>2 DEF TypeOK, Restart
  <2> QED
    BY <2>3, <2>4
<1>8. StagePart'
  <2>1. CASE BatchFails
    BY <1>0, <1>1, <2>1 DEF StagePart, BatchFails, votes
  <2>2. CASE Restart
    BY <1>0, <1>1, <2>2 DEF StagePart, Restart
  <2> QED
    BY <2>1, <2>2
<1>9. RowPart'
  <2>1. SUFFICES ASSUME NEW c \in Casts
                 PROVE  /\ status'[c] = "absent" =>
                             /\ c \notin saved' \cup pending' \cup sent' /\ said[c] = {}
                             /\ StatusesOf(c, OnWay)' = {}
                        /\ Fair(c, status[c])'
                        /\ \A v \in StatusesOf(c, OnWay)' : Fair(c, v)'
    BY <1>1 DEF RowPart, Fair
  <2>2. saved' \cup pending' \cup sent' \subseteq saved \cup pending \cup sent /\ sent' = sent
    BY <1>1, <1>2
  <2>3. \A v : Fair(c, v) => Fair(c, v)'
    BY <2>2 DEF Fair
  <2>4. Fair(c, status[c]) /\ \A v \in StatusesOf(c, OnWay) : Fair(c, v)
    BY <1>0 DEF RowPart
  <2>5. Fair(c, "restart")
    BY DEF Fair
  <2> QED
    BY <1>0, <1>5, <1>6, <2>2, <2>3, <2>4, <2>5 DEF RowPart
<1>10. DraftPart'
  BY <1>1 DEF DraftPart
<1>11. EndPart'
  <2>1. \A c \in sent : c \in Casts
    BY <1>0 DEF TypeOK
  <2>2. CASE BatchFails
    BY <1>0, <1>1, <2>2 DEF EndPart, BatchFails, votes, tables
  <2>3. CASE Restart
    <3>1. status' = [c \in Casts |-> Recovered(status[c])]
      BY <2>3 DEF Restart
    <3>2. \A c \in sent : status'[c] \notin {"reserved", "forwarded"}
      BY <2>1, <3>1 DEF Recovered
    <3> QED
      BY <1>1, <3>2 DEF EndPart
  <2> QED
    BY <2>2, <2>3
<1>12. AccountPart'
  <2>1. SUFFICES ASSUME NEW c \in Casts, c \notin lost', status'[c] # "absent"
                 PROVE  \E A \in SUBSET Statuses :
                          A \cup StatusesOf(c, OnWay)' = said[c] /\ Settled(A, status'[c])
    BY <1>1 DEF AccountPart
  <2>2. c \notin lost /\ status[c] # "absent" /\ StatusesOf(c, OnWay)' = StatusesOf(c, OnWay)
    BY <1>4, <1>5, <1>6, <2>1
  <2>3. PICK A \in SUBSET Statuses : A \cup StatusesOf(c, OnWay) = said[c] /\ Settled(A, status[c])
    BY <1>0, <2>2 DEF AccountPart
  <2>4. Settled(A, status'[c])
    BY <1>6, <2>3 DEF Settled, Verdicts, Outcomes
  <2> QED
    BY <2>2, <2>3, <2>4
<1> QED
  BY <1>7, <1>8, <1>9, <1>10, <1>11, <1>12 DEF AuditInv

\* A vote is recorded: its row is there before anything is known of it.
LEMMA RecordKeeps ==
  ASSUME AuditInv, NEW c \in Casts, RecordVote(c)
  PROVE  AuditInv'
<1>0. TypeOK /\ StagePart /\ RowPart /\ DraftPart /\ EndPart /\ AccountPart
  BY DEF AuditInv
<1>1. /\ status[c] = "absent" /\ worker # "writing"
      /\ status' = [status EXCEPT ![c] = "reserved"] /\ saved' = saved \cup {c}
      /\ UNCHANGED <<events, draft, batch, worker, written, queue, stage, pending, writing, sent, said,
                     handled, lost, acks, restarts>>
  BY DEF RecordVote, transaction, bounds
<1>2. /\ c \notin saved \cup pending \cup sent /\ said[c] = {} /\ StatusesOf(c, OnWay) = {}
      /\ status'[c] = "reserved" /\ \A d \in Casts \ {c} : status'[d] = status[d]
  BY <1>0, <1>1 DEF RowPart, TypeOK
<1>3. \A d : StatusesOf(d, OnWay)' = StatusesOf(d, OnWay)
  BY <1>1 DEF StatusesOf, OnWay, Elems, ElemsTo
<1>4. \A d \in Casts : \A v : d # c /\ Fair(d, v) => Fair(d, v)'
  BY <1>1 DEF Fair
<1>5. TypeOK'
  BY <1>0, <1>1 DEF TypeOK, Statuses
<1>6. StagePart'
  BY <1>0, <1>1, <1>2 DEF StagePart
<1>7. RowPart'
  <2>1. SUFFICES ASSUME NEW d \in Casts
                 PROVE  /\ status'[d] = "absent" =>
                             /\ d \notin saved' \cup pending \cup sent /\ said[d] = {}
                             /\ StatusesOf(d, OnWay)' = {}
                        /\ Fair(d, status[d])'
                        /\ \A v \in StatusesOf(d, OnWay)' : Fair(d, v)'
    BY <1>1 DEF RowPart, Fair
  <2>2. CASE d = c
    BY <1>2, <1>3, <2>2 DEF Fair
  <2>3. CASE d # c
    <3>1. status'[d] = status[d] /\ (d \in saved' <=> d \in saved)
      BY <1>1, <1>2, <2>3
    <3>2. Fair(d, status[d])'
      BY <1>0, <1>1, <2>3, <3>1 DEF RowPart, Fair
    <3> QED
      BY <1>0, <1>3, <1>4, <2>3, <3>1, <3>2 DEF RowPart
  <2> QED
    BY <2>2, <2>3
<1>8. DraftPart'
  BY <1>1 DEF DraftPart
<1>9. EndPart'
  <2>1. \A d \in sent : d \in Casts
    BY <1>0 DEF TypeOK
  <2> QED
    BY <1>0, <1>1, <1>2, <2>1 DEF EndPart
<1>10. AccountPart'
  <2>1. SUFFICES ASSUME NEW d \in Casts, d \notin lost, status'[d] # "absent"
                 PROVE  \E A \in SUBSET Statuses :
                          A \cup StatusesOf(d, OnWay)' = said[d] /\ Settled(A, status'[d])
    BY <1>1 DEF AccountPart
  <2>2. CASE d = c
    <3>1. {} \cup StatusesOf(d, OnWay)' = said[d] /\ Settled({}, status'[d])
      BY <1>2, <1>3, <2>2 DEF Settled
    <3> QED
      BY <3>1
  <2>3. CASE d # c
    BY <1>0, <1>2, <1>3, <2>1, <2>3 DEF AccountPart
  <2> QED
    BY <2>2, <2>3
<1> QED
  BY <1>5, <1>6, <1>7, <1>8, <1>9, <1>10 DEF AuditInv

\* Closing changes the stage only.
LEMMA CloseKeeps ==
  ASSUME AuditInv, BeginClose \/ EndClose \/ UNCHANGED vars
  PROVE  AuditInv'
<1>0. TypeOK /\ StagePart /\ RowPart /\ DraftPart /\ EndPart /\ AccountPart
  BY DEF AuditInv
<1>1. /\ \/ stage = "running" /\ pending = {} /\ writing = None /\ stage' = "closing"
         \/ stage = "closing" /\ queue = <<>> /\ worker = "idle" /\ stage' = "closed"
         \/ stage' = stage
      /\ UNCHANGED <<tables, transaction, votes, queue, said, handled, lost, bounds>>
  BY DEF BeginClose, EndClose, vars
<1>2. UNCHANGED <<status, events, draft, batch, worker, written, saved, pending, writing, sent,
                  queue, said, handled, lost, acks, restarts>>
  BY <1>1 DEF tables, transaction, votes, bounds
<1>3. TypeOK'
  BY <1>0, <1>1, <1>2 DEF TypeOK
<1>4. StagePart'
  BY <1>0, <1>1, <1>2 DEF StagePart
<1>5. RowPart' /\ DraftPart' /\ EndPart' /\ AccountPart'
  <2>1. RowPart' <=> RowPart
    BY <1>2 DEF RowPart, Fair, StatusesOf, OnWay, Elems, ElemsTo
  <2>2. DraftPart' <=> DraftPart
    BY <1>2 DEF DraftPart, Fair
  <2>3. EndPart' <=> EndPart
    BY <1>2 DEF EndPart
  <2>4. AccountPart' <=> AccountPart
    <3>1. /\ \A c : StatusesOf(c, OnWay)' = StatusesOf(c, OnWay)
          /\ \A c : StatusesOf(c, ElemsTo(batch, written))' = StatusesOf(c, ElemsTo(batch, written))
      BY <1>2 DEF StatusesOf, OnWay, Elems, ElemsTo
    <3> QED
      BY <1>2, <3>1 DEF AccountPart
  <2> QED
    BY <1>0, <2>1, <2>2, <2>3, <2>4
<1> QED
  BY <1>3, <1>4, <1>5 DEF AuditInv

-----------------------------------------------------------------------------
(* Theorems *)

\* The invariant holds in every state: what the hub recorded of a vote is in its
\* row, on its way there, or counted as lost, and none of it is false
\* (storage.py AuditStore, hub.py _resolve, on_sent and vote.ack).
THEOREM AuditInvCorrect == Spec => []AuditInv
<1>1. Init => AuditInv
  <2> SUFFICES ASSUME Init
               PROVE  AuditInv
    OBVIOUS
  <2>1. OnWay = {}
    <3>1. 1 .. Len(queue) = {} /\ 1 .. Len(batch) = {}
      BY DEF Init
    <3> QED
      BY <3>1 DEF OnWay, Elems, ElemsTo
  <2>2. TypeOK
    BY LimitAssumption DEF Init, TypeOK, NoDraft, Statuses
  <2>3. StagePart
    BY DEF Init, StagePart
  <2>4. RowPart
    BY <2>1 DEF Init, RowPart, StatusesOf, Fair
  <2>5. DraftPart /\ EndPart /\ AccountPart
    BY DEF Init, DraftPart, EndPart, AccountPart
  <2> QED
    BY <2>2, <2>3, <2>4, <2>5 DEF AuditInv
<1>2. AuditInv /\ [Next]_vars => AuditInv'
  <2> SUFFICES ASSUME AuditInv, [Next]_vars
               PROVE  AuditInv'
    OBVIOUS
  <2>1. CASE HubActs
    <3>1. ASSUME NEW c \in Casts, RecordVote(c)
          PROVE  AuditInv'
      BY <3>1, RecordKeeps
    <3> QED
      BY <2>1, <3>1, HubActsKeep DEF HubActs
  <2>2. CASE WorkerActs
    BY <2>2, TakesKeep, ExecuteKeeps, CommitKeeps, LossKeeps DEF WorkerActs
  <2>3. CASE Restart
    BY <2>3, LossKeeps
  <2>4. CASE BeginClose \/ EndClose \/ UNCHANGED vars
    BY <2>4, CloseKeeps
  <2> QED
    BY <2>1, <2>2, <2>3, <2>4 DEF Next
<1> QED
  BY <1>1, <1>2, PTL DEF Spec

\* Every variable keeps its type; the queue never holds more than
\* audit_queue_size jobs, nor a batch more than its limit (storage.py _enqueue,
\* _run).
THEOREM AuditTypeCorrect == Spec => []TypeOK
<1>1. AuditInv => TypeOK
  BY DEF AuditInv
<1> QED
  BY <1>1, AuditInvCorrect, PTL

\* The audit never says a vote was kept back when its sending had started, nor
\* that it was or may have been sent when it was not (hub.py _resolve,
\* pending.attempted).
THEOREM StatusTruthfulCorrect == Spec => []StatusTruthful
<1>1. AuditInv => StatusTruthful
  BY DEF AuditInv, RowPart, Fair, StatusTruthful
<1> QED
  BY <1>1, AuditInvCorrect, PTL

\* With nothing on its way and nothing lost, the row of a vote tells how it ended
\* (storage.py, the WHERE clause of the UPDATE).
THEOREM ReconciledCorrect == Spec => []Reconciled
<1>1. ASSUME AuditInv, NEW c \in Casts, status[c] # "absent", c \notin lost, ~OnItsWay(c)
      PROVE  Settled(said[c], status[c])
  <2>1. StatusesOf(c, OnWay) = {}
    <3>1. SUFFICES ASSUME NEW v, Job(c, v) \in OnWay
                   PROVE  FALSE
      BY DEF StatusesOf
    <3>2. Job(c, v) \notin EventJobs /\ Job(c, v).cast = c
      BY JobKinds DEF Job
    <3> QED
      BY <1>1, <3>1, <3>2 DEF OnWay, Elems, ElemsTo, OnItsWay
  <2> QED
    BY <1>1, <2>1 DEF AuditInv, AccountPart
<1>2. AuditInv => Reconciled
  BY <1>1 DEF Reconciled, Settled
<1> QED
  BY <1>2, AuditInvCorrect, PTL

\* A clean exit leaves open no vote the game may have, unless what was recorded of
\* it was dropped (storage.py aclose).
THEOREM CleanExitCorrect == Spec => []CleanExit
<1>1. ASSUME AuditInv, stage = "closed", NEW c \in sent, status[c] \in {"reserved", "forwarded"},
             c \notin lost
      PROVE  FALSE
  <2>1. /\ c \in Casts /\ queue = <<>> /\ batch = <<>> /\ pending = {}
        /\ status[c] \notin {"absent"} \cup Verdicts \cup Outcomes
    BY <1>1 DEF AuditInv, TypeOK, StagePart, Verdicts, Outcomes
  <2>2. OnWay = {}
    <3>1. 1 .. Len(queue) = {} /\ 1 .. Len(batch) = {}
      BY <2>1
    <3> QED
      BY <3>1 DEF OnWay, Elems, ElemsTo
  <2>3. said[c] \cap (Verdicts \cup Outcomes) # {}
    BY <1>1, <2>1 DEF AuditInv, EndPart
  <2>4. Settled(said[c], status[c])
    BY <1>1, <2>1, <2>2 DEF AuditInv, AccountPart, StatusesOf
  <2> QED
    BY <2>1, <2>3, <2>4 DEF Settled
<1>2. AuditInv => CleanExit
  BY <1>1 DEF CleanExit
<1> QED
  BY <1>2, AuditInvCorrect, PTL

\* A verdict of the game in the database is never replaced by anything but another
\* verdict: not by a late status, not by a restart (storage.py _status, __init__).
THEOREM VerdictSticksCorrect == Spec => VerdictSticks
<1>1. ASSUME AuditInv, [Next]_vars, NEW c \in Casts, status[c] \in Verdicts
      PROVE  status'[c] \in Verdicts
  <2>1. status[c] \notin {"absent", "reserved", "forwarded"} /\ status \in [Casts -> Statuses]
    BY <1>1 DEF Verdicts, AuditInv, TypeOK
  <2>2. ASSUME NEW d \in Casts, RecordVote(d)
        PROVE  status'[c] \in Verdicts
    <3>1. status' = [status EXCEPT ![d] = "reserved"] /\ d # c
      BY <2>1, <2>2 DEF RecordVote
    <3> QED
      BY <1>1, <2>1, <3>1
  <2>3. CASE CommitBatch
    BY <1>1, <2>3 DEF CommitBatch, AuditInv, DraftPart
  <2>4. CASE Restart
    BY <1>1, <2>1, <2>4 DEF Restart, Recovered
  <2>5. CASE UNCHANGED status
    BY <1>1, <2>5
  <2>6. HubActs => UNCHANGED status \/ \E d \in Casts : RecordVote(d)
    BY DEF HubActs, GivesUp, Waits, StartsSending, Sent, Acked, Settles, GameDrops, RecordEvent, tables
  <2>7. TakeFirst \/ Collect \/ ExecuteJob \/ BatchFails \/ BeginClose \/ EndClose => UNCHANGED status
    BY DEF TakeFirst, Collect, ExecuteJob, BatchFails, BeginClose, EndClose, tables
  <2>8. vars' = vars => UNCHANGED status
    BY DEF vars, tables
  <2> QED
    BY <1>1, <2>2, <2>3, <2>4, <2>5, <2>6, <2>7, <2>8 DEF Next, WorkerActs
<1>2. AuditInv /\ [Next]_vars => [\A c \in Casts : status[c] \in Verdicts => status'[c] \in Verdicts]_vars
  BY <1>1
<1> QED
  BY <1>2, AuditInvCorrect, PTL DEF Spec, VerdictSticks
=============================================================================
