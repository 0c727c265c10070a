----------------------------- MODULE VotePromise -----------------------------
(***************************************************************************)
(* What the relay promises about votes, without connections, queues,       *)
(* rounds or a database: a submission carries a ballot, may be sent to the *)
(* game, and gets at most one verdict.                                     *)
(***************************************************************************)
CONSTANTS
  Subs,      \* submissions
  Ballots,   \* what a submission can carry: cast id, voter, round, instance
  Refusals,  \* verdicts that say "not forwarded"
  None

VARIABLES
  ballot,    \* what each submission carries, None before it is admitted
  sent,      \* submissions handed to the game
  verdict    \* <<>> or the one verdict given to the bot

vars == <<ballot, sent, verdict>>

Init ==
  /\ ballot = [s \in Subs |-> None]
  /\ sent = {}
  /\ verdict = [s \in Subs |-> <<>>]

\* Two ballots the game must not both receive: one cast id submitted twice, or
\* one voter voting twice in a round.
Rivals(b, d) ==
  \/ b.cast = d.cast
  \/ b.voter = d.voter /\ b.round = d.round /\ b.instance = d.instance

Admit(s) ==
  /\ ballot[s] = None
  /\ verdict[s] = <<>>
  /\ \E b \in Ballots : ballot' = [ballot EXCEPT ![s] = b]
  /\ UNCHANGED <<sent, verdict>>

Send(s) ==
  /\ ballot[s] # None
  /\ s \notin sent
  /\ verdict[s] = <<>>
  /\ \A t \in sent : ~Rivals(ballot[s], ballot[t])
  /\ sent' = sent \cup {s}
  /\ UNCHANGED <<ballot, verdict>>

\* What may be said of a submission that was sent, or was not.
Truthful(s) ==
  {"result_unknown"} \cup IF s \in sent THEN {"ack"} ELSE Refusals

\* Any number of open submissions get their verdict at once: one change of the
\* room ends all of them.
Conclude ==
  /\ verdict' \in [Subs -> {<<>>} \cup {<<c>> : c \in Refusals \cup {"ack", "result_unknown"}}]
  /\ \A s \in Subs : verdict'[s] # verdict[s] =>
       /\ verdict[s] = <<>>
       /\ \E c \in Truthful(s) : verdict'[s] = <<c>>
  /\ UNCHANGED <<ballot, sent>>

Next == Conclude \/ \E s \in Subs : Admit(s) \/ Send(s)

Spec == Init /\ [][Next]_vars
=============================================================================
