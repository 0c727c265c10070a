-------------------------------- MODULE Tally --------------------------------
(***************************************************************************)
(* A round as the simulated game plays it (tools/sim_game.py), and the     *)
(* rules the backend holds a game's messages to                            *)
(* (protocol/payloads.py): a message that breaks them is never relayed and *)
(* costs the game its connection.                                          *)
(*                                                                         *)
(* Names, descriptions, times and identifiers of messages are left out; a  *)
(* list of options, which stand in the order of their choice, is the       *)
(* sequence of their votes.                                                *)
(*                                                                         *)
(* An operator marked "Mutant" is not part of the specification: put in    *)
(* place of the definition below it, it must break the property it names.  *)
(***************************************************************************)
EXTENDS Naturals, FiniteSets, SequencesExt

CONSTANTS
  Voters,
  Enough,    \* the round is closed with this many votes (3 in the script)
  MaxCasts   \* bound: casts the game is sent

ASSUME TallyAssumption == Enough \in Nat \ {0} /\ MaxCasts \in Nat

Options == 1 .. 3
EventOf(choice) == 10 + choice

VARIABLES
  stage,   \* "joined", "open", "closing", "reporting" or "over"
  votes,   \* the choice of every voter who was counted
  said     \* history: the messages sent, in order

vars == <<stage, votes, said>>

-----------------------------------------------------------------------------
(* The rules of protocol/payloads.py *)

Total(counts) == counts[1] + counts[2] + counts[3]

OpenedRule(m) == m.choices = <<1, 2, 3>>

\* validate_status: what counted, status and reason say of a vote is one thing.
AckRule(m) ==
  /\ (m.status = "accepted") <=> m.counted
  /\ (m.status = "accepted") <=> (m.reason = "accepted")

\* validate_totals
SnapshotRule(m) == Total(m.counts) = m.total /\ m.unique <= m.total

\* validate_outcome
ClosedRule(m) ==
  /\ Len(m.events) = Len(m.winners) /\ Len(m.events) \in 1 .. 3
  /\ Cardinality(ToSet(m.events)) = Len(m.events)
  /\ Total(m.counts) = m.total
  /\ m.reason = "no_votes_random" => m.total = 0 /\ Len(m.events) = 1 /\ m.winning = 0
  /\ m.reason = "tie_all" => Len(m.events) = 3

\* The messages that pass, of those a game may send.
Passes(m) ==
  CASE m.type = "vote.opened"   -> OpenedRule(m)
    [] m.type = "vote.ack"      -> AckRule(m)
    [] m.type = "vote.snapshot" -> SnapshotRule(m)
    [] m.type = "vote.closed"   -> ClosedRule(m)
    [] m.type \in {"game.sync", "effect.resolved"} -> TRUE
    [] OTHER -> FALSE

-----------------------------------------------------------------------------
(* The messages of the simulated game *)

Counts(of) == [c \in Options |-> Cardinality({v \in DOMAIN of : of[v] = c})]

Ack(voter, choice, accepted) ==
  [type |-> "vote.ack", voter |-> voter, choice |-> choice, counted |-> accepted,
   status |-> IF accepted THEN "accepted" ELSE "rejected",
   reason |-> IF accepted THEN "accepted" ELSE "duplicate"]

\* Mutant: a snapshot counts the casts, not the voters (AlwaysPasses).
SnapshotOfCasts(of) ==
  [type |-> "vote.snapshot", counts |-> Counts(of),
   total |-> Len(SelectSeq(said, LAMBDA m : m.type = "vote.ack")) + 1,
   unique |-> Cardinality(DOMAIN of)]

Snapshot(of) ==
  [type |-> "vote.snapshot", counts |-> Counts(of),
   total |-> Cardinality(DOMAIN of), unique |-> Cardinality(DOMAIN of)]

\* Mutant: the first option with most votes wins, tied or not (RulesKept).
OutcomeFirstBest(counts) ==
  LET best == Max(Range(counts))
  IN  IF best = 0 THEN [reason |-> "no_votes_random", winners |-> <<1>>, winning |-> 0]
      ELSE [reason |-> "winner", winning |-> best,
            winners |-> <<CHOOSE c \in Options : counts[c] = best>>]

\* Who wins: all three of a tie, whatever the third got; option 1 of no votes.
Outcome(counts) ==
  LET best == Max(Range(counts))
  IN  IF best = 0 THEN [reason |-> "no_votes_random", winners |-> <<1>>, winning |-> 0]
      ELSE IF Cardinality({c \in Options : counts[c] = best}) > 1
      THEN [reason |-> "tie_all", winners |-> <<1, 2, 3>>, winning |-> best]
      ELSE [reason |-> "winner", winning |-> best,
            winners |-> <<CHOOSE c \in Options : counts[c] = best>>]

Closed(of) ==
  LET o == Outcome(Counts(of))
  IN  [type |-> "vote.closed", reason |-> o.reason, winners |-> o.winners,
       events |-> [k \in DOMAIN o.winners |-> EventOf(o.winners[k])],
       winning |-> o.winning, counts |-> Counts(of), total |-> Cardinality(DOMAIN of)]

-----------------------------------------------------------------------------
(* The script *)

\* Connected and welcomed, the game syncs an empty room and opens its round.
Opens ==
  /\ stage = "joined"
  /\ stage' = "open"
  /\ said' = <<[type |-> "game.sync"], [type |-> "vote.opened", choices |-> <<1, 2, 3>>]>>
  /\ UNCHANGED votes

\* Mutant: the snapshot is made before the vote is counted (AckedIsCounted).
CountsAfterwards(voter, choice) ==
  /\ stage = "open"
  /\ Len(said) < 2 * MaxCasts + 2
  /\ votes' = [v \in DOMAIN votes \cup {voter} |-> IF v \in DOMAIN votes THEN votes[v]
                                                   ELSE choice]
  /\ said' = said \o <<Ack(voter, choice, voter \notin DOMAIN votes), Snapshot(votes)>>
  /\ stage' = IF Cardinality(DOMAIN votes') >= Enough THEN "closing" ELSE "open"

\* A vote.cast: the first of a voter is counted; then what was decided, and what
\* the round looks like, is told.  The script counts for itself: this backend lets
\* no second vote of a voter through (the UNIQUE constraint of vote_attempts).
CountsCast(voter, choice) ==
  /\ stage = "open"
  /\ Len(said) < 2 * MaxCasts + 2
  /\ votes' = [v \in DOMAIN votes \cup {voter} |-> IF v \in DOMAIN votes THEN votes[v]
                                                   ELSE choice]
  /\ said' = said \o <<Ack(voter, choice, voter \notin DOMAIN votes), Snapshot(votes')>>
  /\ stage' = IF Cardinality(DOMAIN votes') >= Enough THEN "closing" ELSE "open"

Closes ==
  /\ stage = "closing"
  /\ said' = Append(said, Closed(votes))
  /\ stage' = "reporting"
  /\ UNCHANGED votes

\* One effect for each winner, in their order.
Reports ==
  /\ stage = "reporting"
  /\ LET at == CHOOSE n \in DOMAIN said : said[n].type = "vote.closed"
         k == Len(said) - at + 1
         winners == said[at].winners
     IN  IF k <= Len(winners)
         THEN /\ said' = Append(said, [type |-> "effect.resolved", choice |-> winners[k],
                                       event |-> said[at].events[k]])
              /\ UNCHANGED stage
         ELSE stage' = "over" /\ UNCHANGED said
  /\ UNCHANGED votes

\* Nothing comes for 20 seconds, or the connection is lost.
GivesUp ==
  /\ stage # "over"
  /\ stage' = "over"
  /\ UNCHANGED <<votes, said>>

Init == stage = "joined" /\ votes = [v \in {} |-> 0] /\ said = <<>>

Next ==
  \/ Opens \/ Closes \/ Reports \/ GivesUp
  \/ \E voter \in Voters, choice \in Options : CountsCast(voter, choice)

Spec == Init /\ [][Next]_vars

-----------------------------------------------------------------------------
(* Properties *)

\* Options of the votes that were acknowledged as accepted in the first n messages.
AckedBefore(n) ==
  [c \in Options |-> Cardinality({k \in 1 .. n :
     said[k].type = "vote.ack" /\ said[k].counted /\ said[k].choice = c})]

Outcomes == {k \in DOMAIN said : said[k].type = "vote.closed"}

\* The simulated game never breaks the rules of the protocol, whatever votes it
\* is sent: the backend relays all it says.
AlwaysPasses == \A k \in DOMAIN said : Passes(said[k])

\* "Only accepted counts" (docs/protocol-v1.md:49): every snapshot and the final
\* result show exactly the votes that were acknowledged as accepted so far, and
\* no voter has two of them.
AckedIsCounted ==
  /\ \A k \in DOMAIN said : said[k].type \in {"vote.snapshot", "vote.closed"} =>
       said[k].counts = AckedBefore(k)
  /\ \A j, k \in DOMAIN said :
       /\ said[j].type = "vote.ack" /\ said[j].counted
       /\ said[k].type = "vote.ack" /\ said[k].counted
       /\ said[j].voter = said[k].voter
       => j = k

\* The rules of the game (docs/protocol-v1.md:7): a tie executes all three
\* options, otherwise the one with most votes wins; the effects reported are
\* those of the winners, once each and in their order, and nothing else follows.
RulesKept ==
  \A k \in Outcomes :
    LET m == said[k]
        effects == SubSeq(said, k + 1, Len(said))
        leaders == {c \in Options : \A d \in Options : m.counts[c] >= m.counts[d]}
    IN  /\ m.winners = IF Cardinality(leaders) = 1 THEN <<CHOOSE c \in leaders : TRUE>>
                       ELSE <<1, 2, 3>>
        /\ \A c \in leaders : m.winning = m.counts[c]
        /\ Len(effects) <= Len(m.winners)
        /\ \A n \in DOMAIN effects : /\ effects[n].type = "effect.resolved"
                                     /\ effects[n].choice = m.winners[n]
                                     /\ effects[n].event = EventOf(m.winners[n])
=============================================================================
