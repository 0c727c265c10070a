---------------------------- MODULE TallyTheorems ----------------------------
(***************************************************************************)
(* What holds of every round of the simulated game, for any voters and any *)
(* number of casts: it keeps the rules of the protocol and of the game,    *)
(* and shows exactly the votes it acknowledged.                            *)
(***************************************************************************)
EXTENDS Tally, FiniteSetTheorems, SequenceTheorems, TLAPS

Acks ==
  [type : {"vote.ack"}, voter : Voters, choice : Options, counted : BOOLEAN,
   status : {"accepted", "rejected"}, reason : {"accepted", "duplicate"}]

Snapshots ==
  [type : {"vote.snapshot"}, counts : [Options -> Nat], total : Nat, unique : Nat]

Results ==
  [type : {"vote.closed"}, reason : {"no_votes_random", "tie_all", "winner"},
   winners : Seq(Options), events : Seq(Nat), winning : Nat, counts : [Options -> Nat],
   total : Nat]

Others ==
  [type : {"game.sync"}] \cup [type : {"vote.opened"}, choices : {<<1, 2, 3>>}]
  \cup [type : {"effect.resolved"}, choice : Options, event : Nat]

Messages == Acks \cup Snapshots \cup Results \cup Others

\* Somebody votes for one of the options.
VotePart ==
  /\ IsFiniteSet(DOMAIN votes) /\ DOMAIN votes \subseteq Voters
  /\ votes \in [DOMAIN votes -> Options]

\* A round has one result, once it is closed with a vote at least.
StagePart ==
  /\ stage \in {"joined", "open", "closing", "reporting", "over"}
  /\ said \in Seq(Messages)
  /\ stage = "joined" => said = <<>> /\ DOMAIN votes = {}
  /\ stage \in {"joined", "open", "closing"} => Outcomes = {}
  /\ stage = "closing" => DOMAIN votes # {}
  /\ stage = "reporting" => Outcomes # {}
  /\ \A j, k \in Outcomes : j = k

\* The votes are those of the acknowledged voters.
AckPart ==
  /\ AckedBefore(Len(said)) = Counts(votes)
  /\ \A k \in DOMAIN said : said[k].type = "vote.ack" /\ said[k].counted =>
       said[k].voter \in DOMAIN votes

\* A result has the events of its winners.
EventPart ==
  \A k \in Outcomes :
    said[k].events = [n \in 1 .. Len(said[k].winners) |-> EventOf(said[k].winners[n])]

TallyInv ==
  VotePart /\ StagePart /\ AckPart /\ EventPart /\ AlwaysPasses /\ AckedIsCounted /\ RulesKept

-----------------------------------------------------------------------------
(* Counting *)

\* Every vote is counted for one option.
LEMMA CountsTotal ==
  ASSUME NEW of, IsFiniteSet(DOMAIN of), of \in [DOMAIN of -> Options]
  PROVE  /\ Counts(of) \in [Options -> Nat]
         /\ Total(Counts(of)) = Cardinality(DOMAIN of)
         /\ Cardinality(DOMAIN of) \in Nat
<1> DEFINE For(c) == {v \in DOMAIN of : of[v] = c}
<1>1. \A c \in Options : IsFiniteSet(For(c)) /\ Cardinality(For(c)) \in Nat
  BY FS_Subset, FS_CardinalityType
<1>2. Counts(of) = [c \in Options |-> Cardinality(For(c))]
  BY DEF Counts
<1>3. Cardinality(For(1) \cup For(2)) = Cardinality(For(1)) + Cardinality(For(2))
      /\ IsFiniteSet(For(1) \cup For(2))
  <2>1. For(1) \cap For(2) = {}
    OBVIOUS
  <2>2. IsFiniteSet(For(1)) /\ IsFiniteSet(For(2))
        /\ Cardinality(For(1)) \in Nat /\ Cardinality(For(2)) \in Nat
    BY <1>1 DEF Options
  <2>3. IsFiniteSet(For(1) \cup For(2))
        /\ Cardinality(For(1) \cup For(2))
             = Cardinality(For(1)) + Cardinality(For(2)) - Cardinality(For(1) \cap For(2))
    BY <2>2, FS_Union, Zenon
  <2>4. Cardinality(For(1) \cap For(2)) = 0
    BY <2>1, FS_EmptySet, Zenon
  <2> HIDE DEF For
  <2> QED
    BY <2>2, <2>3, <2>4
<1>4. Cardinality((For(1) \cup For(2)) \cup For(3))
        = Cardinality(For(1)) + Cardinality(For(2)) + Cardinality(For(3))
  <2>1. (For(1) \cup For(2)) \cap For(3) = {}
    OBVIOUS
  <2>2. IsFiniteSet(For(3)) /\ Cardinality(For(3)) \in Nat
        /\ Cardinality(For(1)) \in Nat /\ Cardinality(For(2)) \in Nat
    BY <1>1 DEF Options
  <2>3. Cardinality((For(1) \cup For(2)) \cup For(3))
          = Cardinality(For(1) \cup For(2)) + Cardinality(For(3))
            - Cardinality((For(1) \cup For(2)) \cap For(3))
    BY <1>3, <2>2, FS_Union, Zenon
  <2>4. Cardinality((For(1) \cup For(2)) \cap For(3)) = 0
    BY <2>1, FS_EmptySet, Zenon
  <2> HIDE DEF For
  <2> QED
    BY <1>3, <2>2, <2>3, <2>4
<1>5. (For(1) \cup For(2)) \cup For(3) = DOMAIN of
  BY DEF Options
<1>6. Counts(of)[1] = Cardinality(For(1)) /\ Counts(of)[2] = Cardinality(For(2))
      /\ Counts(of)[3] = Cardinality(For(3))
  BY <1>2 DEF Options
<1>7. Counts(of) \in [Options -> Nat]
  BY <1>1, <1>2
<1>8. Cardinality(DOMAIN of) \in Nat
  BY FS_CardinalityType
<1> HIDE DEF For
<1> QED
  BY <1>4, <1>5, <1>6, <1>7, <1>8 DEF Total

Leaders(counts) == {c \in Options : \A d \in Options : counts[c] >= counts[d]}

\* There is a most voted option, and Max finds its votes.
LEMMA BestOfAll ==
  ASSUME NEW counts \in [Options -> Nat]
  PROVE  /\ Leaders(counts) # {}
         /\ Max(Range(counts)) \in Nat
         /\ Leaders(counts) = {c \in Options : counts[c] = Max(Range(counts))}
         /\ Max(Range(counts)) = 0 => Total(counts) = 0
<1>1. counts[1] \in Nat /\ counts[2] \in Nat /\ counts[3] \in Nat
      /\ Options = {1, 2, 3}
  BY DEF Options
<1>2. PICK c \in Options : \A d \in Options : counts[c] >= counts[d]
  BY <1>1
<1>3. Range(counts) = {counts[d] : d \in Options}
  BY DEF Range
<1>4. counts[c] \in Range(counts) /\ \A y \in Range(counts) : counts[c] >= y
  BY <1>2, <1>3
<1>5. Max(Range(counts)) \in Range(counts)
      /\ \A y \in Range(counts) : Max(Range(counts)) >= y
  BY <1>4 DEF Max
<1>6. Max(Range(counts)) = counts[c] /\ counts[c] \in Nat
  <2>1. counts[c] \in Nat /\ Range(counts) \subseteq Nat
    BY <1>3
  <2>2. Max(Range(counts)) \in Nat /\ Max(Range(counts)) >= counts[c]
        /\ counts[c] >= Max(Range(counts))
    BY <1>4, <1>5, <2>1, Zenon
  <2> QED
    BY <2>1, <2>2
<1>7. \A d \in Options : counts[d] \in Nat
  OBVIOUS
<1>8. Leaders(counts) = {d \in Options : counts[d] = counts[c]}
  BY <1>2, <1>6, <1>7 DEF Leaders
<1>9. counts[c] = 0 => Total(counts) = 0
  BY <1>1, <1>2 DEF Total
<1> QED
  BY <1>2, <1>6, <1>8, <1>9

\* Three options have three identifiers.
LEMMA ThreeEvents == Cardinality({11, 12, 13}) = 3
<1>1. {11, 12, 13} = ({11} \cup {12}) \cup {13} /\ 12 \notin {11} /\ 13 \notin {11} \cup {12}
  OBVIOUS
<1>2. IsFiniteSet({11}) /\ Cardinality({11}) = 1
  BY FS_Singleton, Zenon
<1>3. IsFiniteSet({11} \cup {12}) /\ Cardinality({11} \cup {12}) = 1 + 1
  BY <1>1, <1>2, FS_AddElement, Zenon
<1>4. Cardinality(({11} \cup {12}) \cup {13}) = Cardinality({11} \cup {12}) + 1
  BY <1>1, <1>3, FS_AddElement, Zenon
<1> QED
  BY <1>1, <1>3, <1>4

\* The result of a round with a vote follows the rules of the protocol, and of
\* the game.
LEMMA ResultIsRight ==
  ASSUME VotePart, DOMAIN votes # {}
  PROVE  LET m == Closed(votes)
         IN  /\ m \in Results /\ Passes(m) /\ m.counts = Counts(votes)
             /\ Len(m.winners) \in 1 .. 3
             /\ m.winners = IF Cardinality(Leaders(m.counts)) = 1
                            THEN <<CHOOSE c \in Leaders(m.counts) : TRUE>> ELSE <<1, 2, 3>>
             /\ \A c \in Leaders(m.counts) : m.winning = m.counts[c]
             /\ m.events = [n \in 1 .. Len(m.winners) |-> EventOf(m.winners[n])]
<1> DEFINE m == Closed(votes)
           counts == Counts(votes)
           best == Max(Range(counts))
           leaders == Leaders(counts)
<1>1. /\ counts \in [Options -> Nat] /\ Total(counts) = Cardinality(DOMAIN votes)
      /\ Cardinality(DOMAIN votes) \in Nat /\ Cardinality(DOMAIN votes) # 0
  BY CountsTotal, FS_EmptySet DEF VotePart
<1>2. /\ leaders # {} /\ best \in Nat /\ leaders = {c \in Options : counts[c] = best}
      /\ best # 0
  BY <1>1, BestOfAll
<1> DEFINE o == Outcome(counts)
<1>3. o = IF Cardinality(leaders) > 1
          THEN [reason |-> "tie_all", winners |-> <<1, 2, 3>>, winning |-> best]
          ELSE [reason |-> "winner", winning |-> best,
                winners |-> <<CHOOSE c \in Options : counts[c] = best>>]
  BY <1>2 DEF Outcome
<1>4. m = [type |-> "vote.closed", reason |-> o.reason, winners |-> o.winners,
           events |-> [k \in DOMAIN o.winners |-> EventOf(o.winners[k])],
           winning |-> o.winning, counts |-> counts, total |-> Cardinality(DOMAIN votes)]
  BY DEF Closed
<1>5. IsFiniteSet(leaders) /\ Cardinality(leaders) \in Nat /\ Cardinality(leaders) # 0
      /\ leaders \subseteq Options
  <2>1. IsFiniteSet(Options) /\ leaders \in SUBSET Options
    <3>1. 1 \in Int /\ 3 \in Int
      OBVIOUS
    <3>2. IsFiniteSet(1 .. 3)
      BY <3>1, FS_Interval, Zenon
    <3> QED
      BY <3>2 DEF Options, Leaders
  <2> QED
    BY <1>2, <2>1, FS_Subset, FS_CardinalityType, FS_EmptySet
<1> HIDE DEF best, leaders, o, m, counts
<1>6. CASE Cardinality(leaders) > 1
  <2>1. o.reason = "tie_all" /\ o.winners = <<1, 2, 3>> /\ o.winning = best
    BY <1>3, <1>6
  <2>2. /\ m.type = "vote.closed" /\ m.reason = "tie_all" /\ m.winners = <<1, 2, 3>>
        /\ m.winning = best /\ m.counts = counts /\ m.total = Cardinality(DOMAIN votes)
        /\ m.events = [k \in DOMAIN o.winners |-> EventOf(o.winners[k])]
    BY <1>4, <2>1
  <2>3. DOMAIN o.winners = 1 .. 3 /\ Len(<<1, 2, 3>>) = 3
    BY <2>1
  <2>4. m.events = <<11, 12, 13>> /\ Len(<<11, 12, 13>>) = 3 /\ DOMAIN <<11, 12, 13>> = 1 .. 3
    <3>1. [k \in 1 .. 3 |-> EventOf(<<1, 2, 3>>[k])] = <<11, 12, 13>>
      BY DEF EventOf
    <3> QED
      BY <2>1, <2>2, <2>3, <3>1
  <2>5. ToSet(m.events) = {11, 12, 13}
    BY <2>4 DEF ToSet
  <2>6. m \in Results
    <3>1. <<1, 2, 3>> \in Seq(Options) /\ <<11, 12, 13>> \in Seq(Nat)
      BY DEF Options
    <3>2. m = [type |-> "vote.closed", reason |-> "tie_all", winners |-> <<1, 2, 3>>,
               events |-> <<11, 12, 13>>, winning |-> best, counts |-> counts,
               total |-> Cardinality(DOMAIN votes)]
      BY <1>4, <2>1, <2>2, <2>4
    <3> QED
      BY <1>1, <1>2, <3>1, <3>2 DEF Results
  <2>7. ClosedRule(m)
    BY <1>1, <2>2, <2>3, <2>4, <2>5, ThreeEvents DEF ClosedRule, counts
  <2>8. \A c \in leaders : best = counts[c]
    BY <1>2
  <2> QED
    BY <1>5, <1>6, <2>2, <2>3, <2>4, <2>6, <2>7, <2>8, <2>1 DEF Passes, leaders, counts, m
<1>7. CASE ~(Cardinality(leaders) > 1)
  <2>1. Cardinality(leaders) = 1
    BY <1>5, <1>7
  <2>2. PICK x : leaders = {x}
    BY <1>5, <2>1, FS_Singleton
  <2>3. x \in Options /\ x \in Nat
    BY <1>5, <2>2 DEF Options
  <2>4. (CHOOSE c \in Options : counts[c] = best) = x /\ (CHOOSE c \in leaders : TRUE) = x
    BY <1>2, <2>2, <2>3
  <2>5. o.reason = "winner" /\ o.winners = <<x>> /\ o.winning = best
    BY <1>3, <1>7, <2>4
  <2>6. m.events = <<10 + x>>
    <3>1. m.events = [k \in DOMAIN <<x>> |-> EventOf(<<x>>[k])]
      BY <1>4, <2>5
    <3>2. DOMAIN <<x>> = 1 .. 1 /\ <<x>>[1] = x
      OBVIOUS
    <3>3. [k \in 1 .. 1 |-> EventOf(<<x>>[k])] = <<10 + x>>
      BY <3>2 DEF EventOf
    <3> QED
      BY <3>1, <3>2, <3>3
  <2>7. m = [type |-> "vote.closed", reason |-> "winner", winners |-> <<x>>,
             events |-> <<10 + x>>, winning |-> best, counts |-> counts,
             total |-> Cardinality(DOMAIN votes)]
    BY <1>4, <2>5, <2>6
  <2>8. m \in Results
    <3>1. <<x>> \in Seq(Options) /\ <<10 + x>> \in Seq(Nat)
      BY <2>3
    <3> QED
      BY <1>1, <1>2, <2>7, <3>1 DEF Results
  <2>9. ToSet(<<10 + x>>) = {10 + x} /\ Len(<<10 + x>>) = 1 /\ Len(<<x>>) = 1
    BY DEF ToSet
  <2>10. ClosedRule(m)
    <3>1. Cardinality({10 + x}) = 1
      BY FS_Singleton, Zenon
    <3>2. /\ m.reason = "winner" /\ m.winners = <<x>> /\ m.events = <<10 + x>>
          /\ m.counts = counts /\ m.total = Cardinality(DOMAIN votes)
      BY <2>7
    <3> QED
      BY <1>1, <2>9, <3>1, <3>2 DEF ClosedRule
  <2>11. m.events = [n \in 1 .. 1 |-> EventOf(m.winners[n])]
    BY <2>7 DEF EventOf
  <2>12. \A c \in leaders : best = counts[c]
    BY <1>2
  <2> QED
    BY <2>1, <2>4, <2>7, <2>8, <2>9, <2>10, <2>11, <2>12 DEF Passes, leaders, counts, m
<1> QED
  BY <1>6, <1>7 DEF m, leaders, counts

-----------------------------------------------------------------------------
(* The record of what was said *)

\* AckedBefore, of any record.
AckedIn(s, n) ==
  [c \in Options |-> Cardinality({k \in 1 .. n :
     s[k].type = "vote.ack" /\ s[k].counted /\ s[k].choice = c})]

\* What was acknowledged before does not change when more is said,
LEMMA AckedEarlier ==
  ASSUME NEW s, NEW t, NEW n \in Nat, \A k \in 1 .. n : t[k] = s[k]
  PROVE  AckedIn(t, n) = AckedIn(s, n)
<1>1. ASSUME NEW c \in Options
      PROVE  {k \in 1 .. n : t[k].type = "vote.ack" /\ t[k].counted /\ t[k].choice = c}
             = {k \in 1 .. n : s[k].type = "vote.ack" /\ s[k].counted /\ s[k].choice = c}
  OBVIOUS
<1> QED
  BY <1>1 DEF AckedIn

\* and one more message makes it one more vote at most.
LEMMA AckedNext ==
  ASSUME NEW s, NEW n \in Nat, NEW c \in Options
  PROVE  /\ AckedIn(s, n)[c] \in Nat
         /\ AckedIn(s, n + 1)[c] =
              IF s[n + 1].type = "vote.ack" /\ s[n + 1].counted /\ s[n + 1].choice = c
              THEN AckedIn(s, n)[c] + 1 ELSE AckedIn(s, n)[c]
<1> DEFINE Hit(k) == s[k].type = "vote.ack" /\ s[k].counted /\ s[k].choice = c
           A == {k \in 1 .. n : Hit(k)}
           B == {k \in 1 .. n + 1 : Hit(k)}
<1>1. AckedIn(s, n)[c] = Cardinality(A) /\ AckedIn(s, n + 1)[c] = Cardinality(B)
  BY DEF AckedIn
<1>2. IsFiniteSet(A) /\ Cardinality(A) \in Nat
  <2>1. IsFiniteSet(1 .. n) /\ A \in SUBSET (1 .. n)
    BY FS_Interval
  <2> QED
    BY <2>1, FS_Subset, FS_CardinalityType
<1>3. CASE Hit(n + 1)
  <2>1. B = A \cup {n + 1} /\ n + 1 \notin A
    BY <1>3
  <2> HIDE DEF A, B
  <2>2. Cardinality(B) = Cardinality(A) + 1
    BY <1>2, <2>1, FS_AddElement, Zenon
  <2> QED
    BY <1>1, <1>2, <1>3, <2>2
<1>4. CASE ~Hit(n + 1)
  <2>1. B = A
    BY <1>4
  <2> QED
    BY <1>1, <1>2, <1>4, <2>1
<1> QED
  BY <1>3, <1>4

\* A first vote is one vote more for its choice, a second one changes nothing.
LEMMA CountsNext ==
  ASSUME VotePart, NEW voter \in Voters, NEW choice \in Options, NEW new,
         DOMAIN new = DOMAIN votes \cup {voter},
         \A v \in DOMAIN new : new[v] = IF v \in DOMAIN votes THEN votes[v] ELSE choice
  PROVE  /\ IsFiniteSet(DOMAIN new)
         /\ \A c \in Options :
              Counts(new)[c] = IF voter \notin DOMAIN votes /\ c = choice
                               THEN Counts(votes)[c] + 1 ELSE Counts(votes)[c]
<1>1. DOMAIN new = DOMAIN votes \cup {voter}
  OBVIOUS
<1>2. IsFiniteSet(DOMAIN new)
  BY <1>1, FS_AddElement, Zenon DEF VotePart
<1>3. ASSUME NEW c \in Options
      PROVE  Counts(new)[c] = IF voter \notin DOMAIN votes /\ c = choice
                              THEN Counts(votes)[c] + 1 ELSE Counts(votes)[c]
  <2> DEFINE A == {v \in DOMAIN votes : votes[v] = c}
             B == {v \in DOMAIN new : new[v] = c}
  <2>1. Counts(votes)[c] = Cardinality(A) /\ Counts(new)[c] = Cardinality(B)
    BY DEF Counts
  <2>2. IsFiniteSet(A)
    <3>1. A \in SUBSET (DOMAIN votes)
      OBVIOUS
    <3> QED
      BY <3>1, FS_Subset, Zenon DEF VotePart
  <2>3. CASE voter \notin DOMAIN votes /\ c = choice
    <3>1. B = A \cup {voter} /\ voter \notin A
      BY <1>1, <2>3
    <3> HIDE DEF A, B
    <3>2. Cardinality(B) = Cardinality(A) + 1
      BY <2>2, <3>1, FS_AddElement, Zenon
    <3> QED
      BY <2>1, <2>3, <3>2
  <2>4. CASE ~(voter \notin DOMAIN votes /\ c = choice)
    <3>1. B = A
      BY <1>1, <2>4
    <3> QED
      BY <2>1, <2>4, <3>1
  <2> QED
    BY <2>3, <2>4
<1> QED
  BY <1>2, <1>3

\* The account of the votes, when something else than an acknowledgement is said.
LEMMA SayingOne ==
  ASSUME TallyInv, NEW m \in Messages, Passes(m), said' = Append(said, m), UNCHANGED votes,
         m.type # "vote.ack",
         m.type \in {"vote.snapshot", "vote.closed"} => m.counts = Counts(votes)
  PROVE  /\ VotePart' /\ AckPart' /\ AlwaysPasses' /\ AckedIsCounted'
         /\ said' \in Seq(Messages) /\ Len(said') = Len(said) + 1 /\ said'[Len(said) + 1] = m
         /\ \A k \in 1 .. Len(said) : said'[k] = said[k]
         /\ Len(said) \in Nat /\ DOMAIN said = 1 .. Len(said) /\ DOMAIN said' = 1 .. Len(said')
<1> DEFINE n == Len(said)
<1>1. VotePart /\ AckPart /\ AlwaysPasses /\ AckedIsCounted /\ said \in Seq(Messages)
  BY DEF TallyInv, StagePart
<1>2. /\ said' \in Seq(Messages) /\ Len(said') = n + 1 /\ said'[n + 1] = m
      /\ \A k \in 1 .. n : said'[k] = said[k]
      /\ n \in Nat /\ DOMAIN said = 1 .. n /\ DOMAIN said' = 1 .. n + 1
  BY <1>1
<1>3. VotePart'
  BY <1>1 DEF VotePart
<1>4. \A k \in 1 .. n + 1 : k \in 1 .. n \/ k = n + 1
  BY <1>2
<1>5. AlwaysPasses'
  BY <1>1, <1>2, <1>4 DEF AlwaysPasses
<1>6. AckedBefore(n) = Counts(votes) /\ AckedBefore(n) = AckedIn(said, n)
  BY <1>1 DEF AckPart, AckedBefore, AckedIn
<1>7. AckedIn(said', n) = Counts(votes)
  BY <1>2, <1>6, AckedEarlier
<1>8. AckedIn(said', n + 1) = Counts(votes)
  <2>1. ASSUME NEW c \in Options
        PROVE  AckedIn(said', n + 1)[c] = AckedIn(said', n)[c]
    <3>1. said'[n + 1].type # "vote.ack"
      BY <1>2
    <3> QED
      BY <1>2, <3>1, AckedNext
  <2>2. AckedIn(said', n + 1) = [c \in Options |-> AckedIn(said', n + 1)[c]]
        /\ AckedIn(said', n) = [c \in Options |-> AckedIn(said', n)[c]]
    BY DEF AckedIn
  <2> QED
    BY <1>7, <2>1, <2>2
<1>9. \A k : AckedBefore(k)' = AckedIn(said', k) /\ AckedBefore(k) = AckedIn(said, k)
  BY DEF AckedBefore, AckedIn
<1>10. AckPart'
  <2>1. AckedBefore(Len(said))' = Counts(votes)'
    BY <1>2, <1>8, <1>9 DEF AckedBefore, AckedIn
  <2>2. ASSUME NEW k \in DOMAIN said', said'[k].type = "vote.ack", said'[k].counted
        PROVE  said'[k].voter \in DOMAIN votes'
    <3>1. k \in 1 .. n /\ said'[k] = said[k]
      BY <1>2, <1>4, <2>2
    <3> QED
      BY <1>1, <1>2, <2>2, <3>1 DEF AckPart
  <2> QED
    BY <2>1, <2>2 DEF AckPart
<1>11. AckedIsCounted'
  <2>1. ASSUME NEW k \in DOMAIN said', said'[k].type \in {"vote.snapshot", "vote.closed"}
        PROVE  said'[k].counts = AckedBefore(k)'
    <3>1. CASE k = n + 1
      BY <1>2, <1>8, <1>9, <2>1, <3>1
    <3>2. CASE k \in 1 .. n
      <4>1. said'[k].counts = AckedIn(said, k)
        BY <1>1, <1>2, <1>9, <2>1, <3>2 DEF AckedIsCounted
      <4>2. k \in Nat /\ \A l \in 1 .. k : said'[l] = said[l]
        BY <1>2, <3>2
      <4>3. AckedIn(said', k) = AckedIn(said, k)
        BY <4>2, AckedEarlier
      <4> QED
        BY <1>9, <4>1, <4>3
    <3> QED
      BY <1>2, <1>4, <3>1, <3>2
  <2>2. ASSUME NEW j \in DOMAIN said', NEW k \in DOMAIN said',
               said'[j].type = "vote.ack", said'[j].counted,
               said'[k].type = "vote.ack", said'[k].counted, said'[j].voter = said'[k].voter
        PROVE  j = k
    <3>1. j \in 1 .. n /\ k \in 1 .. n /\ said'[j] = said[j] /\ said'[k] = said[k]
      BY <1>2, <1>4, <2>2
    <3> QED
      BY <1>1, <1>2, <2>2, <3>1 DEF AckedIsCounted
  <2> QED
    BY <2>1, <2>2 DEF AckedIsCounted
<1> QED
  BY <1>2, <1>3, <1>5, <1>10, <1>11

-----------------------------------------------------------------------------
(* Results *)

\* What RulesKept says of a result, in terms of the record.
Follows(s, k) ==
  LET m == s[k]
  IN  /\ m.winners = IF Cardinality(Leaders(m.counts)) = 1
                     THEN <<CHOOSE c \in Leaders(m.counts) : TRUE>> ELSE <<1, 2, 3>>
      /\ \A c \in Leaders(m.counts) : m.winning = m.counts[c]
      /\ Len(s) - k <= Len(m.winners)
      /\ \A n \in 1 .. Len(s) - k : /\ s[k + n].type = "effect.resolved"
                                    /\ s[k + n].choice = m.winners[n]
                                    /\ s[k + n].event = EventOf(m.winners[n])

\* The effects after a result.
LEMMA EffectsShape ==
  ASSUME NEW s \in Seq(Messages), NEW k \in 1 .. Len(s)
  PROVE  LET effects == SubSeq(s, k + 1, Len(s))
         IN  /\ Len(effects) = Len(s) - k /\ DOMAIN effects = 1 .. Len(s) - k
             /\ \A n \in 1 .. Len(s) - k : effects[n] = s[k + n]
<1> DEFINE effects == SubSeq(s, k + 1, Len(s))
<1>1. Len(s) \in Nat
  OBVIOUS
<1>2. /\ effects \in Seq(Messages) /\ Len(effects) = Len(s) - k
      /\ \A n \in 1 .. Len(s) - k : effects[n] = s[(k + 1) + n - 1]
  BY <1>1
<1>3. \A n \in 1 .. Len(s) - k : (k + 1) + n - 1 = k + n
  BY <1>1
<1>4. DOMAIN effects = 1 .. Len(effects)
  BY <1>2
<1> HIDE DEF effects
<1> QED
  BY <1>2, <1>3, <1>4 DEF effects

\* A result keeps the rules if its record follows from it,
LEMMA KeptFollows ==
  ASSUME said \in Seq(Messages), RulesKept, NEW k \in Outcomes
  PROVE  Follows(said, k)
<1> DEFINE effects == SubSeq(said, k + 1, Len(said))
<1>1. k \in 1 .. Len(said)
  BY DEF Outcomes
<1>2. /\ Len(effects) = Len(said) - k /\ DOMAIN effects = 1 .. Len(said) - k
      /\ \A n \in 1 .. Len(said) - k : effects[n] = said[k + n]
  BY <1>1, EffectsShape
<1>3. /\ said[k].winners = IF Cardinality(Leaders(said[k].counts)) = 1
                           THEN <<CHOOSE c \in Leaders(said[k].counts) : TRUE>> ELSE <<1, 2, 3>>
      /\ \A c \in Leaders(said[k].counts) : said[k].winning = said[k].counts[c]
      /\ Len(effects) <= Len(said[k].winners)
      /\ \A n \in DOMAIN effects : /\ effects[n].type = "effect.resolved"
                                   /\ effects[n].choice = said[k].winners[n]
                                   /\ effects[n].event = EventOf(said[k].winners[n])
  BY Zenon DEF RulesKept, Leaders
<1> HIDE DEF effects
<1>4. \A n \in 1 .. Len(said) - k : /\ said[k + n].type = "effect.resolved"
                                    /\ said[k + n].choice = said[k].winners[n]
                                    /\ said[k + n].event = EventOf(said[k].winners[n])
  <2>1. ASSUME NEW n \in 1 .. Len(said) - k
        PROVE  /\ said[k + n].type = "effect.resolved"
               /\ said[k + n].choice = said[k].winners[n]
               /\ said[k + n].event = EventOf(said[k].winners[n])
    <3>1. n \in DOMAIN effects /\ effects[n] = said[k + n]
      BY <1>2
    <3> QED
      BY <1>3, <3>1, Zenon
  <2> QED
    BY <2>1
<1>5. Len(said) - k <= Len(said[k].winners)
  BY <1>2, <1>3
<1> QED
  BY <1>3, <1>4, <1>5, Zenon DEF Follows

\* and after a step only if.
LEMMA FollowsKept ==
  ASSUME said' \in Seq(Messages), \A k \in Outcomes' : Follows(said', k)
  PROVE  RulesKept'
<1>1. ASSUME NEW k \in Outcomes'
      PROVE  LET m == said'[k]
                 effects == SubSeq(said', k + 1, Len(said'))
             IN  /\ m.winners = IF Cardinality(Leaders(m.counts)) = 1
                                THEN <<CHOOSE c \in Leaders(m.counts) : TRUE>> ELSE <<1, 2, 3>>
                 /\ \A c \in Leaders(m.counts) : m.winning = m.counts[c]
                 /\ Len(effects) <= Len(m.winners)
                 /\ \A n \in DOMAIN effects : /\ effects[n].type = "effect.resolved"
                                              /\ effects[n].choice = m.winners[n]
                                              /\ effects[n].event = EventOf(m.winners[n])
  <2> DEFINE effects == SubSeq(said', k + 1, Len(said'))
  <2>1. k \in 1 .. Len(said')
    BY DEF Outcomes
  <2>2. /\ Len(effects) = Len(said') - k /\ DOMAIN effects = 1 .. Len(said') - k
        /\ \A n \in 1 .. Len(said') - k : effects[n] = said'[k + n]
    BY <2>1, EffectsShape
  <2>3. Follows(said', k)
    OBVIOUS
  <2> HIDE DEF effects
  <2> QED
    BY <2>2, <2>3 DEF Follows, effects
<1> QED
  BY <1>1, Zenon DEF RulesKept, Leaders

-----------------------------------------------------------------------------
(* The steps of a round *)

\* A round may end at any moment.
LEMMA EndKeeps ==
  ASSUME TallyInv, UNCHANGED <<votes, said>>, stage' \in {stage, "over"}
  PROVE  TallyInv'
<1>1. votes' = votes /\ said' = said
  OBVIOUS
<1>2. Outcomes' = Outcomes
  BY <1>1 DEF Outcomes
<1>3. VotePart'
  BY <1>1 DEF TallyInv, VotePart
<1>4. StagePart'
  <2>1. CASE stage' = stage
    BY <1>1, <1>2, <2>1, Zenon DEF TallyInv, StagePart
  <2>2. CASE stage' = "over"
    BY <1>1, <1>2, <2>2 DEF TallyInv, StagePart
  <2> QED
    BY <2>1, <2>2
<1>5. \A k : AckedBefore(k)' = AckedBefore(k)
  BY <1>1 DEF AckedBefore
<1>6. AckPart'
  BY <1>1, Zenon DEF TallyInv, AckPart, AckedBefore, Counts
<1>7. AlwaysPasses'
  BY <1>1 DEF TallyInv, AlwaysPasses
<1>8. AckedIsCounted'
  <2>1. \A k \in DOMAIN said' : said'[k].type \in {"vote.snapshot", "vote.closed"} =>
          said'[k].counts = AckedBefore(k)'
    BY <1>1, <1>5 DEF TallyInv, AckedIsCounted
  <2>2. \A j, k \in DOMAIN said' :
          /\ said'[j].type = "vote.ack" /\ said'[j].counted
          /\ said'[k].type = "vote.ack" /\ said'[k].counted
          /\ said'[j].voter = said'[k].voter
          => j = k
    BY <1>1 DEF TallyInv, AckedIsCounted
  <2> QED
    BY <2>1, <2>2, Zenon DEF AckedIsCounted
<1>9. EventPart'
  BY <1>1, <1>2 DEF TallyInv, EventPart
<1>10. RulesKept'
  <2>1. said \in Seq(Messages) /\ RulesKept
    BY DEF TallyInv, StagePart
  <2>2. \A k \in Outcomes : Follows(said, k)
    BY <2>1, KeptFollows
  <2>3. said' \in Seq(Messages) /\ \A k \in Outcomes' : Follows(said', k)
    BY <1>1, <1>2, <2>1, <2>2
  <2> QED
    BY <2>3, FollowsKept
<1> QED
  BY <1>3, <1>4, <1>6, <1>7, <1>8, <1>9, <1>10 DEF TallyInv

\* The round opens: nothing is counted yet.
LEMMA OpensKeeps ==
  ASSUME TallyInv, Opens
  PROVE  TallyInv'
<1>1. /\ said = <<>> /\ DOMAIN votes = {} /\ VotePart
      /\ said' = <<[type |-> "game.sync"], [type |-> "vote.opened", choices |-> <<1, 2, 3>>]>>
      /\ stage' = "open" /\ votes' = votes
  BY DEF TallyInv, StagePart, Opens
<1>2. /\ said' \in Seq(Messages) /\ Len(said') = 2 /\ DOMAIN said' = {1, 2}
      /\ said'[1] = [type |-> "game.sync"]
      /\ said'[2] = [type |-> "vote.opened", choices |-> <<1, 2, 3>>]
  BY <1>1 DEF Messages, Others
<1>3. \A k \in DOMAIN said' : said'[k].type \notin {"vote.ack", "vote.snapshot", "vote.closed"}
  BY <1>2
<1>4. VotePart'
  BY <1>1 DEF VotePart
<1>5. Outcomes' = {}
  BY <1>3 DEF Outcomes
<1>6. StagePart'
  BY <1>1, <1>2, <1>5 DEF StagePart
<1>7. AlwaysPasses'
  BY <1>2 DEF AlwaysPasses, Passes, OpenedRule
<1>8. AckedIsCounted' /\ RulesKept' /\ EventPart'
  BY <1>3, <1>5 DEF AckedIsCounted, RulesKept, EventPart
<1>9. AckPart'
  <2>1. ASSUME NEW c \in Options
        PROVE  /\ {k \in 1 .. 2 : said'[k].type = "vote.ack" /\ said'[k].counted
                                   /\ said'[k].choice = c} = {}
               /\ {v \in DOMAIN votes' : votes'[v] = c} = {}
    BY <1>1, <1>2, <1>3
  <2>2. AckedBefore(Len(said))' = Counts(votes)'
    BY <1>2, <2>1 DEF AckedBefore, Counts
  <2> QED
    BY <1>3, <2>2 DEF AckPart
<1> QED
  BY <1>4, <1>6, <1>7, <1>8, <1>9 DEF TallyInv

\* A vote is counted if it is acknowledged, and the snapshot shows it.
LEMMA CastKeeps ==
  ASSUME TallyInv, NEW voter \in Voters, NEW choice \in Options, CountsCast(voter, choice)
  PROVE  TallyInv'
<1> DEFINE n == Len(said)
           first == voter \notin DOMAIN votes
           a == Ack(voter, choice, first)
           b == Snapshot(votes')
<1>1. /\ VotePart /\ StagePart /\ AckPart /\ AlwaysPasses /\ AckedIsCounted
      /\ stage = "open" /\ said \in Seq(Messages) /\ Outcomes = {}
  BY DEF TallyInv, StagePart, CountsCast
<1>2. /\ votes' = [v \in DOMAIN votes \cup {voter} |-> IF v \in DOMAIN votes THEN votes[v]
                                                       ELSE choice]
      /\ said' = said \o <<a, b>>
      /\ stage' \in {"closing", "open"}
  BY DEF CountsCast
<1>3. /\ DOMAIN votes' = DOMAIN votes \cup {voter} /\ IsFiniteSet(DOMAIN votes')
      /\ votes' \in [DOMAIN votes' -> Options]
      /\ \A c \in Options :
           Counts(votes')[c] = IF first /\ c = choice THEN Counts(votes)[c] + 1
                               ELSE Counts(votes)[c]
  <2>1. /\ DOMAIN votes' = DOMAIN votes \cup {voter}
        /\ \A v \in DOMAIN votes' : votes'[v] = IF v \in DOMAIN votes THEN votes[v] ELSE choice
        /\ votes' = [v \in DOMAIN votes' |-> votes'[v]]
    BY <1>2
  <2>2. votes' \in [DOMAIN votes' -> Options]
    BY <1>1, <2>1 DEF VotePart
  <2>3. PICK new : new = votes'
    OBVIOUS
  <2>4. /\ DOMAIN new = DOMAIN votes \cup {voter}
        /\ \A v \in DOMAIN new : new[v] = IF v \in DOMAIN votes THEN votes[v] ELSE choice
    BY <2>1, <2>3
  <2>5. /\ IsFiniteSet(DOMAIN new)
        /\ \A c \in Options :
             Counts(new)[c] = IF voter \notin DOMAIN votes /\ c = choice
                              THEN Counts(votes)[c] + 1 ELSE Counts(votes)[c]
    <3>1. VotePart /\ voter \in Voters /\ choice \in Options
      BY <1>1
    <3>2. \A c \in Options :
             Counts(new)[c] = IF voter \notin DOMAIN votes /\ c = choice
                              THEN Counts(votes)[c] + 1 ELSE Counts(votes)[c]
      BY <3>1, <2>4, CountsNext
    <3>3. IsFiniteSet(DOMAIN new)
      BY <3>1, <2>4, CountsNext
    <3> QED
      BY <3>2, <3>3, Zenon
  <2> QED
    BY <2>1, <2>2, <2>3, <2>5, Zenon
<1>4. VotePart'
  BY <1>1, <1>3 DEF VotePart
<1>5. /\ Counts(votes') \in [Options -> Nat] /\ Total(Counts(votes')) = Cardinality(DOMAIN votes')
      /\ Cardinality(DOMAIN votes') \in Nat
  BY <1>3, CountsTotal
<1>6. /\ a \in Messages /\ a.type = "vote.ack" /\ a.voter = voter /\ a.choice = choice
      /\ a.counted = first /\ Passes(a)
  <2>1. a = [type |-> "vote.ack", voter |-> voter, choice |-> choice, counted |-> first,
             status |-> IF first THEN "accepted" ELSE "rejected",
             reason |-> IF first THEN "accepted" ELSE "duplicate"]
    BY DEF Ack
  <2>2. first \in BOOLEAN
    OBVIOUS
  <2> HIDE DEF first, a
  <2>3. CASE first
    BY <2>1, <2>2, <2>3 DEF Messages, Acks, Passes, AckRule
  <2>4. CASE ~first
    BY <2>1, <2>2, <2>4 DEF Messages, Acks, Passes, AckRule
  <2> QED
    BY <2>3, <2>4
<1>7. /\ b \in Messages /\ b.type = "vote.snapshot" /\ b.counts = Counts(votes') /\ Passes(b)
  <2>1. b = [type |-> "vote.snapshot", counts |-> Counts(votes'),
             total |-> Cardinality(DOMAIN votes'), unique |-> Cardinality(DOMAIN votes')]
    BY DEF Snapshot
  <2> HIDE DEF b
  <2>2. b \in Snapshots
    BY <1>5, <2>1 DEF Snapshots
  <2>3. SnapshotRule(b) /\ b.type = "vote.snapshot" /\ b.counts = Counts(votes')
    BY <1>5, <2>1 DEF SnapshotRule
  <2> QED
    BY <2>2, <2>3 DEF Messages, Passes
<1> HIDE DEF a, b
<1>8. /\ said' \in Seq(Messages) /\ Len(said') = n + 2 /\ n \in Nat
      /\ said'[n + 1] = a /\ said'[n + 2] = b
      /\ \A k \in 1 .. n : said'[k] = said[k]
      /\ DOMAIN said = 1 .. n /\ DOMAIN said' = 1 .. n + 2
  <2>1. /\ <<a, b>> \in Seq(Messages) /\ Len(<<a, b>>) = 2
        /\ <<a, b>>[1] = a /\ <<a, b>>[2] = b
    BY <1>6, <1>7
  <2> DEFINE ab == <<a, b>>
  <2> HIDE DEF ab
  <2>2. /\ said' \in Seq(Messages) /\ Len(said') = n + Len(ab)
        /\ \A k \in 1 .. n + Len(ab) : said'[k] = IF k <= n THEN said[k] ELSE ab[k - n]
    BY <1>1, <1>2, <2>1, ConcatProperties DEF ab
  <2>3. Len(ab) = 2 /\ ab[1] = a /\ ab[2] = b /\ n \in Nat
    BY <1>1, <2>1 DEF ab
  <2>4. said'[n + 1] = ab[(n + 1) - n] /\ said'[n + 2] = ab[(n + 2) - n]
    BY <2>2, <2>3
  <2> QED
    BY <1>1, <2>2, <2>3, <2>4
<1>9. \A k \in DOMAIN said' : k \in 1 .. n \/ k = n + 1 \/ k = n + 2
  BY <1>8
<1>10. AlwaysPasses'
  BY <1>1, <1>6, <1>7, <1>8, <1>9 DEF AlwaysPasses
<1>11. Outcomes' = {}
  BY <1>1, <1>6, <1>7, <1>8, <1>9 DEF Outcomes
<1>12. StagePart'
  <2>1. DOMAIN votes' # {}
    BY <1>3
  <2> QED
    BY <1>2, <1>8, <1>11, <2>1 DEF StagePart
<1>13. RulesKept' /\ EventPart'
  BY <1>11 DEF RulesKept, EventPart
<1>14. \A k : AckedBefore(k)' = AckedIn(said', k) /\ AckedBefore(k) = AckedIn(said, k)
  BY DEF AckedBefore, AckedIn
<1>15. AckedIn(said', n) = Counts(votes)
  <2>1. AckedIn(said, n) = Counts(votes)
    BY <1>1, <1>14 DEF AckPart
  <2> QED
    BY <1>8, <2>1, AckedEarlier
<1>16. AckedIn(said', n + 1) = Counts(votes') /\ AckedIn(said', n + 2) = Counts(votes')
  <2>1. ASSUME NEW c \in Options
        PROVE  /\ AckedIn(said', n + 1)[c] = Counts(votes')[c]
               /\ AckedIn(said', n + 2)[c] = Counts(votes')[c]
    <3>1. AckedIn(said', n + 1)[c] = IF first /\ choice = c THEN AckedIn(said', n)[c] + 1
                                     ELSE AckedIn(said', n)[c]
      <4>1. /\ said'[n + 1].type = "vote.ack" /\ said'[n + 1].choice = choice
            /\ said'[n + 1].counted = first /\ n \in Nat
        BY <1>6, <1>8
      <4> HIDE DEF first, n
      <4> QED
        BY <4>1, AckedNext
    <3>2. AckedIn(said', n + 1)[c] = Counts(votes')[c]
      BY <1>3, <1>15, <3>1
    <3>3. n + 1 \in Nat /\ (n + 1) + 1 = n + 2 /\ said'[(n + 1) + 1].type # "vote.ack"
      BY <1>7, <1>8
    <3>4. AckedIn(said', (n + 1) + 1)[c] = AckedIn(said', n + 1)[c]
      BY <3>3, AckedNext, Zenon
    <3> QED
      BY <3>2, <3>3, <3>4
  <2>2. /\ AckedIn(said', n + 1) = [c \in Options |-> AckedIn(said', n + 1)[c]]
        /\ AckedIn(said', n + 2) = [c \in Options |-> AckedIn(said', n + 2)[c]]
        /\ Counts(votes') = [c \in Options |-> Counts(votes')[c]]
    BY DEF AckedIn, Counts
  <2> QED
    BY <2>1, <2>2
<1>17. AckPart'
  <2>1. AckedBefore(Len(said))' = Counts(votes)'
    BY <1>8, <1>14, <1>16 DEF AckedBefore, AckedIn
  <2>2. ASSUME NEW k \in DOMAIN said', said'[k].type = "vote.ack", said'[k].counted
        PROVE  said'[k].voter \in DOMAIN votes'
    <3>1. CASE k \in 1 .. n
      BY <1>1, <1>3, <1>8, <2>2, <3>1 DEF AckPart
    <3>2. CASE k \notin 1 .. n
      BY <1>3, <1>6, <1>7, <1>8, <1>9, <2>2, <3>2
    <3> QED
      BY <3>1, <3>2
  <2> QED
    BY <2>1, <2>2 DEF AckPart
<1>18. AckedIsCounted'
  <2>1. ASSUME NEW k \in DOMAIN said', said'[k].type \in {"vote.snapshot", "vote.closed"}
        PROVE  said'[k].counts = AckedBefore(k)'
    <3>1. CASE k \in 1 .. n
      <4>1. said'[k].counts = AckedIn(said, k)
        BY <1>1, <1>8, <1>14, <2>1, <3>1 DEF AckedIsCounted
      <4>2. k \in Nat /\ \A l \in 1 .. k : said'[l] = said[l]
        BY <1>8, <3>1
      <4>3. AckedIn(said', k) = AckedIn(said, k)
        BY <4>2, AckedEarlier
      <4> QED
        BY <1>14, <4>1, <4>3
    <3>2. CASE k \notin 1 .. n
      <4>1. k = n + 2
        BY <1>6, <1>8, <1>9, <2>1, <3>2
      <4> QED
        BY <1>7, <1>8, <1>14, <1>16, <4>1
    <3> QED
      BY <3>1, <3>2
  <2>2. ASSUME NEW j \in DOMAIN said', NEW k \in DOMAIN said',
               said'[j].type = "vote.ack", said'[j].counted,
               said'[k].type = "vote.ack", said'[k].counted, said'[j].voter = said'[k].voter
        PROVE  j = k
    <3>1. ASSUME NEW l \in DOMAIN said', said'[l].type = "vote.ack", said'[l].counted
          PROVE  \/ l \in 1 .. n /\ said[l] = said'[l] /\ said[l].voter \in DOMAIN votes
                 \/ l = n + 1 /\ said'[l].voter \notin DOMAIN votes
      <4>1. CASE l \in 1 .. n
        BY <1>1, <1>8, <3>1, <4>1 DEF AckPart
      <4>2. CASE l \notin 1 .. n
        BY <1>6, <1>7, <1>8, <1>9, <3>1, <4>2
      <4> QED
        BY <4>1, <4>2
    <3>2. CASE j \in 1 .. n /\ k \in 1 .. n
      BY <1>1, <1>8, <2>2, <3>2 DEF AckedIsCounted
    <3> QED
      BY <2>2, <3>1, <3>2
  <2> QED
    BY <2>1, <2>2 DEF AckedIsCounted
<1> QED
  BY <1>4, <1>10, <1>12, <1>13, <1>17, <1>18 DEF TallyInv

\* The result is that of the votes.
LEMMA ClosesKeeps ==
  ASSUME TallyInv, Closes
  PROVE  TallyInv'
<1> DEFINE m == Closed(votes)
           n == Len(said)
<1>1. /\ VotePart /\ DOMAIN votes # {} /\ Outcomes = {} /\ said \in Seq(Messages)
      /\ said' = Append(said, m) /\ stage' = "reporting" /\ UNCHANGED votes
  BY DEF TallyInv, StagePart, Closes
<1>2. /\ m \in Results /\ Passes(m) /\ m.counts = Counts(votes)
      /\ Len(m.winners) \in 1 .. 3
      /\ m.winners = IF Cardinality(Leaders(m.counts)) = 1
                     THEN <<CHOOSE c \in Leaders(m.counts) : TRUE>> ELSE <<1, 2, 3>>
      /\ \A c \in Leaders(m.counts) : m.winning = m.counts[c]
      /\ m.events = [l \in 1 .. Len(m.winners) |-> EventOf(m.winners[l])]
  BY <1>1, ResultIsRight
<1>3. m \in Messages /\ m.type = "vote.closed"
  BY <1>2 DEF Messages, Results
<1> HIDE DEF m
<1>4. /\ VotePart' /\ AckPart' /\ AlwaysPasses' /\ AckedIsCounted'
      /\ said' \in Seq(Messages) /\ Len(said') = n + 1 /\ said'[n + 1] = m
      /\ \A k \in 1 .. n : said'[k] = said[k]
      /\ n \in Nat /\ DOMAIN said = 1 .. n /\ DOMAIN said' = 1 .. Len(said')
  BY <1>1, <1>2, <1>3, SayingOne
<1>5. Outcomes' = {n + 1}
  BY <1>1, <1>3, <1>4 DEF Outcomes
<1>6. StagePart'
  BY <1>1, <1>4, <1>5 DEF StagePart
<1>7. RulesKept'
  <2>1. Len(said') - (n + 1) = 0 /\ 0 <= Len(m.winners) /\ \A l : ~(l \in 1 .. 0)
    BY <1>2, <1>4
  <2>2. Follows(said', n + 1)
    BY <1>2, <1>4, <2>1 DEF Follows
  <2>3. \A k \in Outcomes' : Follows(said', k)
    BY <1>5, <2>2
  <2> QED
    BY <1>4, <2>3, FollowsKept
<1>8. EventPart'
  BY <1>2, <1>4, <1>5 DEF EventPart
<1> QED
  BY <1>4, <1>6, <1>7, <1>8 DEF TallyInv

\* The effects reported are those of the winners, in their order.
LEMMA ReportsKeeps ==
  ASSUME TallyInv, Reports
  PROVE  TallyInv'
<1> DEFINE n == Len(said)
           at == CHOOSE l \in DOMAIN said : said[l].type = "vote.closed"
           k == n - at + 1
           m == [type |-> "effect.resolved", choice |-> said[at].winners[k],
                 event |-> said[at].events[k]]
<1>1. /\ VotePart /\ StagePart /\ AckPart /\ EventPart /\ AlwaysPasses /\ AckedIsCounted /\ RulesKept
      /\ said \in Seq(Messages) /\ stage = "reporting" /\ UNCHANGED votes
      /\ Outcomes # {} /\ \A i, j \in Outcomes : i = j
      /\ DOMAIN said = 1 .. n /\ n \in Nat
  BY DEF TallyInv, StagePart, Reports
<1>2. /\ at \in 1 .. n /\ said[at].type = "vote.closed" /\ Outcomes = {at}
  BY <1>1 DEF Outcomes
<1>3. IF k <= Len(said[at].winners)
      THEN said' = Append(said, m) /\ UNCHANGED stage
      ELSE stage' = "over" /\ UNCHANGED said
  BY DEF Reports
<1> HIDE DEF at
<1>4. Follows(said, at)
  BY <1>1, <1>2, KeptFollows
<1>5. said[at] \in Results /\ ClosedRule(said[at])
  <2>1. said[at] \in Messages /\ Passes(said[at])
    BY <1>1, <1>2 DEF AlwaysPasses
  <2> QED
    BY <1>2, <2>1 DEF Messages, Acks, Snapshots, Others, Passes
<1>6. CASE ~(k <= Len(said[at].winners))
  <2>1. stage' = "over" /\ UNCHANGED <<votes, said>>
    BY <1>1, <1>3, <1>6
  <2> QED
    BY <2>1, EndKeeps
<1>7. CASE k <= Len(said[at].winners)
  <2> DEFINE w == said[at].winners
             e == said[at].events
  <2>1. /\ w \in Seq(Options) /\ e \in Seq(Nat) /\ Len(w) \in Nat /\ Len(e) = Len(w)
    BY <1>5 DEF Results, ClosedRule
  <2>2. k \in 1 .. Len(w)
    BY <1>1, <1>2, <1>7, <2>1
  <2>3. w[k] \in Options /\ e[k] \in Nat
    BY <2>1, <2>2
  <2>4. m \in Messages /\ m.type = "effect.resolved" /\ Passes(m)
    BY <2>3 DEF Messages, Others, Passes
  <2>5. m.choice = w[k] /\ m.event = e[k]
    OBVIOUS
  <2> HIDE DEF m
  <2>6. /\ VotePart' /\ AckPart' /\ AlwaysPasses' /\ AckedIsCounted'
        /\ said' \in Seq(Messages) /\ Len(said') = n + 1 /\ said'[n + 1] = m
        /\ \A l \in 1 .. n : said'[l] = said[l]
        /\ DOMAIN said' = 1 .. Len(said')
    BY <1>1, <1>3, <1>7, <2>4, SayingOne
  <2>7. Outcomes' = {at}
    <3>1. \A l \in DOMAIN said' : l \in 1 .. n \/ l = n + 1
      BY <1>1, <2>6
    <3> QED
      BY <1>1, <1>2, <2>4, <2>6, <3>1 DEF Outcomes
  <2>8. StagePart'
    BY <1>1, <1>3, <1>7, <2>6, <2>7 DEF StagePart
  <2>9. e[k] = EventOf(w[k])
    <3>1. e = [l \in 1 .. Len(w) |-> EventOf(w[l])]
      BY <1>1, <1>2 DEF EventPart
    <3> QED
      BY <2>2, <3>1
  <2>10. Follows(said', at)
    <3>1. said'[at] = said[at] /\ Len(said') - at = k /\ k - 1 = Len(said) - at /\ at + k = n + 1
      BY <1>1, <1>2, <2>6
    <3>2. ASSUME NEW l \in 1 .. k
          PROVE  /\ said'[at + l].type = "effect.resolved"
                 /\ said'[at + l].choice = w[l]
                 /\ said'[at + l].event = EventOf(w[l])
      <4>1. CASE l = k
        BY <2>4, <2>5, <2>6, <2>9, <3>1, <4>1
      <4>2. CASE l # k
        <5>1. l \in 1 .. Len(said) - at /\ at + l \in 1 .. n
          BY <1>1, <1>2, <3>1, <4>2
        <5>2. said'[at + l] = said[at + l]
          BY <2>6, <5>1
        <5> QED
          BY <1>4, <5>1, <5>2 DEF Follows
      <4> QED
        BY <4>1, <4>2
    <3>3. k <= Len(w)
      BY <2>2
    <3> HIDE DEF k
    <3> QED
      BY <1>4, <3>1, <3>2, <3>3 DEF Follows
  <2>11. RulesKept'
    <3>1. \A l \in Outcomes' : Follows(said', l)
      BY <2>7, <2>10
    <3> QED
      BY <2>6, <3>1, FollowsKept
  <2>12. EventPart'
    BY <1>1, <1>2, <2>6, <2>7 DEF EventPart
  <2> QED
    BY <2>6, <2>8, <2>11, <2>12 DEF TallyInv
<1> QED
  BY <1>6, <1>7

-----------------------------------------------------------------------------
(* The theorems *)

\* Nothing is said before the round.
LEMMA InitTallyInv == Init => TallyInv
<1>1. SUFFICES ASSUME Init
               PROVE  TallyInv
  OBVIOUS
<1>2. said = <<>> /\ stage = "joined" /\ DOMAIN votes = {} /\ Len(said) = 0 /\ DOMAIN said = {}
      /\ said \in Seq(Messages)
  BY <1>1 DEF Init
<1>3. VotePart
  BY <1>1, <1>2, FS_EmptySet DEF VotePart, Init
<1>4. StagePart /\ EventPart /\ AlwaysPasses /\ AckedIsCounted /\ RulesKept
  BY <1>2 DEF StagePart, EventPart, AlwaysPasses, AckedIsCounted, RulesKept, Outcomes
<1>5. AckPart
  <2>1. ASSUME NEW c \in Options
        PROVE  {k \in 1 .. 0 : said[k].type = "vote.ack" /\ said[k].counted /\ said[k].choice = c}
               = {v \in DOMAIN votes : votes[v] = c}
    BY <1>2
  <2>2. AckedBefore(Len(said)) = Counts(votes)
    BY <1>2, <2>1 DEF AckedBefore, Counts
  <2> QED
    BY <1>2, <2>2 DEF AckPart
<1> QED
  BY <1>3, <1>4, <1>5 DEF TallyInv

\* Every step keeps the invariant.
LEMMA NextTallyInv == TallyInv /\ [Next]_vars => TallyInv'
<1>1. SUFFICES ASSUME TallyInv, [Next]_vars
               PROVE  TallyInv'
  OBVIOUS
<1>2. CASE GivesUp \/ UNCHANGED vars
  <2>1. UNCHANGED <<votes, said>> /\ stage' \in {stage, "over"}
    BY <1>2 DEF GivesUp, vars
  <2> QED
    BY <1>1, <2>1, EndKeeps
<1> QED
  BY <1>1, <1>2, OpensKeeps, CastKeeps, ClosesKeeps, ReportsKeeps DEF Next

\* The invariant holds of every round.
THEOREM TallyInvCorrect == Spec => []TallyInv
  BY InitTallyInv, NextTallyInv, PTL DEF Spec

\* The simulated game never breaks a rule the backend holds it to
\* (payloads.py), for any number of voters and casts.
THEOREM AlwaysPassesCorrect == Spec => []AlwaysPasses
<1>1. TallyInv => AlwaysPasses
  BY DEF TallyInv
<1> QED
  BY <1>1, TallyInvCorrect, PTL

\* "Only accepted counts" (docs/protocol-v1.md:49): every snapshot and the result
\* show the acknowledged votes, one a voter.
THEOREM AckedIsCountedCorrect == Spec => []AckedIsCounted
<1>1. TallyInv => AckedIsCounted
  BY DEF TallyInv
<1> QED
  BY <1>1, TallyInvCorrect, PTL

\* The result is the one the rules of the game give, and its effects are those
\* of the winners in their order (sim_game.py).
THEOREM RulesKeptCorrect == Spec => []RulesKept
<1>1. TallyInv => RulesKept
  BY DEF TallyInv
<1> QED
  BY <1>1, TallyInvCorrect, PTL
=============================================================================
