----------------------------- MODULE MCVoteRelay -----------------------------
(* Small instances of VoteRelay for TLC. *)
EXTENDS VoteRelay, TLC

CONSTANTS g1, g2, i1, i2

\* The game reconnects with the same instance, or comes back as a new one.
MCReconnect == g1 :> i1 @@ g2 :> i1
MCOneGame == g1 :> i1
MCNewInstance == g1 :> i1 @@ g2 :> i2

\* Submissions, cast ids, voters and bots are interchangeable.
Symmetry == Permutations(Subs) \cup Permutations(CastIds) \cup Permutations(Voters)
            \cup Permutations(Bots)
=============================================================================
