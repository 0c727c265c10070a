------------------------------- MODULE MCTally -------------------------------
(* Small instances of Tally for TLC. *)
EXTENDS Tally, TLC

\* Voters are interchangeable.
Symmetry == Permutations(Voters)
=============================================================================
