----------------------------- MODULE MCDispatch -----------------------------
(* Small instances of Dispatch for TLC. *)
EXTENDS Dispatch, TLC

CONSTANTS i1, i2, g1, g2, g3

\* One game, of which bots may name another instance.
MCOneInstance == [g \in Games |-> i1]

\* A game that comes back with its instance, and one that is another.
MCTwoInstances == g1 :> i1 @@ g2 :> i1 @@ g3 :> i2

Symmetry == Permutations(Ids) \cup Permutations(Contents)
=============================================================================
