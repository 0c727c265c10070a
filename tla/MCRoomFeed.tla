------------------------------ MODULE MCRoomFeed ------------------------------
(* Small instances of RoomFeed for TLC. *)
EXTENDS RoomFeed, TLC

CONSTANTS t1

Says(active, snap, closed) ==
  [phase |-> "WAITING", active |-> active, snap |-> snap, closed |-> closed]

Seen(n) == [round |-> n, tally |-> t1]

\* A game that forgot its closed rounds and is in its first again, with a snapshot
\* of another: no careful game says so, but the rules of GameSyncPayload allow it.
MCSyncs == {Says(1, Seen(2), 0)}

\* Bots and instances are interchangeable.
Symmetry == Permutations(Bots) \cup Permutations(Instances)
=============================================================================
