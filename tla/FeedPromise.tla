----------------------------- MODULE FeedPromise -----------------------------
(***************************************************************************)
(* What a room promises its bots about its rounds, without games, frames   *)
(* or limits: a bot that stays sees every state the rounds are in from the *)
(* time it joins, in the order they came, and no other, however slowly it  *)
(* reads.  A bot that cannot be shown them is cut off.                     *)
(*                                                                         *)
(* Every bot is promised this alone: several may act in one step.          *)
(***************************************************************************)
EXTENDS Naturals, Sequences

CONSTANTS
  Bots,
  Blank  \* the rounds of a room that has seen none

VARIABLES
  rounds,  \* the rounds of the room
  path     \* for each bot, what it sees and is going to see; <<>> for no bot

vars == <<rounds, path>>

Init == rounds = Blank /\ path = [b \in Bots |-> <<>>]

(* A step of one bot, from the path `was` to the path `now`. *)

\* A bot starts without knowledge; its greeting ends with the rounds as they are.
Joins(was, now) ==
  /\ was = <<>>
  /\ now = <<Blank, Blank, Blank, rounds>>
  /\ UNCHANGED rounds

Rests(was, now) ==
  /\ was # <<>>
  /\ now = was
  /\ UNCHANGED rounds

GoesOn(was, now) ==
  /\ Len(was) > 1
  /\ now = Tail(was)
  /\ UNCHANGED rounds

\* The bot will see what becomes of the rounds; or, if nothing does, something
\* else it is sent.  An answer to a request of its own may come first.
IsTold(was, now) ==
  /\ was # <<>>
  /\ \/ now = Append(was, rounds')
     \/ now = Append(Append(was, rounds), rounds')

\* It leaves, is cut off, or was not there.
IsAway(now) == now = <<>>

Moves(was, now) ==
  IsAway(now) \/ Joins(was, now) \/ Rests(was, now) \/ GoesOn(was, now) \/ IsTold(was, now)

Next ==
  \A b \in Bots : \E was \in {path[b]}, now \in {path'[b]} : Moves(was, now)

Spec == Init /\ [][Next]_vars
=============================================================================
