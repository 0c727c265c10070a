------------------------------ MODULE MCSession ------------------------------
(* An instance of Session for TLC: a second of three ticks, and frames enough *)
(* for a client to be turned away, wait, and vote again.                      *)
EXTENDS Session

MCSecond == 3
MCFrames == 6
=============================================================================
