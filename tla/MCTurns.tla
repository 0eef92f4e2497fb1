------------------------------- MODULE MCTurns ------------------------------
(* A chat of one session and a manual compression of it. *)
EXTENDS Turns

CONSTANTS c1, m1

MCOneChat == {c1}
MCCompressions == {m1}
=============================================================================
