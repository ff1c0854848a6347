------------------------------ MODULE MCGroup -------------------------------
(* Model checking of Monsters alone, with one hunter: a leader returns with its group. *)
EXTENDS Monsters

CONSTANT h1
=============================================================================
