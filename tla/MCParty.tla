------------------------------- MODULE MCParty -------------------------------
(* Model checking of Party. *)
EXTENDS Party, TLC

CONSTANTS p1, p2, p3, p4

MCPlayer == {p1, p2, p3, p4}
Players == Permutations(MCPlayer)

Unmuddled == muddled = {}
=============================================================================
