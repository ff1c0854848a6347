------------------------------ MODULE MCTrade ------------------------------
(* Constant values for model checking Trade: small sets and symmetry. *)
EXTENDS Trade, TLC

CONSTANTS p1, p2, p3, i1, i2

ThreePlayers == {p1, p2, p3}
TwoPlayers == {p1, p2}
OneItem == {i1}
TwoItems == {i1, i2}
AdenaOnly == {Adena}
BoundObject == {i2}

SymThree == Permutations(ThreePlayers)
SymTwo == Permutations(TwoPlayers)
=============================================================================
