----------------------------- MODULE MCWarehouse -----------------------------
(* Model checking of Warehouse: two members of a clan, gold, a sword. *)
EXTENDS Warehouse, TLC

CONSTANTS p1, p2, Sword

MCPlayer == {p1, p2}
MCArms == {Sword}
Purse(id, n) == [obj |-> id, good |-> Gold, n |-> n]
Blade(id) == [obj |-> id, good |-> Sword, n |-> 1]
MCBag == (p1 :> {Purse(1, 3)}) @@ (p2 :> {Blade(2)})

\* The model goes no further once goods have been moved outside the lock; after a
\* mishap, once a member is gone; after a failed save or a crash that took work, once
\* two players are in the world; and after a lock has leaked, once there was a second row.
Reach ==
    /\ sound
    /\ leaked # {} => nextRow <= 1
    /\ mishaps > 0 => member = Player /\ leaked = {}
    /\ (\E p \in Player : undone[p] # Nothing) => Cardinality(online) <= 1
=============================================================================
