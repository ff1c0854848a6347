---------------------------- MODULE MCEconomyWal ----------------------------
(* Model checking of what is logged: the log of trades and its recovery      *)
(* (EconomyWal), and the shops, whose sales are logged one by one (Shop).  A  *)
(* behaviour is about one of the two.                                        *)
EXTENDS EconomyWal, Shop, TLC

CONSTANTS p1, p2, i1, t1, t2

VARIABLE topic

TwoPlayers == {p1, p2}
OneItem == {i1}
SymTwo == Permutations(TwoPlayers)

MCTraders == {t1, t2}
MCKeepers == {t1}
InBag(obj, good, n) == [obj |-> obj, good |-> good, n |-> n]
MCStock == t1 :> {InBag(1, Gold, 50), InBag(2, Herb, 2)} @@ t2 :> {InBag(3, Gold, 100), InBag(4, Blade, 1)}
MCWeight == Gold :> 0 @@ Herb :> 400 @@ Blade :> 600
MCWare == <<[good |-> Herb, price |-> 40, pack |-> 2], [good |-> Blade, price |-> 80, pack |-> 1]>>
MCBuys == Herb :> 25

MCInit ==
    /\ Init /\ ShopInit
    /\ topic \in {"wal", "shop"}
    \* Only the topic itself begins in more than one way.
    /\ topic # "wal" => db = [p \in Player |-> Nothing]

MCNext ==
    /\ topic' = topic
    /\ \/ topic = "wal" /\ Next /\ UNCHANGED shopVars
       \/ topic = "shop" /\ ShopNext /\ UNCHANGED vars

MCSpec == MCInit /\ [][MCNext]_<<vars, shopVars, topic>>

\* A purse that overflowed, a visit to an NPC and the last number end what is looked at.
Sober == topic = "shop" => ~burst /\ visits = 0 /\ things < MaxThing
=============================================================================
