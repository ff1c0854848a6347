------------------------------- MODULE World --------------------------------
(***************************************************************************)
(* What the systems of the game loop do to the world, one beside the       *)
(* other: Dungeon, HauntedHouse, TimedMap, DragonDoor, Tiles and           *)
(* Companions.  cmd/l1jgo/main.go registers them one by one, so a step is  *)
(* a step of one of them.  The models share no variable: each has its own  *)
(* view of what a player does, who leaves and enters in each of them.      *)
(***************************************************************************)
EXTENDS Dungeon, HauntedHouse, TimedMap, DragonDoor, Tiles, Companions

System == {"dungeon", "house", "timed", "dragon", "tiles", "companions"}

systemVars == <<dungeonVars, houseVars, timedVars, dragonVars, tileVars, companionVars>>

WorldInit ==
    DungeonInit /\ HouseInit /\ TimedInit /\ DragonInit /\ TilesInit /\ CompanionsInit

Others(t) ==
    /\ IF t = "dungeon" THEN TRUE ELSE UNCHANGED dungeonVars
    /\ IF t = "house" THEN TRUE ELSE UNCHANGED houseVars
    /\ IF t = "timed" THEN TRUE ELSE UNCHANGED timedVars
    /\ IF t = "dragon" THEN TRUE ELSE UNCHANGED dragonVars
    /\ IF t = "tiles" THEN TRUE ELSE UNCHANGED tileVars
    /\ IF t = "companions" THEN TRUE ELSE UNCHANGED companionVars

SystemStep(t) ==
    /\ \/ t = "dungeon" /\ DungeonNext
       \/ t = "house" /\ HouseNext
       \/ t = "timed" /\ TimedNext
       \/ t = "dragon" /\ DragonNext
       \/ t = "tiles" /\ TilesNext
       \/ t = "companions" /\ CompanionNext
    /\ Others(t)

WorldNext == \E t \in System : SystemStep(t)

WorldSpec == WorldInit /\ [][WorldNext]_systemVars

\* What the systems with a clock keep on record: who is inside, what is left of his time, and
\* who got a prize.
SystemsAgree ==
    /\ DungeonTypeOK /\ HouseTypeOK /\ TimedTypeOK /\ DragonTypeOK
    /\ InstancesAgree /\ CountdownAgrees /\ PrizesAreLimited
=============================================================================
