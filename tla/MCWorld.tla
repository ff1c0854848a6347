------------------------------- MODULE MCWorld -------------------------------
(* Model checking of World.  A behaviour is about one of its systems.         *)
EXTENDS World, TLC

CONSTANTS
    p1, p2, p3, Frogs, Lair, Pride, Ivory,
    m1, m2, a1, a2, b1, a, b,
    o1, o2

VARIABLE topic

MCPlayers == {p1}
MCRunners == {p1, p2, p3}

Round(on, after, mobs, helper) == [on |-> on, after |-> after, mobs |-> mobs, helper |-> helper]

\* After quest_dungeons.yaml: 1001; 147 and 148 in one, with a round on a timer instead of
\* the last ones.
MCDef ==
    Frogs :> [limit |-> 2, outStop |-> FALSE,
              rounds |-> <<Round("enter", 0, 2, FALSE), Round("clear", 0, 1, FALSE)>>]
    @@ Lair :> [limit |-> 2, outStop |-> TRUE,
                rounds |-> <<Round("enter", 0, 0, TRUE), Round("timer", 1, 1, FALSE)>>]

MCGroupOf == Outside :> None @@ Pride :> "tower" @@ Ivory :> "ivory"

MCOwner == {o1, o2}
MCBonus == 1 :> 1 @@ 2 :> 2
MCTame == o1 :> 12 @@ o2 :> 0

\* Two tiles of one map and a tile of another with the coordinates of the first.
MCMapOf == a1 :> a @@ a2 :> a @@ b1 :> b
MCSameSpot(t, u) == t = u \/ {t, u} = {a1, b1}
MCArea == m1 :> {a1, a2} @@ m2 :> {a1}

MCInit ==
    /\ WorldInit /\ topic \in System
    \* Only the topic itself begins in more than one way.
    /\ topic # "tiles" => pos = [e \in Persons \cup Mobs |-> IF e = m2 THEN a1 ELSE a2]
    /\ topic # "companions" => holder = <<o1, o2>> /\ petBag = [o \in Owner |-> {}]

MCNext == topic' = topic /\ SystemStep(topic)

vars == <<systemVars, topic>>

\* The systems are updated on every tick of the game loop.  One monster is due to return, so
\* that fairness to its ticks is fairness to all that wait.
Ticks ==
    /\ topic' = topic
    /\ \/ topic = "dungeon" /\ Update
       \/ topic = "house" /\ HouseTick
       \/ topic = "timed" /\ \E p \in Guests : Tick(p)
       \/ topic = "dragon" /\ TickKeepers
       \/ topic = "tiles" /\ \E m \in Returning : TickMob(m)
       \/ topic = "companions" /\ CompanionTick
    /\ Others(topic)

MCSpec == MCInit /\ [][MCNext]_vars /\ WF_vars(Ticks)

\* What may not last: the n-th of its kind, in the topic of the behaviour.
Lasts(n) ==
    \/ n \in Show /\ GoesOn(n)
    \/ n \in 1..MaxKeepers /\ Stands(n)
    \/ topic = "companions" /\ IF n = 1 THEN Forlorn(o1) ELSE MatchIsOn
    \/ n = 1 /\ (IsOpen \/ (\E p \in Guests : Timed(p)) \/ \E m \in Mobs : Awaited(m))

\* A dungeon ends, a race ends, a stay on a map with a limit ends, a keeper goes and a monster
\* comes back unless all around its place is taken, companions follow their master, and a match
\* is decided, whatever players do, die or leave, as long as the systems are updated.
EverythingEnds == \A n \in 1..2 : Lasts(n) ~> ~Lasts(n)

GearIsOut == (\E o \in Owner : petBag[o] # {}) \/ \E n \in DOMAIN pets : pets[n].items # {}
CreaturesOf(S) == priests \cap S # {} \/ \E o \in S : summons[o] # NoSummons

\* Of the monsters of a round that fell in a dungeon, the first may be back, when two fell and
\* beside one instance at most.  One tile is left closed.  Companions are looked at in three
\* ways: two players, two collars and the arena; what one player's pets wear, with a third
\* collar for one that evolves or is tamed; and the creatures a player has beside a pet.
Focus ==
    /\ \A m \in alive \cap slain :
          m[3] = 1 /\ Cardinality(slain) <= 2 /\ Cardinality(DOMAIN instances) <= 1
    /\ Cardinality(left) <= 1
    /\ topic = "companions" =>
        /\ \A o \in Owner : summons[o]["tamed"] <= 1
        /\ \/ /\ ~GearIsOut /\ ~CreaturesOf(Owner)
              /\ Len(holder) = 2 /\ NoChar \notin {holder[1], holder[2]} /\ NoRow \notin {row[1], row[2]}
           \/ /\ GearIsOut /\ ~CreaturesOf(Owner) /\ match = NoMatch
              /\ petBag[o2] = {} /\ o2 \notin {holder[n] : n \in DOMAIN holder}
              /\ masters = Owner /\ \A n \in DOMAIN pets : ~pets[n].dead
           \/ /\ ~GearIsOut /\ match = NoMatch
              /\ Len(holder) = 2 /\ ~CreaturesOf({o2}) /\ PetsOf(o2) = {}
=============================================================================
