----------------------------- MODULE DragonDoor ------------------------------
(***************************************************************************)
(* Keepers of the dragon doors, called with a key: DragonDoorSystem        *)
(* (internal/system/dragondoor_sys.go) and its handler                     *)
(* (internal/handler/dragondoor.go).  A walking keeper opens its bridge    *)
(* where it arrives, a fighting one where it dies.                         *)
(***************************************************************************)
EXTENDS Naturals, FiniteSets

CONSTANTS
    Walking, Fighting, \* kinds of keepers
    Lifetime,       \* keeperLifetimeTicks
    Distance,       \* bound: steps to the bridge
    MaxPerKind,     \* keeperMaxPerType
    MaxKeepers      \* bound: keepers called

ASSUME DragonAssumption ==
    /\ Walking \cap Fighting = {}
    /\ {Lifetime, Distance, MaxPerKind, MaxKeepers} \subseteq Nat \ {0}

VARIABLES
    keepers,    \* DragonDoorSystem.keepers: NPC -> entry
    called,     \* NextNpcID
    standing,   \* keepers living in World.npcs ...
    corpses,    \* ... and dead
    bridges,    \* kinds whose bridge is open
    dropped     \* history: keepers no longer followed since they fell in a fight -> kind

dragonVars == <<keepers, called, standing, corpses, bridges, dropped>>

DragonInit ==
    /\ keepers = << >> /\ called = 0 /\ standing = {} /\ corpses = {} /\ bridges = {}
    /\ dropped = << >>

Kind == Walking \cup Fighting
Keeping(kind) == {k \in DOMAIN keepers : keepers[k].kind = kind}

\* HandleDragonDoorSelect and SpawnKeeper.  The key's window shows how many there may
\* still be (GetAvailableCounts); nobody asks again when one is called.
SpawnKeeper(kind) ==
    /\ called < MaxKeepers
    /\ called' = called + 1
    /\ keepers' = [k \in DOMAIN keepers \cup {called'} |->
                      IF k = called'
                      THEN [kind |-> kind, lifetime |-> Lifetime, steps |-> Distance, arrived |-> FALSE]
                      ELSE keepers[k]]
    /\ standing' = standing \cup {called'}
    /\ UNCHANGED <<corpses, bridges, dropped>>

\* handleNpcDeath, and a GM's kill.
KillKeeper(k) ==
    /\ standing' = standing \ {k} /\ corpses' = corpses \cup {k}
    /\ UNCHANGED <<keepers, called, bridges, dropped>>

\* resurrectNpcWithHP: no keeper's template forbids it, and nothing follows it again.
RaiseKeeper(k) ==
    /\ standing' = standing \cup {k} /\ corpses' = corpses \ {k}
    /\ UNCHANGED <<keepers, called, bridges, dropped>>

\* removeKeeper
TakenAway(old, there) == old \cup there

\* tickWalkingKeeper and keeperArrived: those on their way, and those a step from its end.
Walkers(S) == {k \in S : keepers[k].kind \in Walking /\ ~keepers[k].arrived}
Arriving(S) == {k \in S : keepers[k].steps = 1}

\* Update.  A keeper takes a step when its timer is over and its way is free.
TickKeepers ==
    LET kept == {k \in DOMAIN keepers : k \in standing \cup corpses}
        old == {k \in kept : keepers[k].lifetime = 1}
        fell == {k \in kept \ old : keepers[k].kind \in Fighting /\ k \in corpses}
        walkers == Walkers(kept \ old)
    IN  /\ DOMAIN keepers # {}
        /\ \E moved \in SUBSET (walkers \cap standing) :
              LET there == Arriving(moved) IN
              /\ keepers' = [k \in kept \ (old \cup fell) |->
                     [keepers[k] EXCEPT
                         !.lifetime = @ - 1,
                         !.steps = IF k \in moved THEN @ - 1 ELSE @,
                         !.arrived = @ \/ k \in there \cup (walkers \cap corpses)]]
              /\ standing' = standing \ TakenAway(old, there)
              /\ bridges' = bridges \cup {keepers[k].kind : k \in there \cup fell}
        /\ corpses' = corpses \ old
        /\ dropped' = [k \in DOMAIN dropped \cup fell |->
                         IF k \in fell THEN keepers[k].kind ELSE dropped[k]]
        /\ UNCHANGED called

DragonStep ==
    \/ \E kind \in Kind : SpawnKeeper(kind)
    \/ \E k \in standing : KillKeeper(k)
    \/ \E k \in corpses : RaiseKeeper(k)
DragonNext == DragonStep \/ TickKeepers
DragonSpec == DragonInit /\ [][DragonNext]_dragonVars

-----------------------------------------------------------------------------
\* A keeper in the world, standing or dead, is followed, so that it is taken away in time,
\* or it fell in a fight and opened its bridge: it is not followed again when it is raised.
DragonTypeOK ==
    /\ standing \cup corpses \subseteq DOMAIN keepers \cup DOMAIN dropped
    /\ DOMAIN keepers \cup DOMAIN dropped \subseteq 1..called
    /\ DOMAIN keepers \cap DOMAIN dropped = {}
    /\ \A k \in DOMAIN dropped : dropped[k] \in Fighting \cap bridges
    /\ \A k \in DOMAIN keepers :
          /\ keepers[k].kind \in Kind /\ keepers[k].lifetime \in 1..Lifetime
          /\ keepers[k].steps \in 0..Distance /\ keepers[k].arrived \in BOOLEAN
    /\ standing \cap corpses = {} /\ bridges \subseteq Kind

\* Six of a kind at most (dragondoor.go:30): a key asks, the choice does not.
KeepersAreLimited == \A kind \in Kind : Cardinality(Keeping(kind)) <= MaxPerKind

\* A keeper is gone after two hours (dragondoor_sys.go:10): not one that fell and was raised.
NoneStaysBehind == standing \subseteq DOMAIN keepers

\* What has to go: the keepers that are followed.
Stands(k) == k \in DOMAIN keepers
=============================================================================
