-------------------------------- MODULE Tiles --------------------------------
(***************************************************************************)
(* Who stands where: the indexes of world.State (internal/world/state.go)  *)
(* and the map's blocked tiles (internal/data/mapdata.go), as players come *)
(* and go and monsters move, die, are tamed, come back and are raised.     *)
(* Three records of the same thing are kept apart by the code: the         *)
(* position of each, the entity grid, and one flag for a tile.             *)
(*                                                                         *)
(* Any two tiles of a map are next to each other.                          *)
(***************************************************************************)
EXTENDS Naturals, FiniteSets

CONSTANTS
    Persons,        \* players
    Mobs,           \* monsters of the spawn list ...
    Returning,      \* ... those with a respawn delay, who are not minions
    Tile, MapOf,    \* tiles, and the map each is on
    SameSpot(_, _), \* two tiles have the same X and Y
    Area,           \* monster -> tiles FindNpcSpawnPoint looks at
    DeleteTicks, RespawnTicks, RetryTicks

ASSUME TilesAssumption ==
    /\ Persons \cap Mobs = {}
    /\ Returning \subseteq Mobs /\ Area \in [Mobs -> SUBSET Tile]
    \* A tile is its map and its X and Y.
    /\ \A t, u \in Tile : t = u <=> SameSpot(t, u) /\ MapOf[t] = MapOf[u]
    /\ \A m \in Mobs : Area[m] # {} /\ \A t, u \in Area[m] : MapOf[t] = MapOf[u]
    /\ {DeleteTicks, RespawnTicks, RetryTicks} \subseteq Nat \ {0}

VARIABLES
    pos,        \* X, Y, MapID of a player or a monster
    inWorld,    \* players in State.bySession
    down,       \* PlayerInfo.Dead
    npcs,       \* monsters in State.npcs
    killed,     \* NpcInfo.Dead
    spawn,      \* SpawnX, SpawnY
    delete,     \* DeleteTimer
    respawn,    \* RespawnTimer
    entity,     \* EntityGrid: tiles and occupants
    npcAoi,     \* monsters in the NPC AOI grid
    impassable, \* tiles with tileImpassable
    left        \* history: tiles whose flag the code has forgotten

playerVars == <<inWorld, down>>
mobVars == <<npcs, killed, spawn, delete, respawn, npcAoi>>
tileVars == <<pos, playerVars, mobVars, entity, impassable, left>>

TilesInit ==
    /\ pos \in [Persons \cup Mobs -> Tile]
    /\ \A m \in Mobs : pos[m] \in Area[m]
    /\ \A m, n \in Mobs : m # n => pos[m] # pos[n]
    /\ inWorld = {} /\ down = {} /\ npcs = Mobs /\ killed = {}
    /\ spawn = [m \in Mobs |-> pos[m]]
    /\ delete = [m \in Mobs |-> 0] /\ respawn = [m \in Mobs |-> 0]
    /\ entity = {<<pos[m], m>> : m \in Mobs} /\ npcAoi = Mobs
    /\ impassable = {pos[m] : m \in Mobs} /\ left = {}

LivingMobs == npcs \ killed
Occupants(t) == {e \in Persons \cup Mobs : <<t, e>> \in entity}

-----------------------------------------------------------------------------
(* Players. *)

\* EntityGrid.Move, as UpdatePosition and UpdateNpcPosition call it: with the map that is
\* left for both tiles.
MoveEntity(e, t) ==
    IF SameSpot(pos[e], t) THEN entity
    ELSE (entity \ {<<pos[e], e>>})
         \cup {<<u, e>> : u \in {u \in Tile : SameSpot(u, t) /\ MapOf[u] = MapOf[pos[e]]}}

\* Fault: the tile left stays closed.
ReflagEntered(e, t) == impassable' = impassable \cup {t}

\* The flag of the tile left, then that of the tile entered.
Reflag(e, t) == impassable' = (impassable \ {pos[e]}) \cup {t}

\* HandleEnterWorld, AddPlayer.
EnterTile(p) ==
    /\ p \notin inWorld
    /\ inWorld' = inWorld \cup {p}
    /\ entity' = entity \cup {<<pos[p], p>>}
    /\ impassable' = impassable \cup {pos[p]}
    /\ UNCHANGED <<pos, down, mobVars, left>>

\* handleDisconnect and HandleChangeChar, RemovePlayer.
LeaveTile(p) ==
    /\ p \in inWorld
    /\ inWorld' = inWorld \ {p} /\ down' = down \ {p}
    /\ entity' = entity \ {<<pos[p], p>>}
    /\ impassable' = impassable \ {pos[p]}
    /\ UNCHANGED <<pos, mobVars, left>>

\* UpdatePosition, and the flags its callers move: HandleMove, teleportPlayer.
MoveTo(p, t) ==
    /\ pos' = [pos EXCEPT ![p] = t]
    /\ entity' = MoveEntity(p, t)
    /\ Reflag(p, t)

\* HandleMove: a step is refused when the terrain is and somebody is there; the dead are not
\* asked.
Walk(p, t, open) ==
    /\ p \in inWorld /\ t # pos[p] /\ MapOf[t] = MapOf[pos[p]]
    /\ IF open \/ Occupants(t) \subseteq {p} THEN MoveTo(p, t)
       ELSE impassable' = impassable \cup {pos[p]} /\ UNCHANGED <<pos, entity>>
    /\ UNCHANGED <<playerVars, mobVars, left>>

\* teleportPlayer: a portal, a scroll, a dialog; companions apart.
TeleportTo(p, t) ==
    /\ p \in inWorld
    /\ MoveTo(p, t)
    /\ UNCHANGED <<playerVars, mobVars, left>>

\* KillPlayer
KillPlayer(p) ==
    /\ p \in inWorld \ down
    /\ down' = down \cup {p}
    /\ entity' = entity \ {<<pos[p], p>>}
    /\ UNCHANGED <<pos, inWorld, mobVars, impassable, left>>

\* A dead player goes home.
ProcessRestart(p, t) ==
    /\ p \in inWorld \cap down
    /\ down' = down \ {p}
    /\ MoveTo(p, t)
    /\ UNCHANGED <<inWorld, mobVars, left>>

\* handleResurrectionResponse, and gmRez.
Raise(p) ==
    /\ p \in inWorld \cap down
    /\ down' = down \ {p}
    /\ UNCHANGED <<pos, inWorld, mobVars, entity, impassable, left>>

\* A GM's SetHP or FullHeal.
GmHeal(p) ==
    /\ p \in inWorld \cap down
    /\ down' = down \ {p}
    /\ entity' = entity \cup {<<pos[p], p>>}
    /\ UNCHANGED <<pos, inWorld, mobVars, impassable, left>>

-----------------------------------------------------------------------------
(* Monsters. *)

\* npcMoveToward and npcFleeFrom go round players, npcWander only closed tiles.
MayEnter(t) == t \notin impassable
MayRefuse(t) == t \in impassable \/ Occupants(t) \cap Persons # {}

\* UpdateNpcPosition, and the flags its callers move.  A monster the AOI grid had lost is found
\* again in the next cell.
MobTo(m, t) ==
    /\ m \in LivingMobs /\ MoveTo(m, t)
    /\ npcAoi' = npcAoi \/ npcAoi' = npcAoi \cup {m}
    /\ UNCHANGED <<playerVars, npcs, killed, spawn, delete, respawn, left>>

\* npcMoveToward, npcFleeFrom, npcWander and npcExecuteMove: when every way is closed a monster
\* passes through.
MobMove(m, t) ==
    LET others == {u \in Tile \ {pos[m]} : MapOf[u] = MapOf[pos[m]]} IN
    /\ t \in others
    /\ MayEnter(t) \/ \A u \in others : MayRefuse(u)
    /\ MobTo(m, t)

\* npcTeleportHome and guardTeleportHome, with nobody on the map to see it.
GoHome(m) ==
    /\ pos[m] # spawn[m]
    /\ \A p \in inWorld : MapOf[pos[p]] # MapOf[pos[m]]
    /\ MobTo(m, spawn[m])

\* handleNpcDeath
MobDies(m) ==
    /\ m \in LivingMobs
    /\ killed' = killed \cup {m}
    /\ entity' = entity \ {<<pos[m], m>>}
    /\ impassable' = impassable \ {pos[m]}
    /\ delete' = [delete EXCEPT ![m] = DeleteTicks]
    /\ respawn' = [respawn EXCEPT ![m] = IF m \in Returning THEN RespawnTicks ELSE @]
    /\ UNCHANGED <<pos, playerVars, npcs, spawn, npcAoi, left>>

\* gmKill and gmKillAll: the flag stays.
GmKill(m) ==
    /\ m \in LivingMobs
    /\ killed' = killed \cup {m}
    /\ entity' = entity \ {<<pos[m], m>>}
    /\ delete' = [delete EXCEPT ![m] = DeleteTicks]
    /\ respawn' = [respawn EXCEPT ![m] = IF m \in Returning THEN RespawnTicks ELSE @]
    /\ left' = left \cup {pos[m]}
    /\ UNCHANGED <<pos, playerVars, npcs, spawn, npcAoi, impassable>>

\* ExecuteTamingMonster makes a summon of a monster: dead without timers, and its flag stays.
TameToSummon(m) ==
    /\ m \in LivingMobs
    /\ killed' = killed \cup {m}
    /\ entity' = entity \ {<<pos[m], m>>}
    /\ left' = left \cup {pos[m]}
    /\ UNCHANGED <<pos, playerVars, npcs, spawn, delete, respawn, npcAoi, impassable>>

\* TameNpc makes a pet of it: RemoveNpc, and its flag stays.
TameToPet(m) ==
    /\ m \in LivingMobs
    /\ npcs' = npcs \ {m} /\ npcAoi' = npcAoi \ {m}
    /\ entity' = entity \ {<<pos[m], m>>}
    /\ left' = left \cup {pos[m]}
    /\ UNCHANGED <<pos, playerVars, killed, spawn, delete, respawn, impassable>>

\* resurrectNpcWithHP: no flag, and nobody sees it when the corpse was already gone.
RaiseMob(m) ==
    /\ m \in npcs \cap killed
    /\ killed' = killed \ {m}
    /\ entity' = entity \cup {<<pos[m], m>>}
    /\ delete' = [delete EXCEPT ![m] = 0] /\ respawn' = [respawn EXCEPT ![m] = 0]
    /\ UNCHANGED <<pos, playerVars, npcs, spawn, npcAoi, impassable, left>>

\* FindNpcSpawnPoint: where nobody is, and on the free terrain if there is some.
SpawnPoints(m) ==
    LET usable == {t \in Area[m] : Occupants(t) \subseteq {m}}
        valid == usable \ impassable
    IN  IF valid # {} THEN valid ELSE usable

\* respawnNpc
Respawn(m) ==
    /\ respawn[m] = 1
    /\ IF SpawnPoints(m) = {}
       THEN /\ respawn' = [respawn EXCEPT ![m] = RetryTicks]
            /\ UNCHANGED <<pos, killed, spawn, npcAoi, entity, impassable>>
       ELSE /\ \E t \in SpawnPoints(m) :
                  /\ pos' = [pos EXCEPT ![m] = t] /\ spawn' = [spawn EXCEPT ![m] = t]
                  /\ entity' = entity \cup {<<t, m>>}
                  /\ impassable' = impassable \cup {t}
            /\ killed' = killed \ {m} /\ npcAoi' = npcAoi \cup {m}
            /\ respawn' = [respawn EXCEPT ![m] = 0]
    /\ UNCHANGED <<playerVars, npcs, delete, left>>

\* Fault: a corpse that is gone is not waited for.
TickWithoutRespawn(m) ==
    /\ m \in npcs \cap killed /\ delete[m] > 0
    /\ delete' = [delete EXCEPT ![m] = @ - 1]
    /\ npcAoi' = IF delete[m] = 1 THEN npcAoi \ {m} ELSE npcAoi
    /\ UNCHANGED <<pos, playerVars, npcs, killed, spawn, respawn, entity, impassable, left>>

\* NpcRespawnSystem.Update, at one monster.
TickMob(m) ==
    /\ m \in npcs \cap killed
    /\ \/ /\ delete[m] > 0
          /\ delete' = [delete EXCEPT ![m] = @ - 1]
          /\ npcAoi' = IF delete[m] = 1 THEN npcAoi \ {m} ELSE npcAoi
          /\ UNCHANGED <<pos, playerVars, npcs, killed, spawn, respawn, entity, impassable, left>>
       \/ /\ delete[m] = 0 /\ respawn[m] > 1
          /\ respawn' = [respawn EXCEPT ![m] = @ - 1]
          /\ UNCHANGED <<pos, playerVars, npcs, killed, spawn, delete, npcAoi>>
          /\ UNCHANGED <<entity, impassable, left>>
       \/ delete[m] = 0 /\ Respawn(m)

TilesStep ==
    \/ \E p \in Persons :
          \/ EnterTile(p) \/ LeaveTile(p) \/ KillPlayer(p) \/ Raise(p) \/ GmHeal(p)
          \/ \E t \in Tile :
                \/ \E open \in BOOLEAN : Walk(p, t, open)
                \/ TeleportTo(p, t) \/ ProcessRestart(p, t)
    \/ \E m \in Mobs :
          \/ GoHome(m) \/ MobDies(m) \/ GmKill(m) \/ TameToSummon(m) \/ TameToPet(m) \/ RaiseMob(m)
          \/ \E t \in Tile : MobMove(m, t)

TilesNext == TilesStep \/ \E m \in Mobs : TickMob(m)
TilesSpec == TilesInit /\ [][TilesNext]_tileVars

-----------------------------------------------------------------------------
TilesTypeOK ==
    /\ pos \in [Persons \cup Mobs -> Tile] /\ spawn \in [Mobs -> Tile]
    /\ inWorld \subseteq Persons /\ down \subseteq Persons
    /\ npcs \subseteq Mobs /\ killed \subseteq npcs /\ npcAoi \subseteq npcs
    /\ delete \in [Mobs -> 0..DeleteTicks] /\ respawn \in [Mobs -> 0..(RespawnTicks + RetryTicks)]
    /\ entity \subseteq Tile \X (Persons \cup Mobs)
    /\ impassable \subseteq Tile /\ left \subseteq Tile

\* The entity grid has every living monster where it is, and no other, however it moved, died,
\* was taken away, came back or was raised (NpcDied, RemoveNpc, NpcRespawn, OccupyEntity).
MobsAreOnTheGrid == {e \in entity : e[2] \in Mobs} = {<<pos[m], m>> : m \in LivingMobs}

\* A tile that is closed has somebody on it, living or fallen, or was closed by a monster that
\* was taken away without opening it (SetImpassable): no walk, flight, return or departure of
\* one of two who share a tile leaves it closed.
FlagsHaveACause ==
    impassable \subseteq {pos[p] : p \in inWorld} \cup {pos[m] : m \in LivingMobs} \cup left

\* The grid and the flags agree with where everybody is.
TilesAgree == TilesTypeOK /\ MobsAreOnTheGrid /\ FlagsHaveACause

\* A dead monster with time left comes back, or finds everything around its place taken.
Awaited(m) == m \in killed /\ respawn[m] > 0 /\ SpawnPoints(m) # {}

\* The entity grid has every living player where it is, and nobody else (UpdatePosition
\* "updates AOI grid + entity grid", state.go:714; IsOccupied "any alive entity", state.go:1175):
\* not after a teleport to another map, nor after a spell raised a player.
PlayersAreOnTheGrid ==
    {e \in entity : e[2] \in Persons} = {<<pos[p], p>> : p \in inWorld \ down}

\* A living monster is in the grid that players see by: not one raised after its corpse went.
LivingAreSeen == LivingMobs \subseteq npcAoi
=============================================================================
