------------------------------- MODULE Dungeon -------------------------------
(***************************************************************************)
(* Quest dungeons: QuestWorldSystem (internal/system/quest_world.go and    *)
(* quest_world_spawn.go), its instances (internal/world/quest_instance.go) *)
(* and who calls them: dialogs, leaving the world, the death of a monster. *)
(*                                                                         *)
(* Entering makes a new instance; its number, the ShowID, tags the player  *)
(* and the monsters.  Join has no caller, so an instance lists one player. *)
(* A round spawns its monsters once (MarkRoundSpawned), which names them:  *)
(* <<show, round, k>>, with k = 0 for a helper that no round counts.  What *)
(* a player must be or hold to enter (validateEntry) is left open, as are  *)
(* the scenes that are played and the items that are taken away on leaving.*)
(* Every dungeon of data/yaml/quest_dungeons.yaml has a time limit.        *)
(***************************************************************************)
EXTENDS Naturals, FiniteSetsExt, Functions

CONSTANTS
    Players,
    Dungeon,    \* dungeon ids, each with a map of its own
    Def,        \* their definitions: rounds, limit, outStop
    Town,       \* any place that is no dungeon
    MaxShow     \* bound: instances made

ASSUME DungeonAssumption ==
    /\ Town \notin Dungeon /\ MaxShow \in Nat \ {0}
    /\ \A d \in Dungeon :
          /\ Def[d].limit \in Nat \ {0} /\ Def[d].outStop \in BOOLEAN
          /\ DOMAIN Def[d].rounds \subseteq Nat
          /\ \A r \in DOMAIN Def[d].rounds :
                /\ Def[d].rounds[r].on \in {"enter", "clear", "timer"}
                /\ Def[d].rounds[r].after \in Nat
                /\ Def[d].rounds[r].mobs \in Nat /\ Def[d].rounds[r].helper \in BOOLEAN

VARIABLES
    instances,  \* QuestWorldSystem.instances: show -> instance
    nextID,
    showID,     \* PlayerInfo.ShowID, 0 for the world everybody shares
    playing,    \* players in the world
    at,         \* the map a player is on, or will enter the world on
    alive,      \* monsters of dungeons in World.npcs, living ...
    dead,       \* ... and dead
    slain       \* history: those OnNpcDeath has taken off the list of their instance

dungeonVars == <<instances, nextID, showID, playing, at, alive, dead, slain>>

Show == 1..MaxShow
RoundsOn(d, trigger) == {r \in DOMAIN Def[d].rounds : Def[d].rounds[r].on = trigger}
Monsters(i, d, r) ==
    LET round == Def[d].rounds[r] IN
    {<<i, r, k>> : k \in (IF round.helper THEN 0 ELSE 1)..round.mobs}
Counted(S) == {m \in S : m[3] # 0}
Helpers(S) == S \ Counted(S)

DungeonInit ==
    /\ instances = << >> /\ nextID = 1
    /\ showID = [p \in Players |-> 0]
    /\ playing = Players
    /\ at = [p \in Players |-> Town]
    /\ alive = {} /\ dead = {} /\ slain = {}

-----------------------------------------------------------------------------
(* endInstance, of the instances in C.  The players in out have left already. *)
Guest(p, C) == p \in playing /\ \E i \in C : p \in instances[i].players

\* Fault: the tag is left on the guests.
TagsKept(C, out) == [p \in Players |-> IF p \in out THEN 0 ELSE showID[p]]

TagsAfter(C, out) ==
    [p \in Players |-> IF p \in out \/ Guest(p, C) THEN 0 ELSE showID[p]]

\* Guests still on the dungeon's map are teleported to its exit.
PlacesAfter(C, out) ==
    [p \in Players |-> IF p \notin out /\ Guest(p, C)
                          /\ \E i \in C : p \in instances[i].players /\ at[p] = instances[i].quest
                       THEN Town ELSE at[p]]

\* Fault: the helpers are not looked at.
FightersOnly(C) == UNION {instances[i].npcs : i \in C}

\* cleanupDungeonNpcs: what the instance lists is removed from the world.
CleanedUp(C) == UNION {instances[i].npcs \cup instances[i].auxNpcs : i \in C}

\* The instances that end when p leaves the one its tag names.
EndedBy(p) ==
    {i \in DOMAIN instances :
        i = showID[p] /\ (Def[instances[i].quest].outStop \/ instances[i].players \subseteq {p})}

\* RemovePlayer, and the instances that remain.
LeftBy(p) ==
    [i \in DOMAIN instances \ EndedBy(p) |->
        IF i = showID[p] THEN [instances[i] EXCEPT !.players = @ \ {p}] ELSE instances[i]]

\* Exit; silentExit differs in the items it takes away.
Departure(p) ==
    /\ instances' = LeftBy(p)
    /\ showID' = TagsAfter(EndedBy(p), {p})
    /\ alive' = alive \ CleanedUp(EndedBy(p))
    /\ dead' = dead \ CleanedUp(EndedBy(p))

-----------------------------------------------------------------------------
\* spawnRound: a place may be taken and a template missing, so any of them are born.
Grown(inst, rounds, born) ==
    [inst EXCEPT !.spawnedRounds = @ \cup rounds,
                 !.npcs = @ \cup Counted(born), !.auxNpcs = @ \cup Helpers(born)]

Fresh(p, d) == [quest |-> d, players |-> {p}, npcs |-> {}, auxNpcs |-> {}, spawnedRounds |-> {},
                age |-> 0]

\* Enter: the instance p is in is left in silence, a new one is made, p is teleported in
\* and the rounds of the entry are spawned.
Enter(p, d) ==
    /\ p \in playing /\ nextID <= MaxShow
    /\ nextID' = nextID + 1
    /\ \E born \in SUBSET UNION {Monsters(nextID, d, r) : r \in RoundsOn(d, "enter")} :
          /\ instances' = [i \in DOMAIN LeftBy(p) \cup {nextID} |->
                               IF i = nextID THEN Grown(Fresh(p, d), RoundsOn(d, "enter"), born)
                               ELSE LeftBy(p)[i]]
          /\ alive' = (alive \ CleanedUp(EndedBy(p))) \cup born
    /\ showID' = [TagsAfter(EndedBy(p), {p}) EXCEPT ![p] = nextID]
    /\ at' = [at EXCEPT ![p] = d]
    /\ dead' = dead \ CleanedUp(EndedBy(p))
    /\ UNCHANGED <<playing, slain>>

\* Exit, for a dialog: p stays where it is.
Exit(p) ==
    /\ p \in playing /\ showID[p] # 0
    /\ Departure(p) /\ at' = PlacesAfter(EndedBy(p), {p})
    /\ UNCHANGED <<nextID, playing, slain>>

\* handleDisconnect, with RemoveOnDisconnect.
Disconnect(p) ==
    /\ p \in playing
    /\ Departure(p) /\ at' = PlacesAfter(EndedBy(p), {p})
    /\ playing' = playing \ {p}
    /\ UNCHANGED <<nextID, slain>>

\* HandleChangeChar does not tell the dungeons; the tag is lost with the PlayerInfo.
ChangeChar(p) ==
    /\ p \in playing
    /\ playing' = playing \ {p}
    /\ showID' = [showID EXCEPT ![p] = 0]
    /\ UNCHANGED <<instances, nextID, at, alive, dead, slain>>

\* HandleEnterWorld: on the map it left from, without a tag.
EnterWorld(p) ==
    /\ p \notin playing
    /\ playing' = playing \cup {p}
    /\ UNCHANGED <<instances, nextID, showID, at, alive, dead, slain>>

\* A scroll or a dialog takes p elsewhere; the tag stays.
TeleportOut(p) ==
    /\ p \in playing /\ at[p] # Town
    /\ at' = [at EXCEPT ![p] = Town]
    /\ UNCHANGED <<instances, nextID, showID, playing, alive, dead, slain>>

-----------------------------------------------------------------------------
\* The first round that waits for the monsters to be gone.
NextRound(inst) ==
    LET waiting == RoundsOn(inst.quest, "clear") \ inst.spawnedRounds IN
    IF waiting = {} THEN {} ELSE {Min(waiting)}

\* handleNpcDeath and OnNpcDeath: the next round comes when none is left, and the
\* instance ends when there is none, or when none of it was born.
Kill(p, m) ==
    LET i == m[1]
        rest == [instances[i] EXCEPT !.npcs = @ \ {m}]
        coming == IF rest.npcs = {} THEN NextRound(rest) ELSE {}
    IN  /\ p \in playing /\ showID[p] = i /\ at[p] = instances[i].quest
        /\ IF rest.npcs = {} /\ coming = {}
           THEN LET listed == CleanedUp({i}) \ {m} IN
                /\ instances' = Restrict(instances, DOMAIN instances \ {i})
                /\ showID' = TagsAfter({i}, {}) /\ at' = PlacesAfter({i}, {})
                /\ alive' = alive \ (listed \cup {m})
                /\ dead' = (dead \ listed) \cup {m}
           ELSE \E born \in SUBSET UNION {Monsters(i, rest.quest, r) : r \in coming} :
                /\ instances' = [instances EXCEPT ![i] = Grown(rest, coming, born)]
                /\ alive' = (alive \ {m}) \cup born
                /\ dead' = dead \cup {m}
                /\ UNCHANGED <<showID, at>>
        /\ slain' = slain \cup {m}
        /\ UNCHANGED <<nextID, playing>>

\* gmKill, gmKillAll, and a summon whose master is gone: OnNpcDeath is not called.
KillUnnoticed(m) ==
    /\ alive' = alive \ {m} /\ dead' = dead \cup {m}
    /\ UNCHANGED <<instances, nextID, showID, playing, at, slain>>

\* resurrectNpcWithHP: a spell asks for the tag of the dead, a scroll for nothing
\* (UseResurrectionScroll).  No list is told: one that fell in a fight stays off its own.
RaiseFallen(p, m) ==
    /\ p \in playing
    /\ alive' = alive \cup {m} /\ dead' = dead \ {m}
    /\ UNCHANGED <<instances, nextID, showID, playing, at, slain>>

\* TameNpc: the monster becomes a pet.
Tame(p, m) ==
    /\ p \in playing /\ showID[p] = m[1] /\ at[p] = instances[m[1]].quest
    /\ alive' = alive \ {m}
    /\ UNCHANGED <<instances, nextID, showID, playing, at, dead, slain>>

Elapsed(i) == instances[i].age + 1
Expired == {i \in DOMAIN instances : Elapsed(i) >= Def[instances[i].quest].limit}

\* The rounds of i whose time has come.
DueRounds(i) ==
    LET inst == instances[i] IN
    {r \in RoundsOn(inst.quest, "timer") \ inst.spawnedRounds :
        Elapsed(i) >= Def[inst.quest].rounds[r].after}

\* Update: rounds on a timer are spawned, then what has expired ends.
Update ==
    LET stays == DOMAIN instances \ Expired
        due == UNION {UNION {Monsters(i, instances[i].quest, r) : r \in DueRounds(i)} : i \in stays}
    IN  /\ DOMAIN instances # {}
        /\ \E born \in SUBSET due :
              /\ instances' = [i \in stays |->
                     [Grown(instances[i], DueRounds(i), {m \in born : m[1] = i})
                         EXCEPT !.age = Elapsed(i)]]
              /\ alive' = (alive \ CleanedUp(Expired)) \cup born
        /\ dead' = dead \ CleanedUp(Expired)
        /\ showID' = TagsAfter(Expired, {}) /\ at' = PlacesAfter(Expired, {})
        /\ UNCHANGED <<nextID, playing, slain>>

DungeonStep ==
    \/ \E p \in Players :
          \/ \E d \in Dungeon : Enter(p, d)
          \/ \E m \in Counted(alive) : Kill(p, m)
          \/ \E m \in Counted(alive) : Tame(p, m)
          \/ \E m \in dead : RaiseFallen(p, m)
          \/ Exit(p) \/ Disconnect(p) \/ ChangeChar(p) \/ EnterWorld(p) \/ TeleportOut(p)
    \/ \E m \in alive : KillUnnoticed(m)

DungeonNext == DungeonStep \/ Update
DungeonSpec == DungeonInit /\ [][DungeonNext]_dungeonVars

-----------------------------------------------------------------------------
DungeonTypeOK ==
    /\ nextID \in 1..MaxShow + 1
    /\ DOMAIN instances \subseteq 1..nextID - 1
    /\ \A i \in DOMAIN instances :
          LET inst == instances[i] IN
          /\ inst.quest \in Dungeon /\ inst.players \subseteq Players
          /\ inst.spawnedRounds \subseteq DOMAIN Def[inst.quest].rounds
          /\ inst.age \in 0..Def[inst.quest].limit - 1
          /\ \A m \in inst.npcs \cup inst.auxNpcs :
                m[1] = i /\ m \in Monsters(i, inst.quest, m[2]) /\ m[2] \in inst.spawnedRounds
    /\ showID \in [Players -> 0..MaxShow]
    /\ playing \subseteq Players
    /\ at \in [Players -> Dungeon \cup {Town}]

\* A player's tag names an instance that runs and lists the player, whatever became of
\* earlier ones that still list it.  A monster that never fell in a fight, living or dead,
\* belongs to an instance that runs and lists it, so that its end takes the monster away
\* (endInstance, cleanupDungeonNpcs); one that fell is on no list of fighters again, also
\* when it was raised, so that no round waits for it (OnNpcDeath).
InstancesAgree ==
    /\ \A p \in playing : showID[p] # 0 =>
          showID[p] \in DOMAIN instances /\ p \in instances[showID[p]].players
    /\ \A m \in (alive \cup dead) \ slain :
          /\ m[1] \in DOMAIN instances
          /\ m \in instances[m[1]].npcs \cup instances[m[1]].auxNpcs
    /\ \A i \in DOMAIN instances : instances[i].npcs \cap slain = {}

\* Not two dungeons for one character: the dialog for the first dungeon asks for it
\* (quest_dungeon.go:29), and characters that were changed break it.
OneDungeonEach ==
    \A p \in Players : Cardinality({i \in DOMAIN instances : p \in instances[i].players}) <= 1

\* What has ended leaves no monster in the world (quest_world_spawn.go:13): those that fell
\* stay, as corpses or raised.
NothingStays == \A m \in alive \cup dead : m[1] \in DOMAIN instances

\* A round of which no monster lives has a successor or ends the instance
\* (quest_world.go:534): not when one was killed by a GM or tamed.
RoundsGoOn ==
    \A i \in DOMAIN instances :
        instances[i].npcs # {} => \E m \in alive : m \in instances[i].npcs

\* What every dungeon has to stop doing, also one that was left without a word.
GoesOn(i) == i \in DOMAIN instances
=============================================================================
