------------------------------ MODULE Monsters -------------------------------
(***************************************************************************)
(* Whom monsters hate, who is paid for a kill, and the groups they live    *)
(* in: hate.go, handleNpcDeath and handleMobGroupDeath (combat.go), the    *)
(* choice of a target (tickMonsterAI in npc_ai.go) and the return of a     *)
(* leader with its group (npc_respawn.go), all in internal/system.         *)
(*                                                                         *)
(* Hate is kept by session: a player is a session here.  Where monsters    *)
(* stand and how long they are dead is in Tiles.                           *)
(***************************************************************************)
EXTENDS Integers, FiniteSets, Sequences, SequencesExt, FiniteSetsExt, Functions

CONSTANTS
    Hunters,        \* sessions of players
    Nobody,
    Agro,           \* NpcInfo.Agro of the leader; minions are not
    RemoveGroup,    \* values of RemoveGroupIfLeaderDie
    Exp,            \* NpcInfo.Exp, with the server's rate
    MaxInt,         \* largest int32 ...
    MaxHit,         \* bound: damage of a hit ...
    MaxHate,        \* ... hate of a monster for all ...
    MaxMobs         \* ... and monsters made

ASSUME MonstersAssumption ==
    /\ Agro \in BOOLEAN /\ RemoveGroup \subseteq BOOLEAN
    /\ Exp \in Nat /\ {MaxInt, MaxHit, MaxHate, MaxMobs} \subseteq Nat \ {0}

VARIABLES
    mob,        \* NpcInfo of every monster in State.npcs
    group,      \* MobGroupInfo; a monster without one has 0
    near,       \* players a monster may keep as target: alive, on the map, near
    struck      \* history: who has hit a living monster, or its kin, in this life

monsterVars == <<mob, group, near, struck>>

Leader == 1
Ids == 1..Len(mob)
Living == {m \in Ids : ~mob[m].dead}

NewMob(minion, g) ==
    [dead |-> FALSE, minion |-> minion, returns |-> ~minion, due |-> FALSE,
     group |-> g, hate |-> << >>, target |-> Nobody]

\* spawnMobGroupSafe: a leader and one minion.
MonstersInit ==
    /\ mob = <<NewMob(FALSE, 1), NewMob(TRUE, 1)>>
    /\ \E remove \in RemoveGroup :
          group = <<[leader |-> Leader, members |-> <<1, 2>>, remove |-> remove]>>
    /\ near = {} /\ struck = <<{}, {}>>

-----------------------------------------------------------------------------
(* Hate. *)

HateFor(h, s) == IF s \in DOMAIN h THEN h[s] ELSE 0
TotalHate(h) == SumFunction(h)

\* AddHate at the monster that is hit: whoever is hated more than the target becomes it.
AddHate(x, s, damage) ==
    LET h == [t \in DOMAIN x.hate \cup {s} |-> HateFor(x.hate, t) + IF t = s THEN damage ELSE 0]
    IN  [x EXCEPT !.hate = h,
                  !.target = IF @ = Nobody \/ h[s] > HateFor(h, @) THEN s ELSE @]

\* linkMobGroupHateLikeJava: those of the group of m who hate nobody.
GroupLinks(m) ==
    IF mob[m].group = 0 THEN {}
    ELSE {k \in ToSet(group[mob[m].group].members) \ {m} : ~mob[k].dead /\ mob[k].hate = << >>}

\* linkNpcFamilyHateLikeJava: those of the family that are near.
FamilyLinks(m) == {k \in Living \ {m} : mob[k].hate = << >>}

\* setNpcLinkTargetLikeJava
Link(x, s) == [x EXCEPT !.hate = [t \in {s} |-> 0], !.target = s]

\* AddPlayerHateLikeJava, with the family or out of its sight.
Hated(m, s, damage, family) ==
    LET linked == GroupLinks(m) \cup IF family THEN FamilyLinks(m) ELSE {} IN
    [k \in Ids |-> IF k = m THEN AddHate(mob[k], s, damage)
                   ELSE IF k \in linked THEN Link(mob[k], s) ELSE mob[k]]

Angered(m, s, family) ==
    {m} \cup GroupLinks(m) \cup IF family THEN FamilyLinks(m) ELSE {}

-----------------------------------------------------------------------------
(* Death. *)

\* int32 arithmetic, and division as Go rounds it.
Wrap(n) == ((n + MaxInt + 1) % (2 * (MaxInt + 1))) - (MaxInt + 1)
Quotient(n, d) == IF n >= 0 THEN n \div d ELSE -((-n) \div d)

Share(h, s) == LET n == Quotient(Wrap(Exp * h[s]), TotalHate(h)) IN IF n > 0 THEN n ELSE 0

\* CalcExp in handleNpcDeath: shares for two or more, else all for the killer.  Players who
\* died or left get none; who is far away does.
Paid(h, killer, away) ==
    IF TotalHate(h) > 0 /\ Cardinality(DOMAIN h) > 1
    THEN [s \in DOMAIN h \ away |-> Share(h, s)]
    ELSE [s \in {killer} |-> Exp]

\* handleMobGroupDeath: a dead leader dissolves its group or is followed by the next member.
Without(g, m) == RemoveFirst(g.members, m)

\* Fault: a dead monster keeps its group.
KeepsGroup(x, m) == x

LeavesGroup(x, m) ==
    LET g == x[m].group IN
    IF g # 0 /\ group[g].leader = m /\ group[g].remove
    THEN [k \in Ids |-> IF k = m THEN [x[k] EXCEPT !.group = 0]
                        ELSE IF k \in ToSet(group[g].members)
                        THEN [x[k] EXCEPT !.group = 0, !.minion = TRUE, !.returns = FALSE]
                        ELSE x[k]]
    ELSE [x EXCEPT ![m].group = 0]

GroupAfter(m) ==
    LET g == mob[m].group
        rest == Without(group[g], m)
    IN  IF g = 0 THEN group
        ELSE [group EXCEPT ![g].members = rest,
                           ![g].leader = IF @ = m /\ ~group[g].remove /\ rest # << >> THEN rest[1]
                                         ELSE @]

\* handleNpcDeath, at the end of a hit that leaves the monsters as x.  What it pays is read off
\* the state before (SharesFit).  Nobody reads the target of the dead.
MonsterDies(x, m) ==
    /\ mob' = LeavesGroup([x EXCEPT ![m].dead = TRUE, ![m].hate = << >>, ![m].target = Nobody,
                                   ![m].due = x[m].returns /\ ~x[m].minion], m)
    /\ group' = GroupAfter(m)

\* A hit of a player, with a weapon, a spell or a pet: processMeleeAttack and the others.
Hit(s, m, damage, family) ==
    LET x == Hated(m, s, damage, family) IN
    /\ s \in near /\ m \in Living
    /\ TotalHate(mob[m].hate) + damage <= MaxHate
    /\ (mob' = x /\ UNCHANGED group) \/ MonsterDies(x, m)
    /\ struck' = [k \in Ids |-> IF mob'[k].dead THEN {}
                                ELSE IF k \in Angered(m, s, family) THEN struck[k] \cup {s}
                                ELSE struck[k]]
    /\ UNCHANGED near

\* npcMeleeAttack: the blow of a monster is thrown back and kills it.
Reflected(m) ==
    /\ m \in Living /\ mob[m].target \in near
    /\ MonsterDies(mob, m)
    /\ struck' = [struck EXCEPT ![m] = {}]
    /\ UNCHANGED near

\* gmKill, and ExecuteTamingMonster, which leaves no timers: the group and the hate stay.
KilledOrTamed(m, tamed) ==
    /\ m \in Living
    /\ mob' = [mob EXCEPT ![m].dead = TRUE, ![m].target = Nobody,
                          ![m].due = mob[m].returns /\ ~tamed]
    /\ struck' = [struck EXCEPT ![m] = {}]
    /\ UNCHANGED <<group, near>>

-----------------------------------------------------------------------------
(* Life. *)

\* respawnNpc resets the monster ...
Respawned(x) == [x EXCEPT !.dead = FALSE, !.due = FALSE, !.hate = << >>, !.target = Nobody]

\* ... and respawnMobGroup makes a group of its own for a leader, beside the old one.  The new
\* minions are its members and do not point back to it.
Return(m) ==
    /\ m \in Ids \ Living /\ mob[m].due
    /\ \/ /\ Len(mob) < MaxMobs
          /\ mob' = Append([mob EXCEPT ![m] = [Respawned(@) EXCEPT !.group = Len(group) + 1]],
                           NewMob(TRUE, 0))
          /\ group' = Append(group, [group[1] EXCEPT !.leader = m, !.members = <<m, Len(mob) + 1>>])
          /\ struck' = Append(struck, {})
       \/ /\ Len(group) < MaxMobs
          /\ mob' = [mob EXCEPT ![m] = [Respawned(@) EXCEPT !.group = Len(group) + 1]]
          /\ group' = Append(group, [group[1] EXCEPT !.leader = m, !.members = <<m>>])
          /\ UNCHANGED struck
    /\ UNCHANGED near

\* resurrectNpcWithHP
RaiseMonster(m) ==
    /\ m \in Ids \ Living
    /\ mob' = [mob EXCEPT ![m] = Respawned(@)]
    /\ UNCHANGED <<group, near, struck>>

\* GetMaxHateTarget until one of those found is near: the others are forgotten, and perhaps
\* those hated as much.
MostHated(h, S) == {s \in S : \A t \in S : h[t] <= h[s]}
Gone(h, s) ==
    {G \in SUBSET (DOMAIN h \ near) :
        /\ \A t \in G : h[t] >= h[s]
        /\ \A t \in DOMAIN h \ near : h[t] > h[s] => t \in G}

\* The target is kept while it is near; else the most hated who is takes its place.
Retargeted(x) ==
    LET h == Restrict(x.hate, DOMAIN x.hate \ {x.target})
        there == DOMAIN h \cap near
    IN  IF x.target = Nobody \/ x.target \in near THEN {x}
        ELSE IF there = {} THEN {[x EXCEPT !.hate = << >>, !.target = Nobody]}
        ELSE UNION {{[x EXCEPT !.target = s, !.hate = Restrict(h, DOMAIN h \ G)] :
                        G \in Gone(h, s)} : s \in MostHated(h, there)}

\* tickMonsterAI: an aggressive monster takes a target that has done nothing; one that sees
\* nobody forgets all and goes home.
Think(m) ==
    /\ m \in Living
    /\ \E x \in Retargeted(mob[m]) :
          \/ /\ x.target # Nobody \/ near # {}
             /\ mob' = [mob EXCEPT ![m] = x]
          \/ /\ x.target = Nobody /\ Agro /\ ~x.minion
             /\ \E s \in near : mob' = [mob EXCEPT ![m] = [x EXCEPT !.target = s]]
          \/ /\ x.target = Nobody /\ near = {}
             /\ mob' = [mob EXCEPT ![m] = [x EXCEPT !.hate = << >>]]
    /\ UNCHANGED <<group, near, struck>>

\* A target with an absolute barrier is let go, the hate for it is not.
LetGo(m) ==
    /\ m \in Living /\ mob[m].target \in near
    /\ mob' = [mob EXCEPT ![m].target = Nobody]
    /\ UNCHANGED <<group, near, struck>>

\* A player comes near; or goes, dies or leaves the world, perhaps to come back as another
\* character of the session.
Comes(s) == s \notin near /\ near' = near \cup {s} /\ UNCHANGED <<mob, group, struck>>
Goes(s) == s \in near /\ near' = near \ {s} /\ UNCHANGED <<mob, group, struck>>

MonstersNext ==
    \/ \E s \in Hunters :
          \/ Comes(s) \/ Goes(s)
          \/ \E m \in Ids, damage \in 1..MaxHit, family \in BOOLEAN : Hit(s, m, damage, family)
    \/ \E m \in Ids :
          \/ Reflected(m) \/ (\E tamed \in BOOLEAN : KilledOrTamed(m, tamed))
          \/ Return(m) \/ RaiseMonster(m) \/ Think(m) \/ LetGo(m)

MonstersSpec == MonstersInit /\ [][MonstersNext]_monsterVars

-----------------------------------------------------------------------------
MonstersTypeOK ==
    /\ near \subseteq Hunters /\ Len(struck) = Len(mob)
    /\ \A m \in Ids :
          /\ mob[m].group \in 0..Len(group) /\ mob[m].target \in Hunters \cup {Nobody}
          /\ DOMAIN mob[m].hate \subseteq Hunters /\ TotalHate(mob[m].hate) <= MaxHate
    /\ \A g \in 1..Len(group) : group[g].leader \in Ids /\ ToSet(group[g].members) \subseteq Ids

\* A living monster hates only those who have hit it or its kin in this life, whatever way the
\* last one ended (handleNpcDeath forgets, a GM's kill and a taming do not), and whatever
\* session numbers players have now.
HateIsOfThisLife == \A m \in Living : DOMAIN mob[m].hate \subseteq struck[m]

\* Were it to die now, the shares would not be more than its experience, though int32 wraps,
\* and nobody would have a part in it who is neither its killer nor hated (CalcExp).
Shares(m) == {Paid(mob[m].hate, s, away) : s \in Hunters, away \in SUBSET DOMAIN mob[m].hate}

SharesFit ==
    \A m \in Living :
        \A to \in Shares(m) : SumFunction(to) <= Exp /\ \A s \in DOMAIN to : to[s] >= 0

\* A living monster of a group is among its members, so that it is found when its leader is
\* hit, dies or leaves it alone.
MembersAreFound ==
    \A m \in Living : mob[m].group # 0 => m \in ToSet(group[mob[m].group].members)

\* The monsters' variables have their types; they know whom to hate and with whom they live;
\* no kill would pay more than a monster's experience, or anybody less than nothing, though
\* the shares are computed in int32 (handleNpcDeath).
HerdsAgree == MonstersTypeOK /\ HateIsOfThisLife /\ MembersAreFound /\ SharesFit

\* The first member that lives leads after the leader ("第一個存活成員成為新隊長",
\* combat.go:829): Members[0] is taken, dead or not.
NewLeaderLives ==
    [][\A g \in 1..Len(group) :
          group'[g].leader # group[g].leader => ~mob'[group'[g].leader].dead]_monsterVars

\* Nothing of the experience of a kill is lost but what rounding takes: not when the product of
\* Exp and hate is more than an int32.
AllIsPaid ==
    \A m \in Living : DOMAIN mob[m].hate \subseteq near =>
        \A s \in Hunters :
            LET to == Paid(mob[m].hate, s, {}) IN SumFunction(to) + Cardinality(DOMAIN to) > Exp
=============================================================================
