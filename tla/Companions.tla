----------------------------- MODULE Companions -----------------------------
(***************************************************************************)
(* Pets, summoned creatures, the hierarch and the pet match:               *)
(* PetSystem (internal/system/pet_mgr.go), SummonSystem (skill_summon.go), *)
(* HierarchSystem (hierarch.go), PetMatchSystem (pet_match.go), the ticks  *)
(* of CompanionAISystem (companion_ai.go), and what leaving the world does *)
(* to them (input.go, handler/changechar.go).                              *)
(*                                                                         *)
(* A pet is a row of character_pets under the number of its collar; while  *)
(* it is out it is in the world as well, and the collar an item like       *)
(* others.  What a pet carries is in memory only.  Its level, hit points   *)
(* and orders, positions but for the arena, and the animals that become    *)
(* pets or are let go are left out; when a creature's hour is over is left *)
(* open.                                                                   *)
(***************************************************************************)
EXTENDS Integers, Sequences, FiniteSets, FiniteSetsExt

CONSTANTS
    Owner,          \* players
    NoChar,         \* character number 0
    Gear,           \* pet equipment, by object number (0 is none)
    Armour,         \* that of it which is not a weapon
    Bonus,          \* what each adds
    Charisma,       \* PlayerInfo.Cha, of every player
    TameBonus,      \* by player's class, when he tames with an item (12 at most)
    SpellBonus,     \* and with a spell (12 at most)
    SpecialCost,    \* cost of the creatures that stand no others beside them
    ReadyLimit,     \* ticks to wait for an opponent (300)
    MatchLimit,     \* ticks a match may last (1500)
    MaxPets,        \* bound on the pets in the world
    MaxCollars      \* bound on the collars ever made

ASSUME CompanionAssumption ==
    /\ NoChar \notin Owner /\ Gear \subseteq Nat \ {0} /\ Armour \subseteq Gear
    /\ Bonus \in [Gear -> Nat]
    /\ {Charisma, SpecialCost, ReadyLimit, MatchLimit, MaxPets, MaxCollars} \subseteq Nat \ {0}
    /\ MaxCollars >= 2
    /\ TameBonus \in [Owner -> 0..12] /\ SpellBonus \in [Owner -> 0..12]

VARIABLES
    masters,        \* players in the world
    inArena,        \* players whose position is on the arena's map
    holder,         \* who carries each collar made so far
    row,            \* by collar: the grade of its pet's row, NoRow if there is none
    pets,           \* pets in the world, by object number
    petBag,         \* equipment players carry
    summons,        \* creatures by owner and kind
    priests,        \* players with a hierarch
    match           \* the one PetMatchSlot

companionVars == <<masters, inArena, holder, row, pets, petBag, summons, priests, match>>

NoRow == -1
Origin == {"level", "ring", "special", "elemental", "tamed"}
NoMatch == [status |-> "none", pc |-> <<NoChar, NoChar>>, clock |-> 0]

PetCost(kind) ==
    CASE kind \in {"level", "tamed"} -> 6
      [] kind = "ring" -> 8
      [] kind = "special" -> SpecialCost
      [] kind = "elemental" -> Charisma + 7

\* GetPetsByOwner, GetPetByItemObjID
PetsOf(o) == {p \in DOMAIN pets : pets[p].owner = o}
OutFor(c) == {p \in DOMAIN pets : pets[p].collar = c}
UsedPetCost(o) ==
    6 * Cardinality(PetsOf(o))
    + SumFunctionOnSet([k \in Origin |-> summons[o][k] * PetCost(k)], Origin)

NoPet(ps, S) == [p \in DOMAIN ps \ S |-> ps[p]]
NoSummons == [k \in Origin |-> 0]

\* The rows after the pets S have been saved.  Two pets of one collar have the same grade.
SavedRows(S) ==
    [c \in DOMAIN row |->
        IF S \cap OutFor(c) = {} THEN row[c] ELSE pets[CHOOSE p \in S \cap OutFor(c) : TRUE].grade]

\* NextNpcID; `paid` is history: charisma was asked for when the pet came.  The match forgets a pet that is gone (place), so numbers may come again.
PetId == 1 .. MaxPets
Room == PetId \ DOMAIN pets # {}
Called(ps, o, c, grade, place) ==
    [p \in DOMAIN ps \cup {Min(PetId \ DOMAIN ps)} |->
        IF p \in DOMAIN ps THEN ps[p]
        ELSE [owner |-> o, collar |-> c, grade |-> grade, dead |-> FALSE, place |-> place,
              paid |-> place = 0, items |-> {}, weapon |-> 0, armour |-> 0, add |-> 0, ac |-> 0]]

CompanionsInit ==
    /\ masters = Owner /\ inArena = {}
    /\ \E f \in [{1, 2} -> Owner] : holder = <<f[1], f[2]>>
    /\ row = <<0, 1>>
    /\ pets = <<>>
    /\ \E o \in Owner \cup {NoChar} : petBag = [q \in Owner |-> IF q = o THEN Gear ELSE {}]
    /\ summons = [o \in Owner |-> NoSummons]
    /\ priests = {}
    /\ match = NoMatch

-----------------------------------------------------------------------------
(* Collars.                                                                *)

\* UsePetCollar.  Nothing can be called in the arena (recall_pets).
UsePetCollar(o, c) ==
    /\ o \in masters \ inArena /\ holder[c] = o
    /\ OutFor(c) = {}
    /\ Charisma - UsedPetCost(o) >= 6
    /\ row[c] # NoRow
    /\ Room /\ pets' = Called(pets, o, c, row[c], 0)
    /\ UNCHANGED <<masters, inArena, holder, row, petBag, summons, priests, match>>

\* The same while the pet is out.  What it carries goes with it.
CollectPet(o, c) ==
    /\ o \in masters /\ holder[c] = o
    /\ \E p \in OutFor(c) :
        /\ pets[p].owner = o
        /\ row' = SavedRows({p})
        /\ pets' = NoPet(pets, {p})
    /\ UNCHANGED <<masters, inArena, holder, petBag, summons, priests, match>>

\* A collar is traded, or dropped and picked up by somebody else.
PassCollar(o, q, c) ==
    /\ {o, q} \subseteq masters /\ o # q /\ holder[c] = o
    /\ holder' = [holder EXCEPT ![c] = q]
    /\ UNCHANGED <<masters, inArena, row, pets, petBag, summons, priests, match>>

CollarFrom(o, c) == IF holder[c] = o THEN [holder EXCEPT ![c] = NoChar] ELSE holder

DismissPet(o, p) ==
    /\ o \in masters /\ p \in PetsOf(o)
    /\ pets' = NoPet(pets, {p})
    /\ row' = [row EXCEPT ![pets[p].collar] = NoRow]
    /\ holder' = CollarFrom(o, pets[p].collar)
    /\ UNCHANGED <<masters, inArena, petBag, summons, priests, match>>

\* TameNpc, with a collar that can be carried; some animals need twice as much charisma.
TameNpc(o) ==
    /\ o \in masters \ inArena /\ Len(holder) < MaxCollars
    /\ \E divisor \in {6, 12} : Charisma + TameBonus[o] - UsedPetCost(o) >= divisor
    /\ holder' = Append(holder, o)
    /\ row' = Append(row, 0)
    /\ Room /\ pets' = Called(pets, o, Len(holder) + 1, 0, 0)
    /\ UNCHANGED <<masters, inArena, petBag, summons, priests, match>>

-----------------------------------------------------------------------------
(* What a pet wears.  A weapon or an armour adds to its statistics; an     *)
(* armour takes from its AC as well.                                       *)

UnequipPetWeapon(pet) ==
    IF pet.weapon = 0 THEN pet
    ELSE [pet EXCEPT !.weapon = 0, !.add = @ - Bonus[pet.weapon]]

UnequipPetArmor(pet) ==
    IF pet.armour = 0 THEN pet
    ELSE [pet EXCEPT !.armour = 0, !.add = @ - Bonus[pet.armour], !.ac = @ + Bonus[pet.armour]]

EquipPetWeapon(pet, g) == [UnequipPetWeapon(pet) EXCEPT !.weapon = g, !.add = @ + Bonus[g]]

EquipPetArmor(pet, g) ==
    [UnequipPetArmor(pet) EXCEPT !.armour = g, !.add = @ + Bonus[g], !.ac = @ - Bonus[g]]

\* GiveToPet: only evolved pets can wear anything.
GiveToPet(o, p, g) ==
    /\ o \in masters /\ p \in PetsOf(o) /\ g \in petBag[o]
    /\ pets[p].grade > 0
    /\ petBag' = [petBag EXCEPT ![o] = @ \ {g}]
    /\ pets' = [pets EXCEPT ![p].items = @ \cup {g}]
    /\ UNCHANGED <<masters, inArena, holder, row, summons, priests, match>>

UsePetItem(o, p, g) ==
    /\ o \in masters /\ p \in PetsOf(o) /\ g \in pets[p].items
    /\ pets[p].grade > 0
    /\ pets' = [pets EXCEPT ![p] =
           IF g \in Armour
           THEN IF @.armour = g THEN UnequipPetArmor(@) ELSE EquipPetArmor(@, g)
           ELSE IF @.weapon = g THEN UnequipPetWeapon(@) ELSE EquipPetWeapon(@, g)]
    /\ UNCHANGED <<masters, inArena, holder, row, petBag, summons, priests, match>>

\* Fault: what it wears goes back without being taken off.
CollectWorn(o, p) ==
    /\ o \in masters /\ p \in PetsOf(o) /\ pets[p].items # {}
    /\ petBag' = [petBag EXCEPT ![o] = @ \cup pets[p].items]
    /\ pets' = [pets EXCEPT ![p].items = {}]
    /\ UNCHANGED <<masters, inArena, holder, row, summons, priests, match>>

\* Each is taken off before it goes back.
CollectPetItems(o, p) ==
    /\ o \in masters /\ p \in PetsOf(o) /\ pets[p].items # {}
    /\ petBag' = [petBag EXCEPT ![o] = @ \cup pets[p].items]
    /\ pets' = [pets EXCEPT ![p] = [UnequipPetArmor(UnequipPetWeapon(@)) EXCEPT !.items = {}]]
    /\ UNCHANGED <<masters, inArena, holder, row, summons, priests, match>>

\* evolvePet: the old collar goes, then a better one is given, if it can be carried.  AC is
\* set to the new kind's, and only then is the armour taken off.
EvolvePet(o, p) ==
    LET old == pets[p].collar
        new == Len(holder) + 1
        better == [pets[p] EXCEPT !.collar = new, !.grade = @ + 1, !.ac = 0]
    IN  /\ o \in masters /\ p \in PetsOf(o) /\ pets[p].grade < 2
        /\ \/ /\ Len(holder) < MaxCollars
              /\ holder' = Append(CollarFrom(o, old), o)
              /\ row' = Append([row EXCEPT ![old] = NoRow], pets[p].grade + 1)
              /\ pets' = [pets EXCEPT ![p] = UnequipPetArmor(UnequipPetWeapon(better))]
           \/ /\ holder' = CollarFrom(o, old)
              /\ UNCHANGED <<row, pets>>
        /\ UNCHANGED <<masters, inArena, petBag, summons, priests, match>>

\* resurrectPet, resurrectPetWithHP: by anybody with the scroll or the spell.
ResurrectPet(p) ==
    /\ p \in DOMAIN pets /\ pets[p].dead
    /\ pets' = [pets EXCEPT ![p].dead = FALSE]
    /\ UNCHANGED <<masters, inArena, holder, row, petBag, summons, priests, match>>

-----------------------------------------------------------------------------
(* Creatures.  No skill can be used in the arena.                          *)

\* ExecuteSummonMonster: as many at once as charisma allows, but one that stands no others.
SummonMonster(o, k) ==
    LET avail == Charisma + 6 - UsedPetCost(o)
    IN  /\ o \in masters \ inArena
        /\ k \in {"level", "ring", "special"}
        /\ k = "special" => PetsOf(o) = {} /\ summons[o] = NoSummons
        /\ avail >= PetCost(k)
        /\ summons' = [summons EXCEPT ![o][k] = @ + IF k = "special" THEN 1 ELSE avail \div PetCost(k)]
        /\ UNCHANGED <<masters, inArena, holder, row, pets, petBag, priests, match>>

ExecuteElementalSummon(o) ==
    /\ o \in masters \ inArena
    /\ UsedPetCost(o) = 0
    /\ summons' = [summons EXCEPT ![o]["elemental"] = 1]
    /\ UNCHANGED <<masters, inArena, holder, row, pets, petBag, priests, match>>

\* ExecuteTamingMonster, ExecuteCreateZombie
TameMonster(o) ==
    /\ o \in masters \ inArena
    /\ Charisma + SpellBonus[o] - UsedPetCost(o) >= 6
    /\ summons' = [summons EXCEPT ![o]["tamed"] = @ + 1]
    /\ UNCHANGED <<masters, inArena, holder, row, pets, petBag, priests, match>>

ReturnToNature(o) ==
    /\ o \in masters \ inArena /\ summons[o] # NoSummons
    /\ summons' = [summons EXCEPT ![o] = NoSummons]
    /\ UNCHANGED <<masters, inArena, holder, row, pets, petBag, priests, match>>

DismissSummon(o, k) ==
    /\ o \in masters /\ summons[o][k] > 0
    /\ summons' = [summons EXCEPT ![o][k] = @ - 1]
    /\ UNCHANGED <<masters, inArena, holder, row, pets, petBag, priests, match>>

\* UseHierarch: the old one is sent away; a new one comes, unless the player is invisible.
UseHierarch(o, invisible) ==
    /\ o \in masters
    /\ priests' = IF invisible THEN priests \ {o} ELSE priests \cup {o}
    /\ UNCHANGED <<masters, inArena, holder, row, pets, petBag, summons, match>>

-----------------------------------------------------------------------------
(* The pet match.  A pet's `place` is the place of the slot it was called  *)
(* for, while the slot still names it (Pet1ID, Pet2ID).                    *)

InPlace(ps, k) == {p \in DOMAIN ps : ps[p].place = k}
Placed(ps, m) ==
    [p \in DOMAIN ps |->
        IF ps[p].place # 0 /\ m.pc[ps[p].place] # ps[p].owner THEN [ps[p] EXCEPT !.place = 0] ELSE ps[p]]

\* getSlotStatus: who of the two is in the arena, whatever the slot says.
SlotStatus ==
    LET present == {k \in {1, 2} : match.pc[k] \in masters \cap inArena}
    IN  CASE present = {} -> "none"
          [] present = {1, 2} -> "playing"
          [] present = {1} -> "ready1"
          [] present = {2} -> "ready2"

\* It clears the slot when nobody is there, and the place of a player who is elsewhere, but
\* not of one who has left the world.
SlotView ==
    IF SlotStatus = "none" THEN NoMatch
    ELSE [match EXCEPT !.pc = [k \in {1, 2} |-> IF @[k] \in masters \ inArena THEN NoChar ELSE @[k]]]

\* endMatch, cancelMatch, cleanupPlayer: the pets of those in the arena go unsaved, and they
\* are sent home.  Medals are left out.
EndMatch(ps, m, there) ==
    LET home == {m.pc[1], m.pc[2]} \cap masters \cap there
    IN  /\ pets' = Placed(NoPet(ps, {p \in DOMAIN ps : ps[p].owner \in home}), NoMatch)
        /\ inArena' = there \ home
        /\ match' = NoMatch

\* EnterPetMatch.  The keeper stands outside the arena.  Charisma is not asked for, nor
\* whether the collar's pet is out with somebody else.  A match whose first pet has gone
\* meanwhile ends as it starts.
EnterPetMatch(o, c) ==
    LET k == IF SlotStatus = "ready1" THEN 2 ELSE 1
        m == IF SlotStatus = "none" THEN [status |-> "ready1", pc |-> <<o, NoChar>>, clock |-> 0]
             ELSE [SlotView EXCEPT !.status = "playing", !.pc[k] = o, !.clock = 0]
        out == Called(Placed(pets, m), o, c, row[c], k)
    IN  /\ o \in masters \ inArena /\ holder[c] = o
        /\ PetsOf(o) = {}
        /\ SlotStatus # "playing"
        /\ IF row[c] = NoRow
           THEN pets' = Placed(pets, SlotView) /\ match' = SlotView /\ UNCHANGED inArena
           ELSE /\ Room
                /\ IF m.status = "playing" /\ InPlace(out, 3 - k) = {}
                   THEN EndMatch(out, m, inArena \cup {o})
                   ELSE pets' = out /\ match' = m /\ inArena' = inArena \cup {o}
        /\ UNCHANGED <<masters, holder, row, petBag, summons, priests>>

\* A scroll takes a player home, and his companions with him.
LeaveArena(o) ==
    /\ o \in masters \cap inArena
    /\ inArena' = inArena \ {o}
    /\ UNCHANGED <<masters, holder, row, pets, petBag, summons, priests, match>>

\* TickPetMatches.  A slot that waits says "ready1", whoever is left in it.
TickPetMatches(ps) ==
    \/ match.status = "none" /\ pets' = ps /\ UNCHANGED <<inArena, match>>
    \/ /\ match.status = "ready1"
       /\ IF match.clock + 1 > ReadyLimit THEN EndMatch(ps, match, inArena)
          ELSE pets' = ps /\ match' = [match EXCEPT !.clock = @ + 1] /\ UNCHANGED inArena
    \/ /\ match.status = "playing"
       /\ IF \/ \E k \in {1, 2} : \A p \in InPlace(ps, k) : ps[p].dead
             \/ match.clock + 1 >= MatchLimit
          THEN EndMatch(ps, match, inArena)
          ELSE pets' = ps /\ match' = [match EXCEPT !.clock = @ + 1] /\ UNCHANGED inArena

-----------------------------------------------------------------------------
(* Ticks, and leaving the world.                                           *)

Opponents(p) == {q \in DOMAIN pets : {pets[p].place, pets[q].place} = {1, 2} /\ ~pets[q].dead}

\* tickPets: pets fight monsters, or in a match each other; of the two only one falls.
MayFall ==
    {p \in DOMAIN pets :
        /\ ~pets[p].dead /\ pets[p].owner \in masters
        /\ pets[p].owner \in inArena => match.status = "playing" /\ Opponents(p) # {}}
Fallen(S) == [p \in DOMAIN pets |-> IF p \in S THEN [pets[p] EXCEPT !.dead = TRUE] ELSE pets[p]]
Strays == {p \in DOMAIN pets : ~pets[p].dead /\ pets[p].owner \notin masters}

\* tickSummons: those of absent masters go, and one spell's creatures whose hour is over.
TickSummons ==
    LET there == [o \in Owner |-> IF o \in masters THEN summons[o] ELSE NoSummons]
    IN  \/ summons' = there
        \/ \E o \in masters, k \in Origin \ {"tamed"} : \E n \in 1 .. summons[o][k] :
              summons' = [there EXCEPT ![o][k] = @ - n]

\* CompanionAISystem.Update, in its order.  A dead pet is left where it is, even when its
\* master is away; a hierarch leaves an invisible or dead master, or when its time is over.
CompanionTick ==
    /\ TickSummons
    /\ \E S \in SUBSET MayFall :
        /\ \A p, q \in S : q \notin Opponents(p)
        /\ row' = SavedRows(Strays)
        /\ TickPetMatches(NoPet(Fallen(S), Strays))
    /\ \E P \in SUBSET (priests \cap masters) : priests' = P
    /\ UNCHANGED <<masters, holder, petBag>>

\* cleanupCompanions
CompanionDisconnect(o) ==
    /\ o \in masters /\ masters' = masters \ {o}
    /\ summons' = [summons EXCEPT ![o] = NoSummons]
    /\ priests' = priests \ {o}
    /\ row' = SavedRows(PetsOf(o))
    /\ pets' = NoPet(pets, PetsOf(o))
    /\ UNCHANGED <<inArena, holder, petBag, match>>

\* HandleChangeChar leaves them to the next tick.
CompanionChangeChar(o) ==
    /\ o \in masters /\ masters' = masters \ {o}
    /\ UNCHANGED <<inArena, holder, row, pets, petBag, summons, priests, match>>

CompanionEnter(o) ==
    /\ o \in Owner \ masters /\ masters' = masters \cup {o}
    /\ UNCHANGED <<inArena, holder, row, pets, petBag, summons, priests, match>>

CompanionStep ==
    \E o \in Owner :
        \/ \E c \in DOMAIN holder :
              \/ UsePetCollar(o, c) \/ CollectPet(o, c) \/ EnterPetMatch(o, c)
              \/ \E q \in Owner : PassCollar(o, q, c)
        \/ \E p \in DOMAIN pets :
              \/ DismissPet(o, p) \/ EvolvePet(o, p) \/ CollectPetItems(o, p)
              \/ \E g \in Gear : GiveToPet(o, p, g) \/ UsePetItem(o, p, g)
        \/ TameNpc(o) \/ TameMonster(o) \/ ExecuteElementalSummon(o) \/ ReturnToNature(o)
        \/ \E k \in Origin : SummonMonster(o, k) \/ DismissSummon(o, k)
        \/ \E invisible \in BOOLEAN : UseHierarch(o, invisible)
        \/ LeaveArena(o) \/ CompanionDisconnect(o) \/ CompanionChangeChar(o) \/ CompanionEnter(o)

CompanionNext == CompanionStep \/ (\E p \in DOMAIN pets : ResurrectPet(p)) \/ CompanionTick
CompanionSpec == CompanionsInit /\ [][CompanionNext]_companionVars

-----------------------------------------------------------------------------

CompanionsTypeOK ==
    /\ masters \subseteq Owner /\ inArena \subseteq Owner /\ priests \subseteq Owner
    /\ holder \in Seq(Owner \cup {NoChar}) /\ Len(row) = Len(holder) /\ Len(row) <= MaxCollars
    /\ row \in Seq({NoRow, 0, 1, 2})
    /\ DOMAIN pets \subseteq PetId
    /\ \A p \in DOMAIN pets :
        /\ pets[p].owner \in Owner /\ pets[p].collar \in DOMAIN row /\ pets[p].grade \in 0 .. 2
        /\ pets[p].place \in 0 .. 2 /\ pets[p].paid \in BOOLEAN /\ pets[p].items \subseteq Gear
        /\ {pets[p].weapon, pets[p].armour} \subseteq Gear \cup {0}
    /\ petBag \in [Owner -> SUBSET Gear]
    /\ summons \in [Owner -> [Origin -> Nat]]
    /\ match.status \in {"none", "ready1", "playing"} /\ match.clock \in Nat

\* A collar calls one pet, and no player ever has two pets of one collar; not even if it goes
\* from hand to hand, its pet dies, evolves, or is called for a match.
OnePetEach ==
    \A p, q \in DOMAIN pets : pets[p].owner = pets[q].owner /\ pets[p].collar = pets[q].collar => p = q

\* What a pet wears it carries, nobody else has it, and its statistics are raised by just that,
\* in whatever order things were given, put on, exchanged and taken back.
GearAddsUp ==
    \A p \in DOMAIN pets :
        LET worn == {pets[p].weapon, pets[p].armour} \ {0}
        IN  /\ worn \subseteq pets[p].items
            /\ pets[p].add = SumFunctionOnSet(Bonus, worn)
            /\ \A q \in DOMAIN pets \ {p} : pets[p].items \cap pets[q].items = {}
            /\ \A o \in Owner : pets[p].items \cap petBag[o] = {}

\* Pets and creatures of all origins together never cost more than a player's charisma, with
\* the most any spell or class adds to it; pets called for a match are not counted.  A creature
\* that stands no others is alone when it comes, and an elemental is alone as long as it is there.
CharismaIsKept ==
    \A o \in Owner :
        LET extra == 6 * Cardinality({p \in PetsOf(o) : ~pets[p].paid})
            most == Max({7, TameBonus[o], SpellBonus[o]})
        IN  /\ UsedPetCost(o) - extra <= Charisma + most
            /\ summons[o]["elemental"] > 0 => UsedPetCost(o) - extra = Charisma + 7

\* NoChar is his own opponent; a match that is on was joined by two, and the pets that
\* stand for them are theirs.
MatchHasTwo ==
    /\ match.pc[1] # NoChar => match.pc[1] # match.pc[2]
    /\ match.status = "none" => match = NoMatch
    /\ \A k \in {1, 2} : Cardinality(InPlace(pets, k)) <= 1
    /\ \A p \in DOMAIN pets : pets[p].place # 0 => pets[p].owner = match.pc[pets[p].place]

CompanionsAgree == CompanionsTypeOK /\ OnePetEach /\ GearAddsUp /\ CharismaIsKept /\ MatchHasTwo

\* Companions go after their master, unless he returns (a dead pet stays); one who waits for an
\* opponent, or fights one, and stays does not do so for ever.
Forlorn(o) ==
    o \notin masters /\ (summons[o] # NoSummons \/ o \in priests \/ PetsOf(o) \cap Strays # {})
MatchIsOn == match.status # "none" /\ SlotStatus = match.status

(* Not so: a collar handed over can call a second pet for a match, and dismissing one of the two *)
(* strikes the row of both.                                                                     *)
OnePetPerCollar == \A p, q \in DOMAIN pets : pets[p].collar = pets[q].collar => p = q
PetsHaveRows == \A p \in DOMAIN pets : row[pets[p].collar] # NoRow

(* Nor: a pet that evolves a second time keeps the loss of the armour it wore, since AC is set   *)
(* before the armour is taken off, whereas unequipPetArmor gives AC back (pet_mgr.go:1006).       *)
ArmourCounts ==
    \A p \in DOMAIN pets : pets[p].ac = IF pets[p].armour = 0 THEN 0 ELSE 0 - Bonus[pets[p].armour]
=============================================================================
