-------------------------------- MODULE Sheet --------------------------------
(***************************************************************************)
(* A character's sheet: one statistic that equipment, an armour set, buffs *)
(* and a magic doll add to and take from, each at its own time, and that   *)
(* has to be the base value again when it is saved (system/equip.go,       *)
(* skill_buff.go, polymorph.go, doll.go; handler/enterworld.go and         *)
(* changechar.go; system/input.go).  With it go the things these share:    *)
(* the form a player has taken, which decides what may be worn, and the    *)
(* flag that says whether he is fast or slow.                              *)
(*                                                                         *)
(* The statistic stands for maximum HP, which all four sources change.     *)
(* What a player wears is written with every save on leaving (EconomyWal), *)
(* so worn is the inventory while he is online and its rows while he is    *)
(* not.  A buff's time is left open: it may expire at any tick, and may    *)
(* have less than a second left when it is saved.                          *)
(***************************************************************************)
EXTENDS Integers, FiniteSets, FiniteSetsExt, Functions

CONSTANTS
    Piece,      \* things that can be worn
    Slot,       \* [Piece -> places on the body]
    TwoHanded,  \* weapons that leave no hand for a shield
    Shields,    \* shields and guards
    Cursed,     \* pieces that cannot be taken off
    HasteItem,  \* pieces whose wearer is always fast
    Bonus,      \* [Piece -> what wearing it adds]
    SetPieces,  \* the pieces of the armour set
    SetBonus,   \* what the whole set adds
    SetForm,    \* the form its wearer takes, or Nil
    Form, Fits, \* forms, and [Form -> pieces that can be worn in it]
    DollBonus,  \* what the doll adds
    Base,       \* the value of the statistic itself
    MaxSaved,   \* no doll is called once that much has been saved
    Nil

\* A sheet is a record of what changes together: the statistic (maxHP) and the part of it that
\* equipment gave (bonuses), the set in force, the buffs, the form, the speed and the number of
\* haste items; ghost says that it began with outdated rows.  In D are the buffs that run.
Buff == [delta : Int, move : 0..2]
Skill == {"strong", "spirit", "shape", "haste", "potion", "slow"}
Bodies(D) == [set : BOOLEAN, bonuses : Nat, maxHP : Int, buffs : [D -> Buff],
              form : Form \cup {Nil}, speed : 0..2, hasteItems : Nat, dead : BOOLEAN, ghost : BOOLEAN]

\* The one haste item there is, a shield, belongs to no set (data/yaml/armor_set_list.yaml).
ASSUME SheetAssumption ==
    /\ Slot \in [Piece -> STRING] /\ Bonus \in [Piece -> Nat] /\ Fits \in [Form -> SUBSET Piece]
    /\ TwoHanded \subseteq Piece /\ Shields \subseteq Piece /\ HasteItem \subseteq Piece
    /\ SetPieces \subseteq Piece /\ SetPieces # {} /\ Cursed \subseteq Piece
    /\ SetForm \in Form \cup {Nil} /\ Nil \notin Form
    /\ \A D \in SUBSET Skill : Nil \notin Bodies(D)
    /\ IsFiniteSet(Piece) /\ SetPieces \cap HasteItem = {}
    /\ {SetBonus, DollBonus, Base, MaxSaved} \subseteq Nat

VARIABLES
    worn,     \* the pieces worn
    c,        \* the rest of the sheet of the character in the world, or Nil
    doll,     \* "off", "out", or "stray": out, and called by an earlier login
    saved,    \* the statistic in the characters row
    rows,     \* character_buffs: [skill -> [delta, move]], and the form
    outdated,    \* the rows were written before the last save of the character
    loaded,   \* the statistic as it was loaded at the last login
    robbed    \* what strays took with them in this session

sheetVars == <<worn, c, doll, saved, rows, outdated, loaded, robbed>>

NonCancellable == {"spirit"}
Exclusions(s) == CASE s = "haste" -> {"slow"} [] s = "slow" -> {"haste"} [] OTHER -> {}
MoveSpeed(s) == CASE s \in {"haste", "potion"} -> 1 [] s = "slow" -> 2 [] OTHER -> 0

Excluding(f, S) == [s \in DOMAIN f \ S |-> f[s]]
With(f, s, v) == [t \in DOMAIN f \cup {s} |-> IF t = s THEN v ELSE f[t]]
Deltas(f) == SumFunction([s \in DOMAIN f |-> f[s].delta])
Still == [delta |-> 0, move |-> 0]
NoRows == [buffs |-> [s \in {} |-> Nil], form |-> Nil]

\* An operation works on a sheet w, and takes what is worn along as w.worn.
Whole(w) == [f \in DOMAIN w \cup {"worn"} |-> IF f = "worn" THEN worn ELSE w[f]]
Become(w) ==
    /\ worn' = w.worn
    /\ c' = [f \in DOMAIN w \ {"worn"} |-> w[f]]

Gear(W, set) == SumFunctionOnSet(Bonus, W) + (IF set THEN SetBonus ELSE 0)

\* applyEquipStats: what the equipment gave before is replaced by what it gives now.
Recalc(w) ==
    LET neo == Gear(w.worn, w.set)
    IN  [w EXCEPT !.maxHP = @ + neo - w.bonuses, !.bonuses = neo]

\* removeBuffAndRevert of each of the skills S.
Revert(w, S) ==
    LET gone == [s \in S \cap DOMAIN w.buffs |-> w.buffs[s]]
    IN  [w EXCEPT !.maxHP = @ - Deltas(gone), !.buffs = Excluding(@, S)]

UndoPoly(w) ==
    IF w.form = Nil THEN w ELSE [w EXCEPT !.form = Nil, !.buffs = Excluding(@, {"shape"})]

\* UnequipSlot, whoever asks for it: the set may break, and the form with it.
TakeOff(p, w) ==
    LET off == [w EXCEPT !.worn = @ \ {p}]
        breaks == w.set /\ ~(SetPieces \subseteq off.worn)
        items == IF p \in HasteItem /\ w.hasteItems > 0 THEN w.hasteItems - 1 ELSE w.hasteItems
        slowed == [off EXCEPT !.hasteItems = items, !.set = @ /\ ~breaks,
                              !.speed = IF p \in HasteItem /\ items = 0 THEN 0 ELSE @]
    IN  IF breaks /\ SetForm # Nil THEN UndoPoly(Recalc(slowed)) ELSE Recalc(slowed)

TakeOffAll(w, S) == FoldSet(TakeOff, w, S \cap w.worn)

\* applyPoly.  The buff is registered whatever the undressing did to the form.
Unfit(w, f) == w.worn \ (Fits[f] \cup Cursed)
ApplyPoly(w, f, timed) ==
    LET shaped == [UndoPoly(w) EXCEPT !.form = f]
        dressed == TakeOffAll(shaped, Unfit(shaped, f))
    IN  IF timed THEN [dressed EXCEPT !.buffs = With(@, "shape", Still)] ELSE dressed

\* EquipWeapon and EquipArmor, past their checks.
Rivals(p) == {q \in Piece : Slot[q] = Slot[p]}
               \cup (IF p \in TwoHanded THEN Shields ELSE IF p \in Shields THEN TwoHanded ELSE {})
PutOn(p, w) ==
    LET on == [TakeOffAll(w, Rivals(p)) EXCEPT !.worn = @ \cup {p}]
        completes == p \in SetPieces /\ SetPieces \subseteq on.worn /\ ~on.set
        dressed == Recalc([on EXCEPT !.set = @ \/ completes])
        shapes == completes /\ SetForm # Nil /\ ~w.dead
        shaped == IF shapes THEN ApplyPoly(dressed, SetForm, FALSE) ELSE dressed
    IN  IF p \in HasteItem
        THEN [Revert(shaped, {"haste", "potion", "slow"}) EXCEPT !.hasteItems = @ + 1, !.speed = 1]
        ELSE shaped

-----------------------------------------------------------------------------
\* calcAdvanceSpiritDeltas: a fifth of the base value.
SpiritDelta(w) ==
    LET base == w.maxHP - w.bonuses - Deltas(w.buffs) - (IF doll = "off" THEN 0 ELSE DollBonus)
    IN  IF base < 0 THEN 0 ELSE base \div 5

DeltaOf(s, w) == CASE s = "strong" -> 1 [] s = "spirit" -> SpiritDelta(w) [] OTHER -> 0

\* Fault: a buff that is cast again is overwritten without being reverted.
ApplyOver(s, w) ==
    LET apart == Revert(w, Exclusions(s))
        delta == DeltaOf(s, apart)
    IN  [apart EXCEPT !.maxHP = @ + delta, !.speed = IF MoveSpeed(s) = 0 THEN @ ELSE MoveSpeed(s),
                      !.buffs = With(@, s, [delta |-> delta, move |-> MoveSpeed(s)])]

\* applyBuffEffect.  Slowness and speed cancel each other; a buff that cancelled the other
\* one is registered all the same, without a speed of its own.
ApplyBuff(s, w) ==
    LET apart == Revert(w, Exclusions(s))
        delta == DeltaOf(s, apart)
        move == MoveSpeed(s)
        cancels == move # 0 /\ apart.speed = 3 - move
        quick == {t \in DOMAIN apart.buffs : cancels /\ apart.buffs[t].move = apart.speed}
        raised == [Revert(apart, quick) EXCEPT
                     !.maxHP = @ + delta,
                     !.speed = IF move = 0 THEN @ ELSE IF cancels THEN 0 ELSE move]
        entry == [delta |-> delta, move |-> IF cancels THEN 0 ELSE move]
    IN  [Revert(raised, {s}) EXCEPT !.buffs = With(@, s, entry)]

Alive == c # Nil /\ ~c.dead

\* HandleUseItem of something that is worn.
Wear(p) ==
    /\ c # Nil
    /\ IF p \in worn
       THEN p \notin Cursed /\ Become(TakeOff(p, Whole(c)))
       ELSE /\ p \in (IF c.form = Nil THEN Piece ELSE Fits[c.form])
            /\ Become(PutOn(p, Whole(c)))
    /\ UNCHANGED <<doll, saved, rows, outdated, loaded, robbed>>

\* executeBuffSkill of one of the skills that raise the statistic.
Enchant(s) ==
    /\ Alive
    /\ s \in {"strong", "spirit"}
    /\ Become(ApplyBuff(s, Whole(c)))
    /\ UNCHANGED <<doll, saved, rows, outdated, loaded, robbed>>

\* executeBuffSkill of haste and slow: neither touches the wearer of a haste item, and each
\* only ends the other where it finds it.
Opposites(s) == IF s = "haste" THEN {"slow"} ELSE {"haste", "potion"}
Quicken(s) ==
    /\ Alive /\ c.hasteItems = 0
    /\ s \in {"haste", "slow"}
    /\ Become(IF c.speed = 3 - MoveSpeed(s)
              THEN [Revert(Whole(c), Opposites(s)) EXCEPT !.speed = 0]
              ELSE ApplyBuff(s, Whole(c)))
    /\ UNCHANGED <<doll, saved, rows, outdated, loaded, robbed>>

\* ApplyNpcDebuff of slow: without those checks.
SlowedByNpc ==
    /\ Alive
    /\ Become(ApplyBuff("slow", Whole(c)))
    /\ UNCHANGED <<doll, saved, rows, outdated, loaded, robbed>>

\* ApplyHaste: the green potion.
Drink ==
    /\ Alive
    /\ LET w == Revert(Whole(c), {"haste", "potion"})
       IN  Become([w EXCEPT !.speed = 1, !.buffs = With(@, "potion", [delta |-> 0, move |-> 1])])
    /\ UNCHANGED <<doll, saved, rows, outdated, loaded, robbed>>

\* DoPoly by scroll, spell or NPC; UsePolyScroll without a name.
Polymorph(f) ==
    /\ Alive
    /\ Become(ApplyPoly(Whole(c), f, TRUE))
    /\ UNCHANGED <<doll, saved, rows, outdated, loaded, robbed>>

EndPolymorph ==
    /\ c # Nil /\ c.form # Nil
    /\ Become(UndoPoly(Whole(c)))
    /\ UNCHANGED <<doll, saved, rows, outdated, loaded, robbed>>

\* The buffs S end: reverted, the form undone with theirs, the speed with theirs.
Ended(w, S) ==
    LET moved == \E s \in S : w.buffs[s].move # 0
        ended == [Revert(w, S) EXCEPT !.speed = IF moved THEN 0 ELSE @]
    IN  IF "shape" \in S THEN UndoPoly(ended) ELSE ended

\* tickPlayerBuffs, at the tick a buff runs out.
Expire(s) ==
    /\ c # Nil
    /\ s \in DOMAIN c.buffs
    /\ Become(Ended(Whole(c), {s}))
    /\ UNCHANGED <<doll, saved, rows, outdated, loaded, robbed>>

\* cancelAllBuffs (Cancellation): a haste item is silenced, too.
Cancellation ==
    /\ Alive
    /\ LET w == Ended(Whole(c), DOMAIN c.buffs \ NonCancellable)
       IN  Become([w EXCEPT !.speed = IF c.hasteItems > 0 THEN 0 ELSE @])
    /\ UNCHANGED <<doll, saved, rows, outdated, loaded, robbed>>

\* KillPlayer with ClearAllBuffsOnDeath; ProcessRestart and resurrections.
Fall ==
    /\ Alive
    /\ Become([Ended(Whole(c), DOMAIN c.buffs) EXCEPT !.dead = TRUE])
    /\ UNCHANGED <<doll, saved, rows, outdated, loaded, robbed>>
Revive ==
    /\ c # Nil /\ c.dead
    /\ c' = [c EXCEPT !.dead = FALSE]
    /\ UNCHANGED <<worn, doll, saved, rows, outdated, loaded, robbed>>

-----------------------------------------------------------------------------
\* UseDoll: the doll is called, or dismissed if it is there, whoever called it.
Summon ==
    /\ c # Nil /\ doll = "off" /\ saved < MaxSaved
    /\ c' = [c EXCEPT !.maxHP = @ + DollBonus]
    /\ doll' = "out"
    /\ UNCHANGED <<worn, saved, rows, outdated, loaded, robbed>>
DollGone ==
    /\ doll' = "off"
    /\ c' = [c EXCEPT !.maxHP = @ - DollBonus]
    /\ robbed' = IF doll = "stray" THEN robbed + DollBonus ELSE robbed
    /\ UNCHANGED <<worn, saved, rows, outdated, loaded>>
Dismiss == c # Nil /\ doll # "off" /\ DollGone

\* tickDolls: the time of a doll runs out, or its master is dead; or nowhere to be found,
\* and then nobody gives back what it added.
TickDoll == c # Nil /\ doll # "off" /\ DollGone
TickStray ==
    /\ c = Nil /\ doll # "off"
    /\ doll' = "off"
    /\ UNCHANGED <<worn, c, saved, rows, outdated, loaded, robbed>>

-----------------------------------------------------------------------------
\* The characters row and the buff rows of a save.  Buffs with less than a second left are
\* not kept, and if none is left to keep, the rows stay as they are.
BaseNow(w) == w.maxHP - w.bonuses - Deltas(w.buffs)
SaveAll ==
    /\ saved' = BaseNow(c)
    /\ \E kept \in SUBSET DOMAIN c.buffs :
         IF kept = {}
         THEN rows' = rows /\ outdated' = (rows # NoRows)
         ELSE /\ rows' = [buffs |-> [s \in kept |-> c.buffs[s]],
                          form |-> IF "shape" \in kept THEN c.form ELSE Nil]
              /\ outdated' = c.ghost

SheetSave == c # Nil /\ SaveAll /\ UNCHANGED <<worn, c, doll, loaded, robbed>>

\* handleDisconnect: the doll is removed and the character saved.
SheetDisconnect ==
    /\ c # Nil
    /\ SaveAll
    /\ c' = Nil /\ doll' = "off" /\ loaded' = 0 /\ robbed' = 0
    /\ UNCHANGED worn

\* HandleChangeChar: the same save; dolls are left where they are.
SheetChange ==
    /\ c # Nil
    /\ SaveAll
    /\ c' = Nil /\ doll' = (IF doll = "off" THEN "off" ELSE "stray") /\ loaded' = 0 /\ robbed' = 0
    /\ UNCHANGED worn

\* HandleEnterWorld: InitEquipStats, then loadAndRestoreBuffs, which deletes the rows.  With
\* a haste item on, stored haste and slow are passed over, those that a later one had cancelled
\* apart.
Skipped(hasted) ==
    {s \in DOMAIN rows.buffs \cap {"haste", "potion", "slow"} : hasted /\ rows.buffs[s].move # 0}
SheetEnter ==
    LET hasted == worn \cap HasteItem # {}
        set == SetPieces \subseteq worn
        back == Excluding(rows.buffs, Skipped(hasted))
        moves == {back[s].move : s \in DOMAIN back} \ {0}
    IN  /\ c = Nil
        /\ \E speed \in IF moves # {} THEN moves ELSE {IF hasted THEN 1 ELSE 0} :
             c' = [set |-> set, bonuses |-> Gear(worn, set),
                   maxHP |-> saved + Gear(worn, set) + Deltas(back),
                   buffs |-> back, form |-> IF "shape" \in DOMAIN back THEN rows.form ELSE Nil,
                   speed |-> speed, hasteItems |-> Cardinality(worn \cap HasteItem), dead |-> FALSE,
                   ghost |-> outdated]
        /\ loaded' = saved /\ rows' = NoRows
        /\ UNCHANGED <<worn, doll, saved, outdated, robbed>>

SheetInit ==
    /\ worn = {} /\ c = Nil /\ doll = "off" /\ saved = Base /\ rows = NoRows /\ outdated = FALSE
    /\ loaded = 0 /\ robbed = 0

SheetNext ==
    \/ \E p \in Piece : Wear(p)
    \/ \E s \in Skill : Enchant(s) \/ Quicken(s) \/ Expire(s)
    \/ \E f \in Form : Polymorph(f)
    \/ SlowedByNpc \/ Drink \/ EndPolymorph \/ Cancellation \/ Fall \/ Revive
    \/ Summon \/ Dismiss \/ TickDoll \/ TickStray
    \/ SheetSave \/ SheetDisconnect \/ SheetChange \/ SheetEnter

\* Only the types of the variables.
SheetTypeOK ==
    /\ worn \subseteq Piece /\ doll \in {"off", "out", "stray"} /\ outdated \in BOOLEAN
    /\ saved \in Nat /\ loaded \in Nat /\ robbed \in Nat
    /\ c = Nil \/ \E D \in SUBSET Skill : c \in Bodies(D)
    /\ \E D \in SUBSET Skill : rows \in [buffs : [D -> Buff], form : Form \cup {Nil}]

\* Whatever is worn, taken off by force or by hand, cast, replaced, excluded, cancelled or
\* expires, in whatever order and over any number of logins: the statistic is what was
\* loaded, and what the pieces worn, the set if it is whole, the buffs that run and the
\* doll called in this session add, each counted once.
SheetAdds ==
    c # Nil =>
        /\ c.set => SetPieces \subseteq worn
        /\ c.bonuses = Gear(worn, c.set)
        /\ c.maxHP = loaded + Gear(worn, c.set) + Deltas(c.buffs)
                       + (IF doll = "out" THEN DollBonus ELSE 0) - robbed

\* No form is kept together with a piece it cannot wear, unless the piece is cursed,
\* though forms come from scrolls and from the set, end with a set that breaks, and are
\* restored at login; except after a login with rows that an earlier save had left.
FormFits ==
    c # Nil /\ c.form # Nil /\ ~c.ghost => Unfit(Whole(c), c.form) = {}

\* Nobody is fast without a running buff of speed or a haste item, or slow without a buff
\* of slowness; and the haste items counted are the ones that are worn.
SpeedHasACause ==
    c # Nil =>
        /\ c.speed = 1 => c.hasteItems > 0 \/ \E s \in DOMAIN c.buffs : c.buffs[s].move = 1
        /\ c.speed = 2 => \E s \in DOMAIN c.buffs : c.buffs[s].move = 2
        /\ c.hasteItems = Cardinality(worn \cap HasteItem)

\* What a character's statistic is made of (applyEquipStats, applyBuffEffect), and that form
\* and speed have what they need.
SheetAgrees == SheetTypeOK /\ SheetAdds /\ FormFits /\ SpeedHasACause

\* The comment on every save: only the base value is stored, equipment and buffs deducted,
\* or the statistic would grow at every login.  The doll is not deducted.
SavedIsBase == saved = Base

\* A buff that comes back at login was running when the character left.
NoBuffReturns == c = Nil => ~outdated

\* A cursed piece cannot be taken off by its wearer.
CursedStaysOn == [][c # Nil /\ c' # Nil => worn \cap Cursed \subseteq worn']_sheetVars

SheetSpec == SheetInit /\ [][SheetNext]_sheetVars
=============================================================================
