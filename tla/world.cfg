SPECIFICATION MCSpec
CONSTANTS
    p1 = p1
    p2 = p2
    p3 = p3
    Frogs = Frogs
    Lair = Lair
    Pride = Pride
    Ivory = Ivory
    None = None
    Players <- MCPlayers
    Dungeon = {Frogs, Lair}
    Def <- MCDef
    Town = Town
    MaxShow = 2
    Runners <- MCRunners
    MaxMembers = 3
    Few = 2
    Some = 3
    ReadyTicks = 1
    PlayingTicks = 2
    Guests = {p1}
    Outside = Outside
    Map = {Outside, Pride, Ivory}
    Group = {"tower", "ivory"}
    GroupOf <- MCGroupOf
    MaxTime = 2
    MaxUsed = 3
    MaxDay = 2
    Walking = {"antharas"}
    Fighting = {"lindvior"}
    Lifetime = 3
    Distance = 2
    MaxPerKind = 1
    MaxKeepers = 2
    m1 = m1
    m2 = m2
    a1 = a1
    a2 = a2
    b1 = b1
    a = a
    b = b
    Persons = {p1}
    Mobs = {m1, m2}
    Returning = {m1}
    Tile = {a1, a2, b1}
    MapOf <- MCMapOf
    SameSpot <- MCSameSpot
    Area <- MCArea
    DeleteTicks = 1
    RespawnTicks = 1
    RetryTicks = 1
    o1 = o1
    o2 = o2
    NoChar = NoChar
    Owner <- MCOwner
    Gear = {1, 2}
    Armour = {2}
    Bonus <- MCBonus
    Charisma = 6
    TameBonus <- MCTame
    SpellBonus <- MCTame
    SpecialCost = 10
    ReadyLimit = 1
    MatchLimit = 2
    MaxPets = 2
    MaxCollars = 3
CONSTRAINT Focus
INVARIANT SystemsAgree
INVARIANT TilesAgree
INVARIANT CompanionsAgree
PROPERTY EverythingEnds
CHECK_DEADLOCK FALSE
