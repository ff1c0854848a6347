SPECIFICATION MCSpec
CONSTANTS
    p1 = p1
    p2 = p2
    i1 = i1
    Player <- TwoPlayers
    Item <- OneItem
    Adena = Adena
    StartGold = 1
    MaxCount = 2
    MaxWal = 3
    MaxMoney = 1
    MaxMishaps = 1
    t1 = t1
    t2 = t2
    Trader <- MCTraders
    Keeper <- MCKeepers
    Gold = Gold
    Herb = Herb
    Blade = Blade
    FirstStock <- MCStock
    Price = {50}
    PriceLimit = 90
    MaxInt = 149
    MaxSlots = 3
    Weight <- MCWeight
    MaxLoad = 4
    MaxList = 2
    MaxThing = 5
    MaxVisits = 1
    Ware <- MCWare
    Buys <- MCBuys
    TaxRate = 10
SYMMETRY SymTwo
CONSTRAINT Sober
PROPERTY RecoveryMintsNothing
