SPECIFICATION MCSpec
CONSTANTS
    p1 = p1
    p2 = p2
    p3 = p3
    i1 = i1
    i2 = i2
    Player <- TwoPlayers
    NoPlayer = NoPlayer
    Item <- TwoItems
    NoItem = NoItem
    Adena = Adena
    Stack <- AdenaOnly
    Untradeable <- BoundObject
    MaxTradeItems = 2
    StartGold = 1
    MaxMoney = 4
    MaxCount = 2
    Nil = Nil
    Helm = Helm
    Mail = Mail
    Axe = Axe
    Targe = Targe
    Knight = Knight
    Wolf = Wolf
    Piece = {Helm, Mail, Axe, Targe}
    Slot <- MCSlot
    TwoHanded = {Axe}
    Shields = {Targe}
    Cursed = {Targe}
    HasteItem = {Axe}
    Bonus <- MCBonus
    SetPieces = {Helm, Mail}
    SetBonus = 1
    SetForm = Knight
    Form = {Knight, Wolf}
    Fits <- MCFits
    DollBonus = 1
    Base = 5
    MaxSaved = 6
SYMMETRY SymTwo
CONSTRAINT Bounded
INVARIANT WieldedIsHeld
INVARIANT SheetAgrees
PROPERTY ClosingConserves
PROPERTY ImplementsHoldings
