SPECIFICATION Spec
CONSTANTS
    p1 = p1
    p2 = p2
    p3 = p3
    i1 = i1
    i2 = i2
    Player <- ThreePlayers
    NoPlayer = NoPlayer
    Item <- OneItem
    NoItem = NoItem
    Adena = Adena
    Stack <- AdenaOnly
    Untradeable = {}
    MaxTradeItems = 2
    StartGold = 1
    MaxMoney = 1
    MaxCount = 1
SYMMETRY SymThree
INVARIANT TypeOK
INVARIANT PairedTrades
INVARIANT OneOwner
PROPERTY NoBaitAndSwitch
PROPERTY ExchangeIsAsOffered
