SPECIFICATION Spec
CONSTANTS
    p1 = p1
    p2 = p2
    Player <- MCPlayer
    Leader = p1
    NoPlayer = NoPlayer
    Gold = Gold
    Sword = Sword
    Arms <- MCArms
    Fee = 1
    MaxSlots = 2
    FirstBag <- MCBag
    FirstObj = 2
    MaxObj = 4
    MaxRow = 2
    MaxMishaps = 1
INVARIANT TypeOK
INVARIANT GoodsConserved
INVARIANT CacheIsCurrent
INVARIANT LockIsReleased
CONSTRAINT Reach
