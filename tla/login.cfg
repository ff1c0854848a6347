SPECIFICATION MCSpec
CONSTANTS
    s1 = s1
    s2 = s2
    s3 = s3
    ann = ann
    bob = bob
    knight = knight
    elf = elf
    NoOne = NoOne
    Session <- MCSession
    Account <- MCAccount
    Character <- MCCharacter
    AccountOf <- MCAccountOf
    NewConns = 2
    MaxFailures = 2
    MaxRestarts = 1
    Nobody = Nobody
    h1 = h1
    h2 = h2
    Hunters <- MCHunters
    Agro = TRUE
    RemoveGroup = {TRUE, FALSE}
    Exp = 5
    MaxInt = 7
    MaxHit = 1
    MaxHate = 2
    MaxMobs = 2
SYMMETRY Symmetry
CONSTRAINT Bounded
CHECK_DEADLOCK FALSE
INVARIANT TypeOK
INVARIANT NoDoubleLogin
INVARIANT OnlineIsLoggedIn
INVARIANT OnePlayerPerCharacter
INVARIANT InWorldHasPlayer
INVARIANT HerdsAgree
