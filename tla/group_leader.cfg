SPECIFICATION MonstersSpec
CONSTANTS
    h1 = h1
    Hunters = {h1}
    Nobody = Nobody
    Agro = FALSE
    RemoveGroup = {FALSE}
    Exp = 5
    MaxInt = 7
    MaxHit = 1
    MaxHate = 1
    MaxMobs = 3
PROPERTY NewLeaderLives
CHECK_DEADLOCK FALSE
