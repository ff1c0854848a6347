SPECIFICATION Spec
CONSTANTS
    p1 = p1
    p2 = p2
    p3 = p3
    p4 = p4
    Player <- MCPlayer
    NoPlayer = NoPlayer
    MaxPartySize = 3
    MaxDialogs = 2
SYMMETRY Players
INVARIANT PartiesAgree
PROPERTY DepartureSettlesParty
CONSTRAINT Unmuddled
