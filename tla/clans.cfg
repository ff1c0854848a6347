SPECIFICATION MCSpec
CONSTANTS
    p1 = p1
    p2 = p2
    p3 = p3
    h1 = h1
    h2 = h2
    Kent = Kent
    Orc = Orc
    Red = Red
    Blue = Blue
    Char <- MCChar
    Prince <- MCPrince
    Wealthy <- MCPrince
    Name = {Red, Blue}
    Castle <- MCCastle
    House <- MCHouse
    None = None
    MaxClan = 2
    FirstPurse = 2
    FirstPrice = 1
    MaxPrice = 2
    MaxPurse = 2
SYMMETRY Symmetry
CONSTRAINT Focus
INVARIANT ClansAgree
INVARIANT SiegesAgree
INVARIANT AuctionsAgree
