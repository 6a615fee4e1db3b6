CONSTANTS
    c1 = c1
    c2 = c2
    w1 = w1
    w2 = w2
    k1 = k1
    k2 = k2
    None = None
    Character <- Chars2
    World <- Worlds2
    MaxPartyCount = 2
    MaxMembers = 3
    Conn <- Conns2
    Home <- OneEach
    MaxMoves = 5
    MaxInFlight = 2
SYMMETRY Interchange
VIEW Unsent
SPECIFICATION SpecSystem
INVARIANTS CreateAssertHolds
CHECK_DEADLOCK FALSE
