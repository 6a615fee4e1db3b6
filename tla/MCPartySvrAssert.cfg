CONSTANTS
    c1 = c1
    c2 = c2
    c3 = c3
    w1 = w1
    None = None
    Character <- Chars3
    World <- Worlds1
    MaxPartyCount = 3
    MaxMembers = 3
SYMMETRY Interchange
VIEW Unsent
SPECIFICATION Spec
INVARIANTS TickAssertHolds
CHECK_DEADLOCK FALSE
