CONSTANTS
    c1 = c1
    c2 = c2
    c3 = c3
    w1 = w1
    None = None
    Character <- Chars3
    World <- Worlds1
    MaxPartyCount = 3
    MaxMembers = 3
SYMMETRY Interchange
VIEW UnsentSizes
SPECIFICATION SpecSizes
INVARIANTS TypeOK RosterConsistent InvitesIndexed
PROPERTIES LifecycleAnnounced DestroyNamesMembers RosterSpec
CHECK_DEADLOCK FALSE
