CONSTANTS
    c1 = c1
    c2 = c2
    w1 = w1
    w2 = w2
    k1 = k1
    k2 = k2
    None = None
    NoID = NoID
    p1 = p1
    p2 = p2
    a1 = a1
    login = login
    database = database
    master = master
    Players <- Persons
    Accounts <- Accounts1
    AccountOf <- OneAccount
    Login = login
    Worlds <- Worlds2
    Database = database
    Master = master
    Mistypes = TRUE
    MaxConnections <- Limits
    Character <- Chars2
    World <- Worlds2
    MaxPartyCount = 2
    MaxMembers = 3
    Conn <- Conns2
    Home <- OneEach
    MaxMoves = 5
    MaxInFlight = 2
SYMMETRY InterchangeAll
VIEW UnsentAll
SPECIFICATION SpecAll
INVARIANTS TypesOK PoolsConverge LifecycleInTurn SessionsAccounted NobodyLockedOut
CHECK_DEADLOCK FALSE
