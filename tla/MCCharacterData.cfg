SPECIFICATION SpecAll
CONSTANTS
    w1 = w1
    w2 = w2
    k1 = k1
    items = items
    NoCharacter = NoCharacter
    Worlds = {w1, w2}
    Characters = {k1}
    Sections = {items}
    Orderly = TRUE
    MaxVersion = 2
    MaxGems = 1
    MaxConnections = 2
    MaxRequests = 2
    MaxFailures = 1
INVARIANTS
    TypesOK
    NoChangeForgotten
    ListsAgree
PROPERTIES
    LoadsNewest
    ChangesSaved
CHECK_DEADLOCK FALSE
