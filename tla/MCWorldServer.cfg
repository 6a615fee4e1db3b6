SPECIFICATION SpecAll
CONSTANTS
    c1 = c1
    c2 = c2
    s1 = s1
    p1 = p1
    d1 = d1
    d2 = d2
    m1 = m1
    m2 = m2
    b1 = b1
    l1 = l1
    Players = {c1, c2}
    Dungeons = {d1, d2}
    QuestDungeons = {d1}
    Town = town
    Chunks = {1, 2}
    SoloIDs = {s1}
    PartyIDs = {p1}
    None = none
    Rosters <- OneParty
    RosterChanges = FALSE
    MaxInstances = 2
    Parts = 1
    MissionTime = 2
    MaxBonus = 1
    MaxPause = 1
    Tables <- TwoParts
    Minions = {l1}
    Asked = {m1, m2, b1}
    Goal <- TwoThenOne
    Default = {m1, b1}
    Count <- BossTwice
    Interval <- OneTick
    OnSpawn <- SpawnOrders
    OnKill <- KillOrders
    NpcOrders <- QuestOrders
    StartKill = {m1}
    Bosses = {b1}
    Warpers = {}
    TargetWarpers = {b1}
    Enemies <- M2Hunts
    Areas = {1, 2}
    Nowhere = nowhere
    HitDelays = {0, 1}
    MaxDelay = 1
    x1 = x1
    x2 = x2
    q1 = q1
    q2 = q2
    q3 = q3
    q4 = q4
    h1 = h1
    h2 = h2
    w1 = w1
    w2 = w2
    k1 = k1
    k2 = k2
    Quests = {q1, q2, q3, q4}
    Species = {x1, x2}
    Wares = {h1, h2}
    Trials = {d1}
    Nothing = nothing
    MissionMobs <- Hunted
    MissionItems <- Delivery
    MissionDungeons <- Completed
    NpcSet <- Followed
    QuestBeginNpc <- BeginsAt
    RelatedQuest <- Unrelated
    RewardItem <- Pays
    QuestDrops <- Leaves
    CounterCount = 3
    CounterRange = 3
    LogPlaces = {0, 1}
    BagSlots = {0, 1}
    Deletable = {q2}
    MaxActions = 2
    MaxUnits = 2
    QuestMembers = {c1, c2}
    QuestPlaces = {0, 1}
    PartySlots = {0, 1}
    UnitLimit = 1
INVARIANTS
    TypesOK
    NoGhosts
    NobodyInDestroyed
    MobsInChunks
    KillsCounted
    PartyKillsCounted
    PaidOnce
    StepsOnce
PROPERTIES
    NoEarlyTimeout
    SoloRunsOut
    DeathsCount
    MobsComeBack
    RefusedClearKeeps
    EndedPartiesForgotten
CHECK_DEADLOCK FALSE
