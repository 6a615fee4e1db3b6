CONSTANTS
    potion = potion
    quest = quest
    sword = sword
    bike = bike
    ring = ring
    box = box
    scrap = scrap
    Kinds <- KindSet
    MaxStack <- Stacks
    QuestKinds <- QuestSet
    OneHanded <- Weapons
    BikeKinds <- Bikes
    CountModulus = 4
    WeaponLeft = 2
    WeaponRight = 1
    VehicleSlot = 3
    Prizes <- PrizesOf
    Yields <- YieldsOf
    Suits <- NoSuits
    Lockable <- NoSlots
    TotalSize = 3
    EquipmentSlots <- NoSlots
    WarehouseSize = 0
    VehicleSize = 0
    MaxGround = 1
    MaxList = 2
    MaxAmount = 0
    InitData <- Stackers
    InitGround <- NoGround
VIEW Kept
SPECIFICATION Spec
INVARIANTS StacksLegal
PROPERTIES ItemsConserved LotteryKeepsTemporary
CHECK_DEADLOCK FALSE
