CONSTANTS
    potion = potion
    quest = quest
    sword = sword
    bike = bike
    ring = ring
    box = box
    scrap = scrap
    Kinds <- KindSet
    MaxStack <- Stacks
    QuestKinds <- QuestSet
    OneHanded <- Weapons
    BikeKinds <- Bikes
    CountModulus = 4
    WeaponLeft = 2
    WeaponRight = 1
    VehicleSlot = 3
    Prizes <- PrizesOf
    Yields <- YieldsOf
    Suits <- ArmSuits
    Lockable <- NoSlots
    TotalSize = 2
    EquipmentSlots <- ArmSlots
    WarehouseSize = 1
    VehicleSize = 1
    MaxGround = 1
    MaxList = 2
    MaxAmount = 0
    InitData <- Swappers
    InitGround <- NoGround
VIEW Kept
SPECIFICATION Spec
PROPERTIES RefusedSwapLosesNothing
CHECK_DEADLOCK FALSE
