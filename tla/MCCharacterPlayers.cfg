CONSTANTS
    potion = potion
    quest = quest
    sword = sword
    bike = bike
    ring = ring
    box = box
    scrap = scrap
    Kinds <- KindSet
    MaxStack <- Stacks
    QuestKinds <- QuestSet
    OneHanded <- Weapons
    BikeKinds <- Bikes
    CountModulus = 4
    WeaponLeft = 2
    WeaponRight = 1
    VehicleSlot = 3
    Prizes <- PrizesOf
    Yields <- YieldsOf
    Suits <- SuitsOf
    Lockable <- RingSlots
    TotalSize = 2
    EquipmentSlots <- AllSlots
    WarehouseSize = 2
    VehicleSize = 1
    MaxGround = 1
    MaxList = 1
    MaxAmount = 2
    InitData <- Storers
    InitGround <- NoGround
VIEW KeptOfBoth
SPECIFICATION SpecBoth
INVARIANTS ItemsTypeOK SlotsDistinct
PROPERTIES ItemsConserved RefusedChangesNothing ChangesAreMarked OnlyFeesVanish PushKeepsOrder
CHECK_DEADLOCK FALSE
