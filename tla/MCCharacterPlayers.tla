------------------------- MODULE MCCharacterPlayers -------------------------
(* Two instances of CharacterItems in one run of TLC.                        *)
EXTENDS MCCharacterItems

\* Two players in one run: one with every storage and no rings, one with rings
\* that he pushes and locks.  The requests are those of the player's instance.
VARIABLE player

Storing == INSTANCE CharacterItems
             WITH Suits <- ArmSuits, EquipmentSlots <- ArmSlots, Lockable <- NoSlots,
                  InitData <- Storers
Pushing == INSTANCE CharacterItems
             WITH WarehouseSize <- 0, VehicleSize <- 0, MaxGround <- 0, MaxAmount <- 0,
                  InitData <- Pushers

InitBoth ==
    \/ player = "storing" /\ Storing!Init
    \/ player = "pushing" /\ Pushing!Init

NextBoth ==
    /\ \/ player = "storing" /\ Storing!Next
       \/ player = "pushing" /\ (Pushing!PlayerOnEquipment \/ Pushing!PlayerOnPlaces)
    /\ UNCHANGED player

SpecBoth == InitBoth /\ [][NextBoth]_<<vars, player>>

KeptOfBoth == <<Kept, player>>
=============================================================================
