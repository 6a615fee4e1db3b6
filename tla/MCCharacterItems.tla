--------------------------- MODULE MCCharacterItems ---------------------------
(* Instances of CharacterItems for TLC.  Equipment slots 1 and 2 are the     *)
(* right and the left weapon, 3 the vehicle, 4 to 6 rings.                   *)
EXTENDS CharacterItems, TLC

CONSTANTS potion, quest, sword, bike, ring, box, scrap

KindSet == {potion, quest, sword, bike, ring, box, scrap}
Stacks == (potion :> 2) @@ (quest :> 3) @@ [k \in {box, scrap} |-> 1] @@ [k \in {sword, bike, ring} |-> 0]
QuestSet == {quest}
Weapons == {sword}
Bikes == {bike}
SuitsOf == (sword :> {1, 2}) @@ (bike :> {3}) @@ (ring :> {4, 5, 6})
             @@ [k \in {potion, quest, box, scrap} |-> {}]
\* Without rings, for the runs that are not about them.
ArmSuits == [SuitsOf EXCEPT ![ring] = {}]
NoSuits == [k \in KindSet |-> {}]
PrizesOf == (box :> {<<potion, 1>>})
YieldsOf == (scrap :> {<<>>, <<<<potion, 1>>>>, <<<<ring, 7>>, <<potion, 2>>>>})

Nothing == [inventory |-> {}, equipment |-> {}, warehouse |-> {}, vehicle |-> {},
            temporary |-> <<>>, alz |-> 0, currency |-> 0]
item(s, k, o) == [slot |-> s, kind |-> k, options |-> o]

AllSlots == 1 .. 6
\* The first ring slot and the one in the middle.
RingSlots == 4 .. 5
ArmSlots == 1 .. 3
NoSlots == {}
NoGround == {}

\* Every storage, two weapons, a bike, money for some fees.
StorageData == [Nothing EXCEPT !.equipment = {item(1, sword, 1), item(2, sword, 2), item(3, bike, 1)},
                               !.warehouse = {item(1, potion, 1)}, !.alz = 1, !.currency = 1]
StorageData0 == [StorageData EXCEPT !.warehouse = {item(0, potion, 1)}, !.inventory = {item(0, scrap, 1)}]
\* Money enough for the tax to come from the purse.
MoneyData == [Nothing EXCEPT !.inventory = {item(0, potion, 1), item(1, quest, 1)},
                             !.warehouse = {item(0, quest, 2)}, !.alz = 4, !.currency = 0]

\* Stacks, a lottery item and one to extract.
StackData == [Nothing EXCEPT !.inventory = {item(0, potion, 2), item(1, quest, 3)},
                             !.temporary = <<item(0, quest, 2), item(1, box, 1)>>]
LotteryData == [Nothing EXCEPT !.inventory = {item(0, box, 1), item(2, scrap, 1)},
                               !.temporary = <<item(0, potion, 1)>>]
RingData == [Nothing EXCEPT !.inventory = {item(0, ring, 1), item(1, ring, 2)},
                            !.equipment = {item(4, ring, 3), item(6, ring, 4)}]

\* The characters of the runs.
Storers == {StorageData, MoneyData}
Swappers == {StorageData0}
Stackers == {StackData, LotteryData}
Pushers == {RingData}

\* What a handler said and marked has no successor of its own.
Kept == <<data, locks, ground, status>>
=============================================================================
