---------------------------- MODULE ItemContainers ----------------------------
(***************************************************************************)
(* The containers a character keeps items in (RuntimeLib/Inventory.c,      *)
(* Equipment.c, Warehouse.c, VehicleInventory.c) as operators on values.   *)
(*                                                                         *)
(* An item is its slot, its kind and its options word; for a stackable     *)
(* kind the word is the number of units, for a quest kind it is            *)
(* index * CountModulus + units.  Kinds whose word has a layout the code   *)
(* itself marks as unknown (EVENT_S, FONT_S) are left out.                 *)
(*                                                                         *)
(* The inventory, the equipment, the warehouse and the vehicle's inventory *)
(* are sets of items: the code finds an item by a scan for its slot, and   *)
(* nothing reads the order of the array.  The temporary inventory is a     *)
(* sequence, because the insertion into it depends on its order.           *)
(***************************************************************************)
EXTENDS Integers, Sequences, FiniteSets, SequencesExt

CONSTANTS
    Kinds,          \* item kinds
    MaxStack,       \* ItemData->MaxStackSize of each kind
    QuestKinds,     \* kinds of type QUEST_S
    OneHanded,      \* one-handed weapons, force controllers, chakrams
    BikeKinds,      \* vehicles of type VEHICLE_BIKE
    Suits,          \* the equipment slots that match the type of each kind
    CountModulus,   \* RUNTIME_QUEST_ITEM_COUNT_MASK + 1
    TotalSize,      \* RUNTIME_INVENTORY_TOTAL_SIZE
    WeaponLeft, WeaponRight, VehicleSlot    \* equipment slot indices

\* The stack size of a quest kind fills the bits of its count: this is what
\* selects the branch of RTInventoryMoveSlot that knows about the index.
ASSUME KindAssumption ==
    /\ QuestKinds \cup OneHanded \cup BikeKinds \subseteq Kinds
    /\ MaxStack \in [Kinds -> Nat]
    /\ CountModulus \in Nat \ {0, 1}
    /\ \A k \in QuestKinds : MaxStack[k] = CountModulus - 1

ASSUME SlotAssumption ==
    /\ TotalSize \in Nat \ {0}
    /\ {WeaponLeft, WeaponRight, VehicleSlot} \subseteq Nat
    /\ WeaponLeft # WeaponRight
    /\ Suits \in [Kinds -> SUBSET Nat]

Item == [slot : Nat, kind : Kinds, options : Nat]

-----------------------------------------------------------------------------
(* The options word.                                                        *)

QuestIndex(o) == o \div CountModulus
QuestCount(o) == o % CountModulus

\* The index is or-ed with the count: a count that needs one bit more sets the
\* lowest bit of the index, whatever it was.
QuestOptions(i, n) ==
    LET carry == IF n >= CountModulus /\ i % 2 = 0 THEN 1 ELSE 0
    IN  (i + carry) * CountModulus + (n % CountModulus)

CountOf(kind, o) == IF kind \in QuestKinds THEN QuestCount(o) ELSE o
WithCount(kind, o, n) ==
    IF kind \in QuestKinds THEN QuestOptions(QuestIndex(o), n) ELSE n

SameIndex(kind, a, b) == kind \in QuestKinds => QuestIndex(a) = QuestIndex(b)

-----------------------------------------------------------------------------
(* The containers without an order.                                         *)

At(C, s) == {x \in C : x.slot = s}
SlotsOf(C) == {x.slot : x \in C}
ClearSlot(C, s) == {x \in C : x.slot # s}

\* Fault: the sum of the stacks is not compared with the limit.
CanStackUnbounded(store, kind, a, b) ==
    \/ kind \in QuestKinds /\ SameIndex(kind, a, b)
    \/ store = "inventory" /\ kind \notin QuestKinds /\ MaxStack[kind] > 1

\* Quest items stack everywhere and without a limit (the comparison is
\* commented out), other stackable items only in the inventory.
CanStack(store, kind, a, b) ==
    \/ /\ kind \in QuestKinds
       /\ SameIndex(kind, a, b)
    \/ /\ store = "inventory"
       /\ kind \notin QuestKinds
       /\ MaxStack[kind] > 1
       /\ a + b <= MaxStack[kind]

Stacked(kind, a, b) == WithCount(kind, b, CountOf(kind, a) + CountOf(kind, b))

\* Fault: an occupied slot is not noticed.
FitsAnywhere(store, C, x) == TRUE

\* The four SetSlot functions accept x ...
Fits(store, C, x) ==
    \A y \in At(C, x.slot) :
        /\ store # "equipment"
        /\ y.kind = x.kind
        /\ CanStack(store, x.kind, y.options, x.options)

\* ... and then leave this.
SetSlot(C, x) ==
    ClearSlot(C, x.slot) \cup
        IF At(C, x.slot) = {} THEN {x}
        ELSE {[y EXCEPT !.options = Stacked(x.kind, @, x.options)] : y \in At(C, x.slot)}

\* Fault: the slots of the items that are not listed count as free.
SortedOverlapping(C, list, slots) ==
    LET nth(k) == CHOOSE s \in slots : Cardinality({t \in slots : t < s}) = k - 1
        new(x) == IF x.slot \in ToSet(list)
                    THEN nth(CHOOSE k \in DOMAIN list : list[k] = x.slot) ELSE x.slot
    IN  {[x EXCEPT !.slot = new(x)] : x \in C}

\* SORT_INVENTORY and SORT_WAREHOUSE: the listed items go, in the order of the
\* list, to the lowest slots that no other item occupies.
Sorted(C, list, slots) ==
    LET free == slots \ {s \in SlotsOf(C) : s \notin ToSet(list)}
        nth(k) == CHOOSE s \in free : Cardinality({t \in free : t < s}) = k - 1
        new(x) == IF x.slot \in ToSet(list)
                    THEN nth(CHOOSE k \in DOMAIN list : list[k] = x.slot) ELSE x.slot
    IN  {[x EXCEPT !.slot = new(x)] : x \in C}

-----------------------------------------------------------------------------
(* The temporary inventory: a sequence of items.                            *)

\* The place of the first item in slot s, 0 if there is none.
PlaceOf(t, s) == SelectInSeq(t, LAMBDA x : x.slot = s)

TemporaryFull(t) == Len(t) >= TotalSize

NextFreeSlot(t) ==
    LET gaps == {k \in 1 .. Len(t) - 1 : t[k + 1].slot - t[k].slot > 1}
    IN  IF gaps = {} THEN Len(t) ELSE t[Min(gaps)].slot + 1

\* The items from place k on move up by one slot until the next one is clear of
\* them; the last item of the array never does.
ShiftUp(t, k) ==
    LET stops == {j \in k .. Len(t) - 2 : t[j + 1].slot >= t[k].slot + (j - k) + 2}
        last  == IF stops = {} THEN Len(t) - 1 ELSE Min(stops)
    IN  [j \in DOMAIN t |-> IF j \in k .. last
                              THEN [t[j] EXCEPT !.slot = t[k].slot + (j - k) + 1] ELSE t[j]]

\* Fault: the tail of the array is not moved out of the way.
InsertSlotOver(t, x) ==
    IF PlaceOf(t, x.slot) = 0 THEN Append(t, x) ELSE [t EXCEPT ![PlaceOf(t, x.slot)] = x]

\* The scan for the place of a slot looks at item k: it does not end at an equal
\* slot, it makes room there and goes on to the first greater one.
Scanned(p, k, slot) ==
    LET s == p.items[k].slot
    IN  IF p.found \/ s < slot THEN p
        ELSE IF s > slot THEN [p EXCEPT !.place = k, !.found = TRUE]
        ELSE [p EXCEPT !.place = k, !.items = ShiftUp(p.items, k)]

InsertScan(t, slot) ==
    LET Scan[k \in 0 .. Len(t)] ==
            IF k = 0 THEN [items |-> t, place |-> 0, found |-> FALSE]
            ELSE Scanned(Scan[k - 1], k, slot)
    IN  Scan

\* RTInventoryInsertSlot
InsertSlot(t, x) ==
    LET end == InsertScan(t, x.slot)[Len(t)]
    IN  IF end.place = 0 THEN Append(t, x) ELSE InsertAt(end.items, end.place, x)

\* RTInventorySetSlot on the temporary inventory.
TemporaryFits(t, x) ==
    PlaceOf(t, x.slot) # 0 => Fits("inventory", {t[PlaceOf(t, x.slot)]}, x)

TemporarySet(t, x) ==
    LET k == PlaceOf(t, x.slot)
    IN  IF k = 0 THEN Append(t, x)
        ELSE [t EXCEPT ![k].options = Stacked(x.kind, @, x.options)]
=============================================================================
