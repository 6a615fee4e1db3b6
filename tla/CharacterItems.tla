---------------------------- MODULE CharacterItems ----------------------------
(***************************************************************************)
(* The items and the money of one character on the world server, and the   *)
(* handlers of WorldSvr/OnInventory.c, OnWarehouse.c, OnLoot.c and         *)
(* OnExtractItem.c that move them.  The server is a single-threaded event  *)
(* loop, so a handler is one action; what can go wrong is what one handler *)
(* leaves behind for the next.                                             *)
(*                                                                         *)
(* data mirrors Character->Data.  reply is the result field of the last    *)
(* response and marked the sections of SyncMask the last handler set; how  *)
(* the mask gathers and is saved is not part of this module.  Packets are  *)
(* those a client in step with the server sends: it names the places of    *)
(* the containers it is shown, never the same place twice, swaps two items *)
(* it sees, and splits and merges into stacks of legal size.               *)
(*                                                                         *)
(* Money is counted in the fee of 1000 Alz.  Amounts are below 250 fees,   *)
(* where the tax of a deposit is the minimum.  assert() is active.         *)
(***************************************************************************)
EXTENDS ItemContainers

CONSTANTS
    EquipmentSlots,     \* the equipment slots of this instance
    WarehouseSize, VehicleSize,
    Prizes,             \* the prizes <<kind, options>> of each lottery item
    Yields,             \* the sequences of such pairs an extraction may give
    Lockable,           \* bound: the slots the player locks
    MaxGround,          \* bound: items on the ground
    MaxList,            \* bound: entries of a list in a packet
    MaxAmount,          \* bound: a deposit or a withdrawal
    InitData,           \* the characters the database may send
    InitGround

Stores  == {"inventory", "equipment", "warehouse", "vehicle"}
Slots   == [inventory |-> 0 .. TotalSize - 1, equipment |-> EquipmentSlots,
            warehouse |-> 0 .. WarehouseSize - 1, vehicle |-> 0 .. VehicleSize - 1]
Place   == UNION {[store : {st}, slot : Slots[st]] : st \in Stores}
Sections == Stores \cup {"info", "temporary"}

Data == [inventory : SUBSET Item, equipment : SUBSET Item, warehouse : SUBSET Item,
         vehicle : SUBSET Item, temporary : Seq(Item), alz : Nat, currency : Nat]

ASSUME BoundAssumption ==
    /\ Lockable \subseteq EquipmentSlots /\ EquipmentSlots \subseteq Nat
    /\ \A k \in Kinds : Suits[k] \subseteq EquipmentSlots
    /\ {WarehouseSize, VehicleSize, MaxGround, MaxList, MaxAmount} \subseteq Nat
    /\ DOMAIN Prizes \cup DOMAIN Yields \subseteq Kinds
    /\ IsFiniteSet(EquipmentSlots)

\* A stackable item that is not a quest item is a stack of legal size: the tables
\* of prizes list no other, nor does the database until a handler spoils it.
Legal(kind, o) ==
    kind \notin QuestKinds /\ MaxStack[kind] > 1 => o > 0 /\ o <= MaxStack[kind]

Gains == {g \in Kinds \X Nat : Legal(g[1], g[2])}

LegalItem == {x \in Item : Legal(x.kind, x.options)}

WellStored(st, C) ==
    /\ C \subseteq LegalItem
    /\ SlotsOf(C) \subseteq Slots[st]
    /\ \A x, y \in C : x.slot = y.slot => x = y

WellFilled(d) ==
    /\ d \in Data
    /\ \A st \in Stores : WellStored(st, d[st])
    /\ d.temporary \in Seq(LegalItem) /\ Len(d.temporary) <= TotalSize

Ground == {g \in [handle : 1 .. MaxGround, kind : Kinds, options : Nat] : Legal(g.kind, g.options)}

ASSUME InitAssumption ==
    /\ \A k \in DOMAIN Prizes : Prizes[k] \subseteq Gains
    /\ \A k \in DOMAIN Yields : Yields[k] \subseteq Seq(Gains)
    /\ \A d \in InitData : WellFilled(d)
    /\ InitGround \subseteq Ground

VARIABLES
    data,   \* Character->Data
    locks,  \* EquipmentInfo.LockSlots
    ground, \* the items of the world around the character
    status, \* "online", "offline", or "aborted" by an assertion
    reply,  \* the last handler and the result it sent
    marked  \* the sections of SyncMask it set

vars == <<data, locks, ground, status, reply, marked>>

Init ==
    /\ data \in InitData
    /\ locks = {}
    /\ ground = InitGround
    /\ status = "online"
    /\ reply = [op |-> "none", ok |-> TRUE]
    /\ marked = {}

\* A handler of op that answers ok and marks the sections M.
Answer(op, ok, M) ==
    /\ status = "online"
    /\ reply' = [op |-> op, ok |-> ok]
    /\ marked' = M
    /\ status' = "online"

Refuse(op) == Answer(op, FALSE, {}) /\ UNCHANGED <<data, locks, ground>>

\* The handler of op fails an assertion: the process is gone.
Abort(op) ==
    /\ status = "online"
    /\ reply' = [op |-> op, ok |-> FALSE]
    /\ marked' = {}
    /\ status' = "aborted"
    /\ UNCHANGED <<data, locks, ground>>

-----------------------------------------------------------------------------
(* MoveInventoryItem, which MOVE and SWAP share.                            *)

ItemAt(d, p) == CHOOSE x \in At(d[p.store], p.slot) : TRUE

\* What is left when the item of place p is taken for a place of store to: the
\* right weapon follows a one-handed left one that leaves the equipment.
Taken(d, p, to) ==
    LET rest == ClearSlot(d[p.store], p.slot)
        shift(x) == IF x.slot = WeaponRight THEN [x EXCEPT !.slot = WeaponLeft] ELSE x
    IN  IF /\ p.store = "equipment" /\ to # "equipment"
           /\ p.slot = WeaponLeft
           /\ ItemAt(d, p).kind \in OneHanded
          THEN [d EXCEPT !.equipment = {shift(x) : x \in rest}]
          ELSE [d EXCEPT ![p.store] = rest]

\* Whether item x may be put at place p.  The bike is looked for after the
\* taking: it cannot be stored in itself.
CanPut(d, p, x) ==
    /\ p.store = "warehouse" => d.alz >= 1 \/ d.currency >= 1
    /\ p.store = "vehicle" =>
         \E v \in At(d.equipment, VehicleSlot) : v.kind \in BikeKinds
    /\ Fits(p.store, d[p.store], [x EXCEPT !.slot = p.slot])

\* Faults: the purse pays, even when it is empty; nobody pays.
PutFromPurse(d, p, x) ==
    [d EXCEPT ![p.store] = SetSlot(@, [x EXCEPT !.slot = p.slot]),
              !.alz = @ - IF p.store = "warehouse" THEN 1 ELSE 0]
PutUnpaid(d, p, x) == [d EXCEPT ![p.store] = SetSlot(@, [x EXCEPT !.slot = p.slot])]

Put(d, p, x) ==
    LET fee == IF p.store = "warehouse" THEN 1 ELSE 0
        purse == IF d.alz >= 1 THEN fee ELSE 0
    IN  [d EXCEPT ![p.store] = SetSlot(@, [x EXCEPT !.slot = p.slot]),
                  !.alz = @ - purse, !.currency = @ - (fee - purse)]

\* Fault: the equipment is not copied back.
RestorePartly(d, backup) == [d EXCEPT !.inventory = backup.inventory]

Restore(d, backup) ==
    [d EXCEPT !.inventory = backup.inventory, !.equipment = backup.equipment,
              !.warehouse = backup.warehouse, !.vehicle = backup.vehicle]

CanMove(d, from, to) ==
    /\ At(d[from.store], from.slot) # {}
    /\ CanPut(Taken(d, from, to.store), to, ItemAt(d, from))

\* The outcome of MoveInventoryItem: the static backups are a copy of d.
Moved(d, from, to) ==
    IF CanMove(d, from, to) THEN Put(Taken(d, from, to.store), to, ItemAt(d, from))
    ELSE IF At(d[from.store], from.slot) = {} THEN d
    ELSE Restore(Taken(d, from, to.store), d)

\* Fault: only the destination is marked.
MoveMarksDestination(d, from, to) == IF CanMove(d, from, to) THEN {to.store} ELSE {}

MoveMarks(d, from, to) ==
    IF ~CanMove(d, from, to) THEN {}
    ELSE {from.store, to.store} \cup
           IF to.store = "warehouse" /\ d.alz >= 1 THEN {"info"} ELSE {}

MoveItem(from, to) ==
    /\ Answer("move", CanMove(data, from, to), MoveMarks(data, from, to))
    /\ data' = Moved(data, from, to)
    /\ UNCHANGED <<locks, ground>>

-----------------------------------------------------------------------------
(* SWAP: the item of q is set aside, that of p moves to q, the first to p.  *)
(* The backups the handler made are overwritten by MoveInventoryItem, with  *)
(* a copy that no longer holds the item set aside.                          *)

InBag(store) == store \in {"inventory", "equipment"}

Disconnect(op, M) ==
    /\ status = "online"
    /\ reply' = [op |-> op, ok |-> FALSE]
    /\ marked' = M
    /\ status' = "offline"

SwapItem(p, q) ==
    LET aside == ItemAt(data, q)
        d1 == [data EXCEPT ![q.store] = ClearSlot(@, q.slot)]
        d2 == Moved(d1, p, q)
        x  == [aside EXCEPT !.slot = p.slot]
    IN  /\ At(data[p.store], p.slot) # {} /\ At(data[q.store], q.slot) # {}
        /\ UNCHANGED <<locks, ground>>
        /\ \/ /\ ~InBag(q.store)
              /\ Disconnect("swap", {})
              /\ UNCHANGED data
           \/ /\ InBag(q.store)
              /\ CanMove(d1, p, q) /\ InBag(p.store) /\ Fits(p.store, d2[p.store], x)
              /\ Answer("swap", TRUE, MoveMarks(d1, p, q))
              /\ data' = [d2 EXCEPT ![p.store] = SetSlot(@, x)]
           \/ /\ InBag(q.store)
              /\ ~(CanMove(d1, p, q) /\ InBag(p.store) /\ Fits(p.store, d2[p.store], x))
              /\ Disconnect("swap", MoveMarks(d1, p, q))
              /\ data' = [d2 EXCEPT !.equipment = d1.equipment, !.inventory = d1.inventory]

-----------------------------------------------------------------------------
(* PUSH_EQUIPMENT_ITEM: the item of inventory slot `left` goes to the first *)
(* slot of its type, those there move on by one, the last one falls out     *)
(* into inventory slot `right`.                                             *)

\* Fault: locked slots are not passed over.
FindNextUnlocked(kind, from) ==
    LET S == {s \in Suits[kind] : s >= from} IN IF S = {} THEN -1 ELSE Min(S)

FindNext(kind, from) ==
    LET S == {s \in Suits[kind] \ locks : s >= from} IN IF S = {} THEN -1 ELSE Min(S)

\* One round of the loop.  hand is the item set aside; a search from -1 + 1
\* starts over at the first slot.
PushRound(kind, r) ==
    LET idle  == r.hand = {}
        hand  == IF idle THEN At(r.equipment, r.next) ELSE r.hand
        rest  == IF idle THEN ClearSlot(r.equipment, r.next) ELSE r.equipment
        to    == IF idle THEN FindNext(kind, r.next + 1) ELSE r.next
    IN  IF hand = {} THEN [r EXCEPT !.next = -1]
        ELSE IF to < 0 THEN [equipment |-> rest, hand |-> hand, next |-> FindNext(kind, 0)]
        ELSE [equipment |-> ClearSlot(rest, to) \cup {[x EXCEPT !.slot = to] : x \in hand},
              hand |-> At(rest, to), next |-> FindNext(kind, to + 1)]

PushRounds(kind, last) ==
    LET Round[n \in 0 .. last] ==
            IF n = 0 THEN [equipment |-> data.equipment, hand |-> {}, next |-> FindNext(kind, 0)]
            ELSE IF Round[n - 1].next < 0 THEN Round[n - 1]
            ELSE PushRound(kind, Round[n - 1])
    IN  Round

\* The loop ends within two rounds for each slot.
Pushed(kind) ==
    LET last == 2 * Cardinality(Suits[kind]) IN PushRounds(kind, last)[last]

PushEquipment(left, right) ==
    LET x     == ItemAt(data, [store |-> "inventory", slot |-> left])
        first == FindNext(x.kind, 0)
        end   == Pushed(x.kind)
        rest  == ClearSlot(data.inventory, left)
        can   == At(data.inventory, left) # {} /\ first >= 0
    IN  /\ right = left \/ At(data.inventory, right) = {}
        /\ \/ ~can /\ Refuse("push")
           \/ /\ can
              /\ At(end.equipment, first) = {}
              /\ Answer("push", TRUE, {"equipment", "inventory"})
              /\ data' = [data EXCEPT
                    !.equipment = end.equipment \cup {[x EXCEPT !.slot = first]},
                    !.inventory = rest \cup {[y EXCEPT !.slot = right] : y \in end.hand}]
              /\ UNCHANGED <<locks, ground>>
           \/ /\ can
              /\ At(end.equipment, first) # {}
              /\ Abort("push")

LockEquipment(s, locked) ==
    /\ locks' = IF locked THEN locks \cup {s} ELSE locks \ {s}
    /\ Answer("lock", TRUE, IF locks' = locks THEN {} ELSE {"equipment"})
    /\ UNCHANGED <<data, ground>>

-----------------------------------------------------------------------------
(* SPLIT, MERGE, SORT and MOVE_LIST: handlers on the inventory.             *)

\* Targets get n units each, the source keeps the rest.
Split(s, n, targets) ==
    LET x    == ItemAt(data, [store |-> "inventory", slot |-> s])
        left == CountOf(x.kind, x.options) - n * Cardinality(targets)
        with(slot, units) ==
            [x EXCEPT !.slot = slot, !.options = WithCount(x.kind, @, units)]
        can  == /\ At(data.inventory, s) # {}
                /\ MaxStack[x.kind] >= 1
                /\ left >= 0
                /\ targets \cap SlotsOf(data.inventory) = {}
    IN  \/ ~can /\ Refuse("split")
        \/ /\ can
           /\ Answer("split", TRUE, {"inventory"})
           /\ data' = [data EXCEPT !.inventory =
                 ClearSlot(@, s) \cup {with(t, n) : t \in targets}
                   \cup IF left = 0 THEN {} ELSE {with(s, left)}]
           /\ UNCHANGED <<locks, ground>>

\* Fault: the total of the results is not compared.
TotalsAgreeAlways(merged, result) == TRUE

UnitsIn(C) == MapThenSumSet(LAMBDA x : CountOf(x.kind, x.options), C)

TotalsAgree(merged, result) ==
    UnitsIn(merged) = MapThenSumSet(LAMBDA s : result[s], DOMAIN result)

\* The items of the merged slots become stacks of the given sizes, in slots that
\* are merged or empty.
Merge(slots, result) ==
    LET merged == {x \in data.inventory : x.slot \in slots}
        first  == CHOOSE x \in merged : TRUE
        alike  == /\ \A x \in merged : /\ x.kind = first.kind
                                       /\ SameIndex(x.kind, x.options, first.options)
                  /\ MaxStack[first.kind] >= 1
                  /\ TotalsAgree(merged, result)
        stack(s) == [first EXCEPT !.slot = s,
                                  !.options = WithCount(first.kind, @, result[s])]
    IN  /\ \A s \in DOMAIN result : result[s] <= MaxStack[first.kind]
        /\ \/ ~alike /\ Refuse("merge")
           \/ /\ alike
              /\ Answer("merge", TRUE, {"inventory"})
              /\ data' = [data EXCEPT !.inventory =
                    (@ \ merged) \cup {stack(s) : s \in DOMAIN result}]
              /\ UNCHANGED <<locks, ground>>

Sort(store, list) ==
    \/ /\ ~(ToSet(list) \subseteq SlotsOf(data[store]))
       /\ Refuse("sort")
    \/ /\ ToSet(list) \subseteq SlotsOf(data[store])
       /\ Answer("sort", TRUE, {store})
       /\ data' = [data EXCEPT ![store] = Sorted(@, list, Slots[store])]
       /\ UNCHANGED <<locks, ground>>

\* RTInventoryMoveSlot: from a slot of the inventory, or of the temporary one
\* when the index is past its end, to a slot of the inventory.
MoveSlot(d, src, dst) ==
    LET bag   == src < TotalSize
        k     == PlaceOf(d.temporary, src - TotalSize)
        found == IF bag THEN At(d.inventory, src)
                 ELSE IF k = 0 THEN {} ELSE {d.temporary[k]}
        x     == CHOOSE i \in found : TRUE
        y     == CHOOSE i \in At(d.inventory, dst) : TRUE
        total == CountOf(x.kind, x.options) + CountOf(y.kind, y.options)
        moved == IF total < MaxStack[x.kind] THEN total ELSE MaxStack[x.kind]
        with(i, n) == [i EXCEPT !.options = WithCount(i.kind, @, n)]
        \* d without x, or with what is left of it
        Leave(rest) ==
            IF bag THEN [d EXCEPT !.inventory = ClearSlot(@, src) \cup rest]
            ELSE [d EXCEPT !.temporary =
                     IF rest = {} THEN RemoveAt(@, k)
                     ELSE [@ EXCEPT ![k] = CHOOSE i \in rest : TRUE]]
    IN  IF found = {} THEN [ok |-> FALSE, data |-> d]
        ELSE IF At(d.inventory, dst) = {} THEN
            [ok |-> TRUE, data |-> [Leave({}) EXCEPT !.inventory = SetSlot(@, [x EXCEPT !.slot = dst])]]
        ELSE IF y.kind # x.kind \/ MaxStack[x.kind] <= 1 \/ ~SameIndex(x.kind, x.options, y.options)
            THEN [ok |-> FALSE, data |-> d]
        ELSE [ok |-> TRUE,
              data |-> [Leave(IF total = moved THEN {} ELSE {with(x, total - moved)})
                          EXCEPT !.inventory = ClearSlot(@, dst) \cup {with(y, moved)}]]

\* A refused entry ends the list, and what came before it stays done.
MoveSteps(list) ==
    LET Done[n \in 0 .. Len(list)] ==
            IF n = 0 THEN [ok |-> TRUE, data |-> data]
            ELSE IF ~Done[n - 1].ok THEN Done[n - 1]
            ELSE MoveSlot(Done[n - 1].data, list[n].src, list[n].dst)
    IN  Done

MoveList(list) ==
    LET end == MoveSteps(list)[Len(list)]
    IN  /\ \A n \in DOMAIN list : list[n].src # list[n].dst
        /\ Answer("movelist", end.ok, IF end.ok THEN {"inventory"} ELSE {})
        /\ data' = end.data
        /\ UNCHANGED <<locks, ground>>

-----------------------------------------------------------------------------
(* Items and the ground; the deposit; items that give items.                *)

Handle == 1 .. MaxGround
Free   == {h \in Handle : \A g \in ground : g.handle # h}

Drop(p) ==
    \/ At(data[p.store], p.slot) = {} /\ Refuse("drop")
    \/ /\ At(data[p.store], p.slot) # {} /\ Free # {}
       /\ Answer("drop", TRUE, {p.store})
       /\ LET x == ItemAt(data, p) IN
            ground' = ground \cup {[handle |-> Min(Free), kind |-> x.kind, options |-> x.options]}
       /\ data' = [data EXCEPT ![p.store] = ClearSlot(@, p.slot)]
       /\ UNCHANGED locks

\* RTCharacterLootItem: the item leaves the ground whether it is taken or not.
Loot(g, s) ==
    LET x  == [slot |-> s, kind |-> g.kind, options |-> g.options]
        ok == Fits("inventory", data.inventory, x)
    IN  /\ Answer("loot", ok, {"info", "inventory"})
        /\ data' = IF ok THEN [data EXCEPT !.inventory = SetSlot(@, x)] ELSE data
        /\ ground' = ground \ {g}
        /\ UNCHANGED locks

MinimumTax == 1

\* The tax comes from the purse if something is left there, else from the amount.
Deposit(amount) ==
    LET fromPurse == data.alz > amount + MinimumTax
    IN  \/ /\ data.alz < amount \/ MinimumTax >= amount
           /\ Refuse("deposit")
        \/ /\ data.alz >= amount /\ MinimumTax < amount
           /\ Answer("deposit", TRUE, {"info", "warehouse"})
           /\ data' = [data EXCEPT
                 !.alz = @ - amount - (IF fromPurse THEN MinimumTax ELSE 0),
                 !.currency = @ + amount - (IF fromPurse THEN 0 ELSE MinimumTax)]
           /\ UNCHANGED <<locks, ground>>

Withdraw(amount) ==
    \/ data.currency < amount /\ Refuse("withdraw")
    \/ /\ data.currency >= amount
       /\ Answer("withdraw", TRUE, {"info", "warehouse"})
       /\ data' = [data EXCEPT !.alz = @ + amount, !.currency = @ - amount]
       /\ UNCHANGED <<locks, ground>>

\* RTItemLotto: the prize goes to the temporary inventory.
UseLottery(s, prize) ==
    LET t == data.temporary
        x == [slot |-> NextFreeSlot(t), kind |-> prize[1], options |-> prize[2]]
    IN  \/ TemporaryFull(t) /\ Refuse("lottery")
        \/ /\ ~TemporaryFull(t)
           /\ Answer("lottery", TRUE, {"inventory", "temporary"})
           /\ data' = [data EXCEPT !.inventory = ClearSlot(@, s), !.temporary = InsertSlot(t, x)]
           /\ UNCHANGED <<locks, ground>>

\* Each result of an extraction is set in the temporary inventory at the slot that
\* is its number of items; one that does not fit there is dropped.
Extracted(p, r) ==
    LET x == [slot |-> Len(p.items), kind |-> r[1], options |-> r[2]]
    IN  IF p.failed \/ TemporaryFull(p.items) THEN [p EXCEPT !.failed = TRUE]
        ELSE IF TemporaryFits(p.items, x)
          THEN [p EXCEPT !.items = TemporarySet(@, x), !.count = @ + 1]
        ELSE p

ExtractSteps(results) ==
    LET Got[n \in 0 .. Len(results)] ==
            IF n = 0 THEN [items |-> data.temporary, count |-> 0, failed |-> FALSE]
            ELSE Extracted(Got[n - 1], results[n])
    IN  Got

\* EXTRACT_ITEM
Extract(s, results) ==
    LET end == ExtractSteps(results)[Len(results)]
    IN  \/ end.failed /\ Abort("extract")
        \/ /\ ~end.failed /\ end.count = 0
           /\ Refuse("extract")
        \/ /\ ~end.failed /\ end.count > 0
           /\ Answer("extract", TRUE, {"inventory"})
           /\ data' = [data EXCEPT !.inventory = ClearSlot(@, s), !.temporary = end.items]
           /\ UNCHANGED <<locks, ground>>

-----------------------------------------------------------------------------
\* Lists of at most MaxList different slots.
SlotLists(S) ==
    {l \in UNION {[1 .. n -> S] : n \in 0 .. MaxList} : IsInjective(l)}

Entries == [src : 0 .. 2 * TotalSize - 1, dst : Slots.inventory]

PlayerOnEquipment ==
    \/ \E l, r \in Slots.inventory : PushEquipment(l, r)
    \/ \E s \in Lockable, b \in BOOLEAN : LockEquipment(s, b)

PlayerOnStacks ==
    \/ \E s \in Slots.inventory, n \in 1 .. CountModulus :
         \E T \in (SUBSET Slots.inventory) \ {{}} : Split(s, n, T)
    \/ \E S \in (SUBSET SlotsOf(data.inventory)) \ {{}} :
         \E T \in SUBSET (S \cup (Slots.inventory \ SlotsOf(data.inventory))) :
           \E result \in [T -> 1 .. CountModulus] : Merge(S, result)
    \/ \E n \in 1 .. MaxList : \E l \in [1 .. n -> Entries] : MoveList(l)

PlayerOnPlaces ==
    \/ \E p, q \in Place : p # q /\ (MoveItem(p, q) \/ SwapItem(p, q))
    \/ \E p \in Place : Drop(p)
    \/ \E st \in {"inventory", "warehouse"} : \E l \in SlotLists(Slots[st]) : Sort(st, l)

PlayerOnMoney == \E n \in 1 .. MaxAmount : Deposit(n) \/ Withdraw(n)

PlayerGains ==
    \/ \E g \in ground, s \in Slots.inventory : Loot(g, s)
    \/ \E x \in data.inventory :
         /\ x.kind \in DOMAIN Prizes
         /\ \E prize \in Prizes[x.kind] : UseLottery(x.slot, prize)
    \/ \E x \in data.inventory :
         /\ x.kind \in DOMAIN Yields
         /\ \E results \in Yields[x.kind] : Extract(x.slot, results)

Next ==
    \/ PlayerOnEquipment
    \/ PlayerOnStacks
    \/ PlayerOnPlaces
    \/ PlayerOnMoney
    \/ PlayerGains

Spec == Init /\ [][Next]_vars

-----------------------------------------------------------------------------
(* What must hold.                                                          *)

ItemsTypeOK ==
    /\ data.alz \in Nat /\ data.currency \in Nat
    /\ \A st \in Stores : \A x \in data[st] :
         x.slot \in Slots[st] /\ x.kind \in Kinds /\ x.options \in Nat
    /\ \A k \in DOMAIN data.temporary :
         data.temporary[k].slot \in Nat /\ data.temporary[k].kind \in Kinds
    /\ DOMAIN data = {"inventory", "equipment", "warehouse", "vehicle", "temporary", "alz", "currency"}
    /\ locks \subseteq EquipmentSlots
    /\ status \in {"online", "offline", "aborted"}
    /\ reply.ok \in BOOLEAN
    /\ marked \subseteq Sections

\* No two items of a container are in one slot, whatever sequence of moves,
\* swaps, shifts of weapons, pushes, splits and sorts led there: the item behind
\* another one can no longer be reached.
SlotsDistinct ==
    \A st \in Stores : \A x, y \in data[st] : x.slot = y.slot => x = y

\* A stackable item that is not a quest item never holds nothing, or more than
\* its kind allows, in the inventory; and the array of the temporary inventory is
\* never written past its end, by the lottery or by an extraction that fills it
\* several items at a time.
StacksLegal ==
    /\ \A x \in data.inventory : Legal(x.kind, x.options)
    /\ Len(data.temporary) <= TotalSize

UnitsOf(C, kind) ==
    MapThenSumSet(LAMBDA x : IF x.kind = kind THEN CountOf(kind, x.options) ELSE 0, C)
UnitsInList(t, kind) ==
    FoldLeft(LAMBDA n, x : n + IF x.kind = kind THEN CountOf(kind, x.options) ELSE 0, 0, t)
Units(d, g, kind) ==
      UnitsOf(d.inventory, kind) + UnitsOf(d.equipment, kind) + UnitsOf(d.warehouse, kind)
    + UnitsOf(d.vehicle, kind) + UnitsInList(d.temporary, kind) + UnitsOf(g, kind)

\* No handler makes or destroys units of an item.  Excepted are those that turn
\* an item into others, a refused swap and a refused loot, which lose items,
\* and quest items a move or a loot stacks, whose count has no limit.
ItemsConserved ==
    [][ UNCHANGED <<data, ground>> \/ \A k \in Kinds :
          \/ reply'.op \in {"lottery", "extract"}
          \/ reply'.op \in {"swap", "loot"} /\ ~reply'.ok
          \/ k \in QuestKinds /\ reply'.op \in {"move", "loot"}
          \/ Units(data', ground', k) = Units(data, ground, k) ]_vars

\* A handler that refuses leaves every container as it was, even when it had
\* taken the item and shifted a weapon before it found out.  The swap and the
\* list of moves do not promise it.
RefusedChangesNothing ==
    [][ ~reply'.ok /\ reply'.op \notin {"swap", "movelist"} => data' = data ]_vars

\* A lottery adds one item to the temporary inventory and loses none of those
\* there, whatever slots earlier moves have left free.
LotteryKeepsTemporary ==
    [][ reply' = [op |-> "lottery", ok |-> TRUE] =>
          /\ Len(data'.temporary) = Len(data.temporary) + 1
          /\ \A k \in Kinds :
               UnitsInList(data'.temporary, k) >= UnitsInList(data.temporary, k) ]_vars

SectionOf(d, lk, section) ==
    CASE section = "info" -> d.alz
      [] section = "equipment" -> <<d.equipment, lk>>
      [] section = "warehouse" -> <<d.warehouse, d.currency>>
      [] OTHER -> d[section]

\* Whatever a handler changes is marked for the next save, else the player finds
\* the old items, beside the new ones, after the next login.  Excepted are the
\* list of moves that stops half-way, and the temporary inventory, which only
\* the lottery marks.
ChangesAreMarked ==
    [][ \A section \in Sections :
          SectionOf(data', locks', section) # SectionOf(data, locks, section) =>
            \/ section \in marked'
            \/ reply' = [op |-> "movelist", ok |-> FALSE]
            \/ section = "temporary" /\ reply'.op # "lottery" ]_vars

\* Purse and deposit together lose exactly the fees: one for each item that goes
\* to the warehouse and one for each deposit, whichever of the two pays.
OnlyFeesVanish ==
    [][ LET stored == reply'.op = "move" /\ ~(data'.warehouse \subseteq data.warehouse)
            paid   == IF stored \/ reply' = [op |-> "deposit", ok |-> TRUE] THEN 1 ELSE 0
        IN  data'.alz + data'.currency = data.alz + data.currency - paid ]_vars

SameItem(x, y) == x.kind = y.kind /\ x.options = y.options

\* Pushing an item touches no locked slot, and the items that move on keep their
\* order (items told apart by their options).
PushKeepsOrder ==
    [][ reply' = [op |-> "push", ok |-> TRUE] =>
          /\ \A s \in locks : At(data'.equipment, s) = At(data.equipment, s)
          /\ \A x, y \in data.equipment : \A u, v \in data'.equipment :
               SameItem(x, u) /\ SameItem(y, v) /\ ~SameItem(x, y) /\ x.slot < y.slot
                 /\ {x.slot, y.slot} \cap locks = {} => u.slot < v.slot ]_vars

\* A swap that is refused loses no item: the comment of OnInventory.c on the
\* static backups holds them safe as long as nothing runs in parallel.
RefusedSwapLosesNothing ==
    [][ reply' = [op |-> "swap", ok |-> FALSE] =>
          \A k \in Kinds : Units(data', ground', k) = Units(data, ground, k) ]_vars

\* The assertion at the end of PUSH_EQUIPMENT_ITEM.
PushAssertHolds == status = "aborted" => reply.op # "push"
=============================================================================
