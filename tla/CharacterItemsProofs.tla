------------------------- MODULE CharacterItemsProofs -------------------------
(***************************************************************************)
(* Proofs about CharacterItems: for any kinds, slots, prizes and bounds the *)
(* items keep their types, no two of a container share a slot, no stack is  *)
(* larger than its kind allows, what is refused is undone, and what changes *)
(* is marked for the next save.                                            *)
(***************************************************************************)
EXTENDS CharacterItems, SequenceTheorems, CountingProofs

ItemsInv ==
    /\ WellFilled(data)
    /\ ground \subseteq Ground
    /\ locks \subseteq EquipmentSlots
    /\ status \in {"online", "offline", "aborted"}
    /\ reply.ok \in BOOLEAN
    /\ marked \subseteq Sections

-----------------------------------------------------------------------------
(* Numbers                                                                  *)

\* The least of some numbers is one of them.
LEMMA MinFacts ==
    ASSUME NEW T \in SUBSET Nat, T # {}
    PROVE  Min(T) \in T /\ \A m \in T : Min(T) <= m
BY LeastNumber, Zenon DEF Min

-----------------------------------------------------------------------------
(* The options word                                                         *)

LEMMA CountFacts ==
    ASSUME NEW k \in Kinds, NEW a \in Nat, NEW n \in Nat
    PROVE  /\ CountOf(k, a) \in Nat /\ WithCount(k, a, n) \in Nat
           /\ k \notin QuestKinds => CountOf(k, a) = a /\ WithCount(k, a, n) = n
<1>1. CountModulus \in Nat \ {0, 1}
  BY KindAssumption
<1>2. a % CountModulus \in Nat /\ n % CountModulus \in Nat
  BY <1>1
<1>3. a \div CountModulus \in Nat
  BY <1>1
<1>4. \A i \in Nat : QuestOptions(i, n) \in Nat
  <2> SUFFICES ASSUME NEW i \in Nat PROVE QuestOptions(i, n) \in Nat
    OBVIOUS
  <2>1. \A x, y \in Nat : x * y \in Nat
    OBVIOUS
  <2> DEFINE carry == IF n >= CountModulus /\ i % 2 = 0 THEN 1 ELSE 0
  <2>2. carry \in Nat
    OBVIOUS
  <2> HIDE DEF carry
  <2>3. (i + carry) \in Nat
    BY <2>2
  <2>4. (i + carry) * CountModulus \in Nat
    BY <1>1, <2>1, <2>3
  <2> QED
    BY <1>2, <2>4 DEF QuestOptions, carry
<1> QED
  BY <1>2, <1>3, <1>4 DEF CountOf, WithCount, QuestCount, QuestIndex

-----------------------------------------------------------------------------
(* Containers                                                               *)

LEMMA SlotFacts ==
    /\ \A st \in Stores : Slots[st] \subseteq Nat /\ IsFiniteSet(Slots[st])
    /\ Slots.inventory = 0 .. TotalSize - 1 /\ Slots.equipment = EquipmentSlots
    /\ Slots.warehouse = 0 .. WarehouseSize - 1 /\ Slots.vehicle = 0 .. VehicleSize - 1
    /\ TotalSize \in Nat \ {0}
<1>1. TotalSize \in Nat \ {0} /\ WarehouseSize \in Nat /\ VehicleSize \in Nat
      /\ EquipmentSlots \subseteq Nat /\ IsFiniteSet(EquipmentSlots)
  BY SlotAssumption, BoundAssumption
<1>2. /\ Slots.inventory = 0 .. TotalSize - 1 /\ Slots.equipment = EquipmentSlots
      /\ Slots.warehouse = 0 .. WarehouseSize - 1 /\ Slots.vehicle = 0 .. VehicleSize - 1
  BY DEF Slots
<1>3. \A n \in Nat : IsFiniteSet(0 .. n - 1) /\ 0 .. n - 1 \subseteq Nat
  BY FS_Interval
<1>4. \A st \in Stores : Slots[st] \subseteq Nat /\ IsFiniteSet(Slots[st])
  BY <1>1, <1>2, <1>3 DEF Stores
<1> QED
  BY <1>1, <1>2, <1>4

\* An item in another slot, one with another options word, and a character with
\* another container.
Moves(x, s) == [x EXCEPT !.slot = s]
Holds(x, o) == [x EXCEPT !.options = o]
With(d, st, C) == [d EXCEPT ![st] = C]

\* An item moved to another slot, and an item whose stack changes.
LEMMA Changed ==
    ASSUME NEW x \in LegalItem, NEW s \in Nat
    PROVE  /\ Moves(x, s) \in LegalItem /\ Moves(x, s).slot = s
           /\ Moves(x, s).kind = x.kind /\ Moves(x, s).options = x.options
BY DEF LegalItem, Item, Moves

LEMMA Restacked ==
    ASSUME NEW x \in LegalItem, NEW o \in Nat, Legal(x.kind, o)
    PROVE  Holds(x, o) \in LegalItem /\ Holds(x, o).slot = x.slot /\ Holds(x, o).kind = x.kind
           /\ Holds(x, o).options = o
BY DEF LegalItem, Item, Holds

LEMMA PartStored ==
    ASSUME NEW st, NEW C, WellStored(st, C), NEW D \in SUBSET C
    PROVE  WellStored(st, D)
BY DEF WellStored, SlotsOf

LEMMA OnlyItem ==
    ASSUME NEW st, NEW C, WellStored(st, C), NEW s, At(C, s) # {}
    PROVE  \E x \in C : /\ At(C, s) = {x} /\ x.slot = s /\ x \in LegalItem
                        /\ s \in Slots[st] /\ (CHOOSE y \in At(C, s) : TRUE) = x
<1>1. PICK x \in C : x.slot = s
  BY DEF At
<1>2. At(C, s) = {x}
  BY <1>1 DEF At, WellStored
<1>3. (CHOOSE y \in {x} : TRUE) = x
  OBVIOUS
<1> QED
  BY <1>1, <1>2, <1>3 DEF WellStored, SlotsOf

LEMMA Placed ==
    ASSUME NEW st, NEW C, WellStored(st, C), NEW x \in LegalItem, x.slot \in Slots[st],
           At(C, x.slot) = {}
    PROVE  WellStored(st, C \cup {x})
<1>1. \A y \in C : y.slot # x.slot
  BY DEF At
<1> QED
  BY <1>1 DEF WellStored, SlotsOf

LEMMA Cleared ==
    ASSUME NEW st, NEW C, WellStored(st, C), NEW s
    PROVE  WellStored(st, ClearSlot(C, s)) /\ At(ClearSlot(C, s), s) = {}
<1>1. ClearSlot(C, s) \subseteq C /\ At(ClearSlot(C, s), s) = {}
  BY DEF ClearSlot, At
<1> QED
  BY <1>1, PartStored

LEMMA Replaced ==
    ASSUME NEW st, NEW C, WellStored(st, C), NEW x \in LegalItem, x.slot \in Slots[st]
    PROVE  WellStored(st, ClearSlot(C, x.slot) \cup {x})
BY Cleared, Placed

\* Two stacks that may be one are one that is legal.
LEMMA StackedLegal ==
    ASSUME NEW st, NEW k \in Kinds, NEW a \in Nat, NEW b \in Nat,
           Legal(k, a), Legal(k, b), CanStack(st, k, a, b)
    PROVE  Stacked(k, a, b) \in Nat /\ Legal(k, Stacked(k, a, b))
<1>1. CountOf(k, a) \in Nat /\ CountOf(k, b) \in Nat
  BY CountFacts
<1>2. CountOf(k, a) + CountOf(k, b) \in Nat
  BY <1>1
<1>3. /\ Stacked(k, a, b) \in Nat
      /\ k \notin QuestKinds => Stacked(k, a, b) = a + b
  BY <1>2, CountFacts DEF Stacked
<1>4. k \notin QuestKinds => a + b > 0 /\ (MaxStack[k] > 1 => a + b <= MaxStack[k])
  BY DEF CanStack, Legal
<1> QED
  BY <1>3, <1>4 DEF Legal

LEMMA SetSlotStored ==
    ASSUME NEW st, NEW C, WellStored(st, C), NEW x \in LegalItem, x.slot \in Slots[st],
           Fits(st, C, x)
    PROVE  WellStored(st, SetSlot(C, x))
<1>1. CASE At(C, x.slot) = {}
  <2>1. SetSlot(C, x) = ClearSlot(C, x.slot) \cup {x}
    BY <1>1 DEF SetSlot
  <2> QED
    BY <2>1, Replaced
<1>2. CASE At(C, x.slot) # {}
  <2>1. PICK y \in C : At(C, x.slot) = {y} /\ y.slot = x.slot /\ y \in LegalItem
    BY <1>2, OnlyItem
  <2>2. y.kind = x.kind /\ CanStack(st, x.kind, y.options, x.options)
    BY <2>1 DEF Fits
  <2> DEFINE o == Stacked(x.kind, y.options, x.options)
             z == Holds(y, o)
  <2>3. x.kind \in Kinds /\ x.options \in Nat /\ y.options \in Nat /\ y.slot \in Nat
        /\ Legal(x.kind, y.options) /\ Legal(x.kind, x.options)
    BY <2>1, <2>2 DEF LegalItem, Item
  <2>4. o \in Nat /\ Legal(x.kind, o)
    BY <2>2, <2>3, StackedLegal
  <2>5. {[w EXCEPT !.options = Stacked(x.kind, @, x.options)] : w \in {y}} = {z}
    BY DEF Holds
  <2>6. SetSlot(C, x) = ClearSlot(C, x.slot) \cup {z}
    BY <1>2, <2>1, <2>5 DEF SetSlot
  <2> HIDE DEF o
  <2>7. z \in LegalItem /\ z.slot = x.slot
    BY <2>1, <2>2, <2>3, <2>4, Restacked
  <2> HIDE DEF z
  <2>8. WellStored(st, ClearSlot(C, z.slot) \cup {z})
    BY <2>7, Replaced
  <2> QED
    BY <2>6, <2>7, <2>8
<1> QED
  BY <1>1, <1>2

-----------------------------------------------------------------------------
(* What a character has                                                     *)

LEMMA Fields ==
    ASSUME NEW d, WellFilled(d)
    PROVE  /\ \A st \in Stores : WellStored(st, d[st]) /\ d[st] \subseteq LegalItem
           /\ d.alz \in Nat /\ d.currency \in Nat
           /\ d.temporary \in Seq(LegalItem) /\ Len(d.temporary) <= TotalSize
           /\ d = [f \in DOMAIN d |-> d[f]] /\ DOMAIN d = {"inventory", "equipment", "warehouse",
                                                          "vehicle", "temporary", "alz", "currency"}
BY DEF WellFilled, Data, WellStored

LEMMA Filled ==
    ASSUME NEW d, d = [f \in DOMAIN d |-> d[f]],
           DOMAIN d = {"inventory", "equipment", "warehouse", "vehicle", "temporary", "alz", "currency"},
           \A st \in Stores : WellStored(st, d[st]),
           d.temporary \in Seq(LegalItem), Len(d.temporary) <= TotalSize,
           d.alz \in Nat, d.currency \in Nat
    PROVE  WellFilled(d)
<1>1. LegalItem \subseteq Item
  BY DEF LegalItem
<1>2. \A st \in Stores : d[st] \in SUBSET Item
  BY <1>1 DEF WellStored
<1>3. d.temporary \in Seq(Item)
  <2>1. d.temporary = [i \in 1 .. Len(d.temporary) |-> d.temporary[i]]
        /\ \A i \in 1 .. Len(d.temporary) : d.temporary[i] \in Item
    BY <1>1
  <2> QED
    BY <2>1
<1>4. d \in Data
  BY <1>2, <1>3 DEF Data, Stores
<1> QED
  BY <1>4 DEF WellFilled

LEMMA StorePut ==
    ASSUME NEW d, WellFilled(d), NEW st \in Stores, NEW C, WellStored(st, C),
           NEW e, e = With(d, st, C)
    PROVE  /\ WellFilled(e) /\ e[st] = C /\ \A u \in Stores \ {st} : e[u] = d[u]
           /\ e.temporary = d.temporary /\ e.alz = d.alz /\ e.currency = d.currency
<1>1. /\ e = [f \in DOMAIN e |-> e[f]] /\ DOMAIN e = DOMAIN d /\ e[st] = C
      /\ \A f \in DOMAIN d : f # st => e[f] = d[f]
  BY Fields DEF Stores, With
<1>2. /\ \A u \in Stores \ {st} : e[u] = d[u]
      /\ e.temporary = d.temporary /\ e.alz = d.alz /\ e.currency = d.currency
  BY <1>1, Fields DEF Stores
<1>3. \A u \in Stores : WellStored(u, e[u])
  BY <1>1, <1>2, Fields
<1> QED
  BY <1>1, <1>2, <1>3, Fields, Filled

LEMMA PlaceFacts ==
    ASSUME NEW p \in Place
    PROVE  p.store \in Stores /\ p.slot \in Slots[p.store] /\ p.slot \in Nat
BY SlotFacts DEF Place

LEMMA ItemAtFacts ==
    ASSUME NEW d, WellFilled(d), NEW p \in Place, At(d[p.store], p.slot) # {}
    PROVE  ItemAt(d, p) \in LegalItem /\ ItemAt(d, p).slot = p.slot
           /\ ItemAt(d, p) \in d[p.store] /\ At(d[p.store], p.slot) = {ItemAt(d, p)}
<1>1. WellStored(p.store, d[p.store])
  BY Fields, PlaceFacts
<1>2. PICK x \in d[p.store] : /\ At(d[p.store], p.slot) = {x} /\ x.slot = p.slot /\ x \in LegalItem
                              /\ (CHOOSE y \in At(d[p.store], p.slot) : TRUE) = x
  BY <1>1, OnlyItem
<1> QED
  BY <1>2 DEF ItemAt

LEMMA TakenFilled ==
    ASSUME NEW d, WellFilled(d), NEW from \in Place, NEW to \in Stores,
           NEW t, t = Taken(d, from, to)
    PROVE  /\ WellFilled(t)
           /\ \A u \in Stores : u # from.store => t[u] = d[u]
           /\ t.temporary = d.temporary /\ t.alz = d.alz /\ t.currency = d.currency
           /\ from.store = to => t[from.store] = ClearSlot(d[from.store], from.slot)
<1> DEFINE rest == ClearSlot(d[from.store], from.slot)
<1>1. from.store \in Stores /\ from.slot \in Slots[from.store] /\ from.slot \in Nat
  BY PlaceFacts
<1>2. WellStored(from.store, rest) /\ At(rest, from.slot) = {}
  BY <1>1, Fields, Cleared
<1>3. CASE t = With(d, from.store, rest)
  <2> HIDE DEF rest
  <2>1. /\ WellFilled(t) /\ t[from.store] = rest /\ \A u \in Stores : u # from.store => t[u] = d[u]
        /\ t.temporary = d.temporary /\ t.alz = d.alz /\ t.currency = d.currency
    BY <1>1, <1>2, <1>3, StorePut
  <2> QED
    BY <2>1 DEF rest
<1>4. CASE ~(t = With(d, from.store, rest))
  <2> DEFINE shift(x) == IF x.slot = WeaponRight THEN Moves(x, WeaponLeft) ELSE x
             C == {shift(x) : x \in rest}
  <2>1. /\ from.store = "equipment" /\ to # "equipment" /\ from.slot = WeaponLeft
        /\ t = With(d, "equipment", C)
    BY <1>4 DEF Taken, With, Moves
  <2>2. WellStored("equipment", C)
    <3>1. \A x \in rest : x \in LegalItem /\ x.slot \in Slots["equipment"] /\ x.slot # WeaponLeft
      BY <1>2, <2>1 DEF WellStored, SlotsOf, At
    <3>2. WeaponLeft \in Nat /\ WeaponLeft \in Slots["equipment"]
      BY <1>1, <2>1
    <3>3. \A x \in rest : /\ shift(x) \in LegalItem /\ shift(x).slot \in Slots["equipment"]
                          /\ shift(x).slot = (IF x.slot = WeaponRight THEN WeaponLeft ELSE x.slot)
      BY <3>1, <3>2, Changed
    <3>4. \A x, y \in rest : shift(x).slot = shift(y).slot => x = y
      BY <1>2, <2>1, <3>1, <3>3 DEF WellStored
    <3> HIDE DEF rest, shift
    <3> QED
      BY <3>3, <3>4 DEF WellStored, SlotsOf
  <2>3. "equipment" \in Stores
    BY DEF Stores
  <2> HIDE DEF C
  <2>4. /\ WellFilled(t) /\ \A u \in Stores : u # "equipment" => t[u] = d[u]
        /\ t.temporary = d.temporary /\ t.alz = d.alz /\ t.currency = d.currency
    BY <2>1, <2>2, <2>3, StorePut
  <2> QED
    BY <2>1, <2>4
<1> QED
  BY <1>3, <1>4

LEMMA PutFilled ==
    ASSUME NEW d, WellFilled(d), NEW to \in Place, NEW x \in LegalItem, CanPut(d, to, x),
           NEW e, e = Put(d, to, x)
    PROVE  /\ WellFilled(e)
           /\ \A u \in Stores \ {to.store} : e[u] = d[u]
           /\ e[to.store] = SetSlot(d[to.store], Moves(x, to.slot))
           /\ e.temporary = d.temporary
           /\ to.store # "warehouse" => e.alz = d.alz /\ e.currency = d.currency
           /\ d.alz < 1 => e.alz = d.alz
<1> DEFINE y == Moves(x, to.slot)
           fee == IF to.store = "warehouse" THEN 1 ELSE 0
           purse == IF d.alz >= 1 THEN fee ELSE 0
           C == SetSlot(d[to.store], y)
<1>1. to.store \in Stores /\ to.slot \in Slots[to.store] /\ to.slot \in Nat
  BY PlaceFacts
<1>2. y \in LegalItem /\ y.slot = to.slot
  BY <1>1, Changed
<1>3. Fits(to.store, d[to.store], y)
  BY DEF CanPut, Moves
<1>4. to.store = "warehouse" => d.alz >= 1 \/ d.currency >= 1
  BY DEF CanPut
<1>5. e = [d EXCEPT ![to.store] = C, !.alz = @ - purse, !.currency = @ - (fee - purse)]
  BY DEF Put, Moves
<1> HIDE DEF y
<1>6. WellStored(to.store, C)
  BY <1>1, <1>2, <1>3, Fields, SetSlotStored
<1> HIDE DEF C
<1>7. /\ e = [f \in DOMAIN e |-> e[f]] /\ DOMAIN e = DOMAIN d /\ e[to.store] = C
      /\ \A u \in Stores \ {to.store} : e[u] = d[u]
      /\ e.temporary = d.temporary
      /\ e.alz = d.alz - purse /\ e.currency = d.currency - (fee - purse)
  BY <1>1, <1>5, Fields DEF Stores
<1>8. \A u \in Stores : WellStored(u, e[u])
  BY <1>6, <1>7, Fields
<1>9. e.alz \in Nat /\ e.currency \in Nat
  BY <1>4, <1>7, Fields
<1>10. WellFilled(e)
  BY <1>7, <1>8, <1>9, Fields, Filled
<1> QED
  BY <1>7, <1>10, Fields DEF C, y

\* What a move from one place to another leaves of d.
MovedWell(d, from, to, e) ==
    /\ WellFilled(e) /\ e.temporary = d.temporary
    /\ ~CanMove(d, from, to) => e = d
    /\ \A u \in Stores : u # from.store /\ u # to.store => e[u] = d[u]
    /\ to.store # "warehouse" => e.alz = d.alz /\ e.currency = d.currency
    /\ d.alz < 1 => e.alz = d.alz

LEMMA MovedFilled ==
    ASSUME NEW d, WellFilled(d), NEW from \in Place, NEW to \in Place,
           NEW e, e = Moved(d, from, to)
    PROVE  MovedWell(d, from, to, e)
<1> SUFFICES /\ WellFilled(e) /\ e.temporary = d.temporary
             /\ ~CanMove(d, from, to) => e = d
             /\ \A u \in Stores : u # from.store /\ u # to.store => e[u] = d[u]
             /\ to.store # "warehouse" => e.alz = d.alz /\ e.currency = d.currency
             /\ d.alz < 1 => e.alz = d.alz
  BY DEF MovedWell
<1> DEFINE t == Taken(d, from, to.store)
<1>1. from.store \in Stores /\ to.store \in Stores
  BY PlaceFacts
<1>2. /\ WellFilled(t)
      /\ \A u \in Stores : u # from.store => t[u] = d[u]
      /\ t.temporary = d.temporary /\ t.alz = d.alz /\ t.currency = d.currency
  BY <1>1, TakenFilled
<1>3. CASE CanMove(d, from, to)
  <2> DEFINE x == ItemAt(d, from)
  <2>1. x \in LegalItem /\ CanPut(t, to, x)
    BY <1>3, ItemAtFacts DEF CanMove
  <2>2. e = Put(t, to, x)
    BY <1>3 DEF Moved
  <2> HIDE DEF t, x
  <2>3. /\ WellFilled(e) /\ \A u \in Stores \ {to.store} : e[u] = t[u]
        /\ e.temporary = t.temporary
        /\ to.store # "warehouse" => e.alz = t.alz /\ e.currency = t.currency
        /\ t.alz < 1 => e.alz = t.alz
    BY <1>2, <2>1, <2>2, PutFilled
  <2> QED
    BY <1>1, <1>2, <1>3, <2>3
<1>4. CASE ~CanMove(d, from, to)
  <2>1. CASE At(d[from.store], from.slot) = {}
    BY <1>4, <2>1 DEF Moved
  <2>2. CASE At(d[from.store], from.slot) # {}
    <3>1. e = [t EXCEPT !.inventory = d.inventory, !.equipment = d.equipment,
                        !.warehouse = d.warehouse, !.vehicle = d.vehicle]
      BY <1>4, <2>2 DEF Moved, Restore
    <3> HIDE DEF t
    <3>2. e = [f \in DOMAIN d |-> e[f]]
      BY <1>2, <3>1, Fields
    <3>3. \A f \in DOMAIN d : e[f] = d[f]
      <4>1. /\ e.inventory = d.inventory /\ e.equipment = d.equipment
            /\ e.warehouse = d.warehouse /\ e.vehicle = d.vehicle
            /\ e.temporary = d.temporary /\ e.alz = d.alz /\ e.currency = d.currency
        BY <1>2, <3>1, Fields
      <4>2. DOMAIN d = {"inventory", "equipment", "warehouse", "vehicle", "temporary", "alz", "currency"}
        BY Fields
      <4> QED
        BY <4>1, <4>2
    <3>4. e = d
      BY <3>2, <3>3, Fields
    <3> QED
      BY <3>4
  <2> QED
    BY <1>4, <2>1, <2>2
<1> QED
  BY <1>3, <1>4

-----------------------------------------------------------------------------
(* What an answer must be                                                   *)

\* RefusedChangesNothing and ChangesAreMarked, of one step.
Undone == ~reply'.ok /\ reply'.op \notin {"swap", "movelist"} => data' = data

AllMarked ==
    \A section \in Sections :
       SectionOf(data', locks', section) # SectionOf(data, locks, section) =>
         \/ section \in marked'
         \/ reply' = [op |-> "movelist", ok |-> FALSE]
         \/ section = "temporary" /\ reply'.op # "lottery"

Good == ItemsInv' /\ Undone /\ AllMarked

\* What differs between two characters is in the sections M.
Within(d, e, M) ==
    /\ \A u \in Stores : e[u] # d[u] => u \in M
    /\ e.alz # d.alz => "info" \in M
    /\ e.currency # d.currency => "warehouse" \in M

LEMMA Answered ==
    ASSUME ItemsInv, NEW op, NEW ok \in BOOLEAN, NEW M \in SUBSET Sections,
           reply' = [op |-> op, ok |-> ok], marked' = M,
           status' \in {"online", "offline", "aborted"},
           WellFilled(data'), ground' \subseteq Ground, locks' \subseteq EquipmentSlots,
           ~ok /\ op \notin {"swap", "movelist"} => data' = data,
           (op = "movelist" /\ ~ok) \/ Within(data, data', M),
           data'.temporary # data.temporary => "temporary" \in M \/ op # "lottery",
           locks' # locks => "equipment" \in M
    PROVE  Good
<1>1. ItemsInv'
  BY DEF ItemsInv
<1>2. reply'.op = op /\ reply'.ok = ok
  OBVIOUS
<1>3. Undone
  BY <1>2 DEF Undone
<1>4. AllMarked
  <2>1. CASE op = "movelist" /\ ~ok
    BY <2>1 DEF AllMarked
  <2>2. CASE Within(data, data', M)
    <3> SUFFICES ASSUME NEW section \in Sections,
                        SectionOf(data', locks', section) # SectionOf(data, locks, section),
                        section # "temporary"
                 PROVE  section \in M
      BY <1>2, <2>2 DEF AllMarked, SectionOf
    <3>1. section \in {"info", "equipment", "warehouse", "inventory", "vehicle"}
      BY DEF Sections, Stores
    <3> QED
      BY <2>2, <3>1 DEF SectionOf, Within, Stores
  <2> QED
    BY <2>1, <2>2
<1> QED
  BY <1>1, <1>3, <1>4 DEF Good

LEMMA Unchanged ==
    ASSUME ItemsInv, NEW op, NEW ok \in BOOLEAN, NEW M \in SUBSET Sections,
           reply' = [op |-> op, ok |-> ok], marked' = M,
           status' \in {"online", "offline", "aborted"}, UNCHANGED <<data, locks, ground>>
    PROVE  Good
<1>1. WellFilled(data) /\ ground \subseteq Ground /\ locks \subseteq EquipmentSlots
  BY DEF ItemsInv
<1>2. Within(data, data', M)
  BY DEF Within
<1> QED
  BY <1>1, <1>2, Answered

LEMMA Refused ==
    ASSUME ItemsInv, NEW op, Refuse(op) \/ Abort(op)
    PROVE  Good
<1>1. reply' = [op |-> op, ok |-> FALSE] /\ marked' = {}
      /\ status' \in {"online", "offline", "aborted"} /\ UNCHANGED <<data, locks, ground>>
  BY DEF Refuse, Abort, Answer
<1> QED
  BY <1>1, Unchanged

\* A handler that answers and changes what the character has.
LEMMA Done ==
    ASSUME ItemsInv, NEW op, NEW ok \in BOOLEAN, NEW M \in SUBSET Sections,
           Answer(op, ok, M), UNCHANGED locks, ground' \subseteq Ground,
           WellFilled(data'), ~ok /\ op \notin {"swap", "movelist"} => data' = data,
           (op = "movelist" /\ ~ok) \/ Within(data, data', M),
           data'.temporary # data.temporary => "temporary" \in M \/ op # "lottery"
    PROVE  Good
<1>1. reply' = [op |-> op, ok |-> ok] /\ marked' = M /\ status' \in {"online", "offline", "aborted"}
  BY DEF Answer
<1>2. locks' \subseteq EquipmentSlots /\ locks' = locks
  BY DEF ItemsInv
<1> QED
  BY <1>1, <1>2, Answered

-----------------------------------------------------------------------------
(* Moving and swapping                                                      *)

LEMMA MoveMarksFacts ==
    ASSUME NEW d, NEW from \in Place, NEW to \in Place
    PROVE  /\ MoveMarks(d, from, to) \in SUBSET Sections
           /\ CanMove(d, from, to) =>
                /\ {from.store, to.store} \subseteq MoveMarks(d, from, to)
                /\ to.store = "warehouse" /\ d.alz >= 1 => "info" \in MoveMarks(d, from, to)
BY PlaceFacts DEF MoveMarks, Sections

LEMMA MoveItemGood ==
    ASSUME ItemsInv, NEW from \in Place, NEW to \in Place, MoveItem(from, to)
    PROVE  Good
<1> DEFINE M == MoveMarks(data, from, to)
           ok == CanMove(data, from, to)
<1>1. WellFilled(data) /\ ground' \subseteq Ground /\ UNCHANGED locks
  BY DEF ItemsInv, MoveItem
<1>2. Answer("move", ok, M) /\ data' = Moved(data, from, to)
  BY DEF MoveItem
<1>3. ok \in BOOLEAN
  BY DEF CanMove
<1>4. /\ WellFilled(data') /\ data'.temporary = data.temporary
      /\ ~ok => data' = data
      /\ \A u \in Stores : u # from.store /\ u # to.store => data'[u] = data[u]
      /\ to.store # "warehouse" => data'.alz = data.alz /\ data'.currency = data.currency
      /\ data.alz < 1 => data'.alz = data.alz
  <2>1. MovedWell(data, from, to, data')
    BY <1>1, <1>2, MovedFilled
  <2> HIDE DEF ok, M
  <2> QED
    BY <2>1 DEF MovedWell, ok
<1>5. M \in SUBSET Sections
  BY MoveMarksFacts
<1>6. Within(data, data', M)
  <2>1. data.alz \in Nat
    BY <1>1, Fields
  <2>2. ok => /\ {from.store, to.store} \subseteq M
              /\ to.store = "warehouse" /\ data.alz >= 1 => "info" \in M
    BY MoveMarksFacts
  <2> HIDE DEF ok, M
  <2> QED
    BY <1>4, <2>1, <2>2 DEF Within
<1> HIDE DEF ok, M
<1>7. /\ ~ok /\ "move" \notin {"swap", "movelist"} => data' = data
      /\ ("move" = "movelist" /\ ~ok) \/ Within(data, data', M)
      /\ data'.temporary # data.temporary => "temporary" \in M \/ "move" # "lottery"
  BY <1>4, <1>6
<1>8. WellFilled(data')
  BY <1>4
<1> QED
  BY <1>1, <1>2, <1>3, <1>5, <1>7, <1>8, Done, Zenon

\* An item that is set aside leaves room for the other one: the move to its slot
\* is never refused.
LEMMA RoomMade ==
    ASSUME NEW d, WellFilled(d), NEW p \in Place, NEW q \in Place, p # q, InBag(q.store),
           At(d[p.store], p.slot) # {},
           NEW e, e = With(d, q.store, ClearSlot(d[q.store], q.slot))
    PROVE  WellFilled(e) /\ CanMove(e, p, q)
<1>1. p.store \in Stores /\ q.store \in Stores /\ q.slot \in Nat /\ p.slot \in Nat
  BY PlaceFacts
<1>2. WellStored(q.store, ClearSlot(d[q.store], q.slot)) /\ At(ClearSlot(d[q.store], q.slot), q.slot) = {}
  BY <1>1, Fields, Cleared
<1>3. /\ WellFilled(e) /\ e[q.store] = ClearSlot(d[q.store], q.slot)
      /\ \A u \in Stores \ {q.store} : e[u] = d[u]
  BY <1>1, <1>2, StorePut
<1>4. At(e[p.store], p.slot) # {}
  <2>1. CASE p.store # q.store
    BY <1>1, <1>3, <2>1
  <2>2. CASE p.store = q.store
    <3>1. p.slot # q.slot
      BY <2>2 DEF Place
    <3> QED
      BY <1>3, <2>2, <3>1 DEF At, ClearSlot
  <2> QED
    BY <2>1, <2>2
<1> DEFINE x == ItemAt(e, p)
<1>12. PICK t : t = Taken(e, p, q.store)
  OBVIOUS
<1>5. /\ \A u \in Stores : u # p.store => t[u] = e[u]
      /\ p.store = q.store => t[p.store] = ClearSlot(e[p.store], p.slot)
  <2>1. WellFilled(e) /\ q.store \in Stores
    BY <1>1, <1>3
  <2> QED
    BY <1>12, <2>1, TakenFilled
<1>6. x \in LegalItem
  BY <1>3, <1>4, ItemAtFacts
<1>7. At(t[q.store], q.slot) = {}
  <2>1. CASE p.store # q.store
    BY <1>1, <1>2, <1>3, <1>5, <2>1
  <2>2. CASE p.store = q.store
    <3>1. t[q.store] \subseteq e[q.store]
      BY <1>5, <2>2 DEF ClearSlot
    <3> QED
      BY <1>2, <1>3, <3>1 DEF At
  <2> QED
    BY <2>1, <2>2
<1> HIDE DEF x
<1>8. Moves(x, q.slot).slot = q.slot
  BY <1>1, <1>6, Changed
<1>9. Fits(q.store, t[q.store], Moves(x, q.slot))
  BY <1>7, <1>8 DEF Fits
<1>10. q.store # "warehouse" /\ q.store # "vehicle"
  BY DEF InBag
<1>11. CanPut(t, q, x)
  BY <1>9, <1>10 DEF CanPut, Moves
<1> QED
  BY <1>3, <1>4, <1>12, <1>11 DEF CanMove, x

LEMMA SwapItemGood ==
    ASSUME ItemsInv, NEW p \in Place, NEW q \in Place, p # q, SwapItem(p, q)
    PROVE  Good
<1> DEFINE aside == ItemAt(data, q)
           d1 == With(data, q.store, ClearSlot(data[q.store], q.slot))
           d2 == Moved(d1, p, q)
           x == Moves(aside, p.slot)
           M == MoveMarks(d1, p, q)
<1>1. WellFilled(data) /\ ground' \subseteq Ground /\ UNCHANGED <<locks, ground>>
      /\ At(data[p.store], p.slot) # {} /\ At(data[q.store], q.slot) # {}
  BY DEF ItemsInv, SwapItem
<1>2. p.store \in Stores /\ p.slot \in Slots[p.store] /\ p.slot \in Nat /\ q.store \in Stores
  BY PlaceFacts
<1>3. CASE ~InBag(q.store)
  <2>1. UNCHANGED <<data, locks, ground>> /\ Disconnect("swap", {})
    BY <1>1, <1>3 DEF SwapItem
  <2>2. /\ reply' = [op |-> "swap", ok |-> FALSE] /\ marked' = {}
        /\ status' \in {"online", "offline", "aborted"}
    BY <2>1 DEF Disconnect
  <2> QED
    BY <2>1, <2>2, Unchanged
<1>4. CASE InBag(q.store)
  <2>1. /\ WellFilled(d1) /\ \A u \in Stores \ {q.store} : d1[u] = data[u]
        /\ d1.temporary = data.temporary /\ d1.alz = data.alz /\ d1.currency = data.currency
    <3> DEFINE C == ClearSlot(data[q.store], q.slot)
    <3>1. WellStored(q.store, C)
      BY <1>1, <1>2, Fields, Cleared
    <3>2. d1 = With(data, q.store, C)
      OBVIOUS
    <3> HIDE DEF C, d1
    <3> QED
      BY <1>1, <1>2, <3>1, <3>2, StorePut
  <2>2. CanMove(d1, p, q)
    BY <1>1, <1>4, RoomMade
  <2>3. q.store # "warehouse"
    BY <1>4 DEF InBag
  <2>4. M \in SUBSET Sections /\ p.store \in M /\ q.store \in M
    BY <2>2, MoveMarksFacts
  <2>5. aside \in LegalItem
    BY <1>1, ItemAtFacts
  <2>6. x \in LegalItem /\ x.slot = p.slot
    BY <1>2, <2>5, Changed
  <2>7. \/ /\ Fits(p.store, d2[p.store], x) /\ Answer("swap", TRUE, M)
           /\ data' = With(d2, p.store, SetSlot(d2[p.store], x))
        \/ /\ Disconnect("swap", M)
           /\ data' = With(With(d2, "equipment", d1.equipment), "inventory", d1.inventory)
    <3> HIDE DEF M
    <3> QED
      BY <1>4 DEF SwapItem, With, Moves, M
  <2> HIDE DEF d1, x, M
  <2>8. /\ WellFilled(d2) /\ d2.temporary = data.temporary
        /\ \A u \in Stores : u # p.store /\ u # q.store => d2[u] = data[u]
        /\ d2.alz = data.alz /\ d2.currency = data.currency
    <3>1. PICK e : e = d2
      OBVIOUS
    <3>2. e = Moved(d1, p, q)
      BY <3>1
    <3> HIDE DEF d2
    <3>3. /\ WellFilled(e) /\ e.temporary = d1.temporary
          /\ \A u \in Stores : u # p.store /\ u # q.store => e[u] = d1[u]
          /\ q.store # "warehouse" => e.alz = d1.alz /\ e.currency = d1.currency
      <4>1. MovedWell(d1, p, q, e)
        BY <2>1, <3>2, MovedFilled
      <4> QED
        BY <4>1 DEF MovedWell
    <3>4. \A u \in Stores : u # p.store /\ u # q.store => e[u] = data[u]
      BY <2>1, <3>3
    <3> QED
      BY <2>1, <2>3, <3>1, <3>3, <3>4
  <2> HIDE DEF d2
  <2>9. CASE /\ Fits(p.store, d2[p.store], x) /\ Answer("swap", TRUE, M)
             /\ data' = With(d2, p.store, SetSlot(d2[p.store], x))
    <3> DEFINE C == SetSlot(d2[p.store], x)
    <3>1. WellStored(p.store, C)
      BY <1>2, <2>6, <2>8, <2>9, Fields, SetSlotStored
    <3> HIDE DEF C
    <3>2. data' = With(d2, p.store, C)
      BY <2>9 DEF C
    <3>3. /\ WellFilled(data') /\ \A u \in Stores \ {p.store} : data'[u] = d2[u]
          /\ data'.temporary = d2.temporary /\ data'.alz = d2.alz /\ data'.currency = d2.currency
      BY <1>2, <2>8, <3>1, <3>2, StorePut
    <3>4. Within(data, data', M) /\ data'.temporary = data.temporary
      BY <2>4, <2>8, <3>3 DEF Within
    <3> QED
      BY <1>1, <2>4, <2>9, <3>3, <3>4, Done, Zenon
  <2>10. CASE /\ Disconnect("swap", M)
              /\ data' = With(With(d2, "equipment", d1.equipment), "inventory", d1.inventory)
    <3> DEFINE e == With(d2, "equipment", d1.equipment)
    <3>1. "equipment" \in Stores /\ "inventory" \in Stores
      BY DEF Stores
    <3>2. WellStored("equipment", d1.equipment) /\ WellStored("inventory", d1.inventory)
      BY <2>1, <3>1, Fields
    <3>3. /\ WellFilled(e) /\ e.equipment = d1.equipment
          /\ \A u \in Stores \ {"equipment"} : e[u] = d2[u]
          /\ e.temporary = d2.temporary /\ e.alz = d2.alz /\ e.currency = d2.currency
      BY <2>8, <3>1, <3>2, StorePut
    <3> HIDE DEF e
    <3>4. /\ WellFilled(data') /\ data'.inventory = d1.inventory
          /\ \A u \in Stores \ {"inventory"} : data'[u] = e[u]
          /\ data'.temporary = e.temporary /\ data'.alz = e.alz /\ data'.currency = e.currency
      BY <2>10, <3>1, <3>2, <3>3, StorePut DEF e
    <3>5. Within(data, data', M) /\ data'.temporary = data.temporary
      BY <2>1, <2>4, <2>8, <3>3, <3>4 DEF Within, Stores
    <3>6. /\ reply' = [op |-> "swap", ok |-> FALSE] /\ marked' = M
          /\ status' \in {"online", "offline", "aborted"}
      BY <2>10 DEF Disconnect
    <3>7. locks' \subseteq EquipmentSlots /\ locks' = locks
      BY <1>1 DEF ItemsInv
    <3> QED
      BY <1>1, <2>4, <3>4, <3>5, <3>6, <3>7, Answered, Zenon
  <2> QED
    BY <2>7, <2>9, <2>10
<1> QED
  BY <1>3, <1>4

-----------------------------------------------------------------------------
(* Splitting and merging                                                    *)

\* A handler that marks a container and changes nothing else.
LEMMA StoreDone ==
    ASSUME ItemsInv, NEW op, NEW st \in Stores, NEW M \in SUBSET Sections, st \in M,
           Answer(op, TRUE, M), UNCHANGED locks, ground' \subseteq Ground,
           NEW C, WellStored(st, C), data' = With(data, st, C)
    PROVE  Good
<1>1. WellFilled(data)
  BY DEF ItemsInv
<1>2. PICK e : e = data'
  OBVIOUS
<1>3. /\ WellFilled(e) /\ \A u \in Stores \ {st} : e[u] = data[u]
      /\ e.temporary = data.temporary /\ e.alz = data.alz /\ e.currency = data.currency
  BY <1>1, <1>2, StorePut
<1>4. Within(data, data', M) /\ WellFilled(data') /\ data'.temporary = data.temporary
  BY <1>2, <1>3 DEF Within
<1> QED
  BY <1>4, Done, Zenon

LEMMA Joined ==
    ASSUME NEW st, NEW C, WellStored(st, C), NEW D, WellStored(st, D),
           \A x \in C, y \in D : x.slot # y.slot
    PROVE  WellStored(st, C \cup D)
BY DEF WellStored, SlotsOf

\* A stack of n units like x.
Stack(x, s, n) == [x EXCEPT !.slot = s, !.options = WithCount(x.kind, @, n)]

LEMMA StackMade ==
    ASSUME NEW x \in LegalItem, NEW s \in Nat, NEW n \in Nat, x.kind \notin QuestKinds => Legal(x.kind, n)
    PROVE  Stack(x, s, n) \in LegalItem /\ Stack(x, s, n).slot = s
<1> DEFINE o == WithCount(x.kind, x.options, n)
           y == Moves(x, s)
<1>1. x.kind \in Kinds /\ x.options \in Nat
  BY DEF LegalItem, Item
<1>2. o \in Nat /\ Legal(x.kind, o)
  BY <1>1, CountFacts DEF Legal
<1>3. y \in LegalItem /\ y.slot = s /\ y.kind = x.kind
  BY Changed
<1>4. Stack(x, s, n) = Holds(y, o)
  BY DEF Stack, Holds, Moves, LegalItem, Item
<1> HIDE DEF o, y
<1> QED
  BY <1>2, <1>3, <1>4, Restacked

\* Stacks that are like x, in some slots.
Stacks(x, T, f) == {Stack(x, s, f[s]) : s \in T}

LEMMA StacksFacts ==
    ASSUME NEW st \in Stores, NEW x \in LegalItem, NEW T \in SUBSET Slots[st], NEW f,
           \A s \in T : f[s] \in Nat /\ (x.kind \notin QuestKinds => Legal(x.kind, f[s]))
    PROVE  WellStored(st, Stacks(x, T, f)) /\ \A y \in Stacks(x, T, f) : y.slot \in T
<1>1. \A s \in T : Stack(x, s, f[s]) \in LegalItem /\ Stack(x, s, f[s]).slot = s
  BY SlotFacts, StackMade
<1> QED
  BY <1>1 DEF WellStored, SlotsOf, Stacks

\* What is taken from a legal stack is legal, if it is something.
LEMMA LessIsLegal ==
    ASSUME NEW x \in LegalItem, x.kind \notin QuestKinds, NEW n \in Nat, n > 0,
           n <= CountOf(x.kind, x.options)
    PROVE  Legal(x.kind, n)
<1>1. x.kind \in Kinds /\ x.options \in Nat /\ Legal(x.kind, x.options) /\ MaxStack[x.kind] \in Nat
  BY KindAssumption DEF LegalItem, Item
<1>2. CountOf(x.kind, x.options) = x.options
  BY <1>1, CountFacts
<1> QED
  BY <1>1, <1>2 DEF Legal

LEMMA SplitGood ==
    ASSUME ItemsInv, NEW s \in Slots.inventory, NEW n \in 1 .. CountModulus,
           NEW T \in (SUBSET Slots.inventory) \ {{}}, Split(s, n, T)
    PROVE  Good
<1> DEFINE p == [store |-> "inventory", slot |-> s]
           x == ItemAt(data, p)
           left == CountOf(x.kind, x.options) - n * Cardinality(T)
           C == ClearSlot(data.inventory, s)
           D == Stacks(x, T, [t \in T |-> n])
           E == IF left = 0 THEN {} ELSE {Stack(x, s, left)}
           can == /\ At(data.inventory, s) # {} /\ MaxStack[x.kind] >= 1 /\ left >= 0
                  /\ T \cap SlotsOf(data.inventory) = {}
<1>1. WellFilled(data) /\ ground \subseteq Ground /\ "inventory" \in Stores
  BY DEF ItemsInv, Stores
<1>2. WellStored("inventory", data.inventory)
  BY <1>1, Fields
<1>3. CASE Refuse("split")
  BY <1>3, Refused
<1>4. CASE ~Refuse("split")
  <2>1. /\ can /\ Answer("split", TRUE, {"inventory"}) /\ UNCHANGED <<locks, ground>>
        /\ data' = With(data, "inventory", C \cup D \cup E)
    <3>1. {Stack(x, t, n) : t \in T} = D
      BY DEF Stacks
    <3> HIDE DEF D
    <3> QED
      BY <1>4, <3>1 DEF Split, With, Stack
  <2>2. p \in Place /\ p.store = "inventory" /\ p.slot = s
    BY DEF Place, Stores
  <2>3. x \in LegalItem
    BY <1>1, <2>1, <2>2, ItemAtFacts
  <2>4. x.kind \in Kinds /\ x.options \in Nat
    BY <2>3 DEF LegalItem, Item
  <2>5. CountOf(x.kind, x.options) \in Nat
    BY <2>4, CountFacts
  <2>6. T \in SUBSET Slots["inventory"] /\ s \in Slots["inventory"] /\ s \in Nat
    BY SlotFacts, <1>1
  <2>7. Cardinality(T) \in Nat \ {0}
    <3>1. IsFiniteSet(Slots["inventory"])
      BY <1>1, SlotFacts
    <3>2. IsFiniteSet(T)
      BY <2>6, <3>1, FS_Subset
    <3>3. Cardinality(T) \in Nat
      BY <3>2, FS_CardinalityType
    <3>4. Cardinality(T) # 0
      BY <3>2, FS_EmptySet, Zenon
    <3> QED
      BY <3>3, <3>4
  <2>8. n \in Nat /\ n > 0
    BY KindAssumption
  <2>9. /\ left \in Nat /\ left <= CountOf(x.kind, x.options) /\ n <= CountOf(x.kind, x.options)
    <3>1. \A a, b \in Nat : a > 0 /\ b > 0 => a * b >= a /\ a * b \in Nat
      OBVIOUS
    <3>2. n * Cardinality(T) >= n /\ n * Cardinality(T) \in Nat
      BY <2>7, <2>8, <3>1
    <3> HIDE DEF x, p
    <3> QED
      BY <2>1, <2>5, <2>8, <3>2
  <2> HIDE DEF x, p, left
  <2>10. WellStored("inventory", C) /\ \A y \in C : y \in data.inventory /\ y.slot # s
    BY <1>2, Cleared DEF ClearSlot
  <2>11. WellStored("inventory", D) /\ \A y \in D : y.slot \in T
    <3> DEFINE f == [t \in T |-> n]
    <3>1. \A t \in T : f[t] = n /\ t \in Nat
      BY <2>6, SlotFacts, <1>1
    <3>2. x.kind \notin QuestKinds => Legal(x.kind, n)
      BY <2>3, <2>8, <2>9, LessIsLegal
    <3>3. \A t \in T : f[t] \in Nat /\ (x.kind \notin QuestKinds => Legal(x.kind, f[t]))
      BY <2>8, <3>1, <3>2
    <3>4. D = Stacks(x, T, f)
      OBVIOUS
    <3> HIDE DEF f, D
    <3> QED
      BY <1>1, <2>3, <2>6, <3>3, <3>4, StacksFacts
  <2>12. WellStored("inventory", E) /\ \A y \in E : y.slot = s
    <3>1. ASSUME left # 0
          PROVE  Stack(x, s, left) \in LegalItem /\ Stack(x, s, left).slot = s
      <4>1. x.kind \notin QuestKinds => Legal(x.kind, left)
        BY <2>3, <2>9, <3>1, LessIsLegal
      <4> QED
        BY <2>3, <2>6, <2>9, <4>1, StackMade
    <3> QED
      BY <2>6, <3>1 DEF WellStored, SlotsOf
  <2>13. s \notin T
    BY <2>1 DEF At, SlotsOf
  <2> HIDE DEF C, D, E
  <2>14. WellStored("inventory", C \cup D)
    BY <2>1, <2>10, <2>11, Joined DEF SlotsOf
  <2>15. WellStored("inventory", C \cup D \cup E)
    BY <2>10, <2>11, <2>12, <2>13, <2>14, Joined
  <2>16. {"inventory"} \in SUBSET Sections
    BY DEF Sections, Stores
  <2> QED
    BY <1>1, <2>1, <2>15, <2>16, StoreDone
<1> QED
  BY <1>3, <1>4

LEMMA MergeGood ==
    ASSUME ItemsInv, NEW S \in (SUBSET SlotsOf(data.inventory)) \ {{}},
           NEW T \in SUBSET (S \cup (Slots.inventory \ SlotsOf(data.inventory))),
           NEW result \in [T -> 1 .. CountModulus], Merge(S, result)
    PROVE  Good
<1> DEFINE merged == {x \in data.inventory : x.slot \in S}
           first == CHOOSE x \in merged : TRUE
           C == data.inventory \ merged
           D == Stacks(first, T, result)
<1>1. WellFilled(data) /\ ground \subseteq Ground /\ "inventory" \in Stores
  BY DEF ItemsInv, Stores
<1>2. WellStored("inventory", data.inventory)
  BY <1>1, Fields
<1>3. CASE Refuse("merge")
  BY <1>3, Refused
<1>4. CASE ~Refuse("merge")
  <2>1. /\ Answer("merge", TRUE, {"inventory"}) /\ UNCHANGED <<locks, ground>>
        /\ data' = With(data, "inventory", C \cup D)
        /\ \A s \in T : result[s] <= MaxStack[first.kind]
    <3>1. DOMAIN result = T
      OBVIOUS
    <3> QED
      BY <1>4, <3>1 DEF Merge, With, Stack, Stacks
  <2>2. merged # {}
    BY DEF SlotsOf
  <2>3. first \in merged
    BY <2>2
  <2> HIDE DEF first
  <2>4. first \in LegalItem
    BY <1>2, <2>3 DEF WellStored
  <2>5. T \in SUBSET Slots["inventory"]
    BY <1>2 DEF WellStored
  <2>6. \A s \in T : result[s] \in Nat /\ (first.kind \notin QuestKinds => Legal(first.kind, result[s]))
    BY <2>1, KindAssumption DEF Legal
  <2>7. WellStored("inventory", C)
    BY <1>2, PartStored
  <2>9. WellStored("inventory", D) /\ \A y \in D : y.slot \in T
    <3> HIDE DEF C, merged
    <3> QED
      BY <1>1, <2>4, <2>5, <2>6, StacksFacts
  <2> HIDE DEF D
  <2>10. \A y \in C : y.slot \notin T
    BY DEF SlotsOf
  <2> HIDE DEF C
  <2>11. WellStored("inventory", C \cup D)
    BY <2>7, <2>9, <2>10, Joined
  <2>12. {"inventory"} \in SUBSET Sections
    BY DEF Sections, Stores
  <2> QED
    BY <1>1, <2>1, <2>11, <2>12, StoreDone
<1> QED
  BY <1>3, <1>4

-----------------------------------------------------------------------------
(* Sorting                                                                  *)

LEMMA SortedStored ==
    ASSUME NEW st \in Stores, NEW C, WellStored(st, C),
           NEW n \in Nat, NEW list \in [1 .. n -> Slots[st]], IsInjective(list),
           ToSet(list) \subseteq SlotsOf(C)
    PROVE  WellStored(st, Sorted(C, list, Slots[st]))
<1> DEFINE slots == Slots[st]
           U == {s \in SlotsOf(C) : s \notin ToSet(list)}
           free == slots \ U
           nth(k) == CHOOSE s \in free : Cardinality({t \in free : t < s}) = k - 1
           index(x) == CHOOSE k \in DOMAIN list : list[k] = x.slot
           new(x) == IF x.slot \in ToSet(list) THEN nth(index(x)) ELSE x.slot
           D == {[x EXCEPT !.slot = new(x)] : x \in C}
<1>1. D = Sorted(C, list, slots)
  BY DEF Sorted
<1>2. slots \subseteq Nat /\ IsFiniteSet(slots) /\ SlotsOf(C) \subseteq slots
  BY SlotFacts DEF WellStored
<1>3. free \in SUBSET Nat /\ IsFiniteSet(free)
  BY <1>2, FS_Difference
<1>4. n <= Cardinality(free)
  <2>1. \A k \in 1 .. n : list[k] \in free
    BY <1>2 DEF ToSet
  <2> HIDE DEF free
  <2>2. list \in Injection(1 .. n, free)
    BY <2>1 DEF Injection, IsInjective
  <2>3. Cardinality(1 .. n) = n
    BY FS_Interval
  <2> QED
    BY <1>3, <2>2, <2>3, FS_Injection
<1>5. ASSUME NEW k \in 1 .. n
      PROVE  nth(k) \in free /\ Cardinality(Below(free, nth(k))) = k - 1
  <2> HIDE DEF free
  <2>1. Cardinality(free) \in Nat
    BY <1>3, FS_CardinalityType
  <2>2. k - 1 \in Nat /\ k - 1 < Cardinality(free)
    BY <1>4, <2>1
  <2>3. \E s \in free : Cardinality(Below(free, s)) = k - 1
    BY <1>3, <2>2, NthExists
  <2> QED
    BY <2>3 DEF Below
<1>6. \A j, k \in 1 .. n : nth(j) = nth(k) => j = k
  <2> SUFFICES ASSUME NEW j \in 1 .. n, NEW k \in 1 .. n, nth(j) = nth(k) PROVE j = k
    OBVIOUS
  <2>1. j - 1 = k - 1
    BY <1>5
  <2> QED
    BY <2>1
<1>7. \A x \in C : x.slot \in ToSet(list) => index(x) \in 1 .. n /\ list[index(x)] = x.slot
  BY DEF ToSet
<1>8. \A x \in C : x \in LegalItem /\ x.slot \in slots
  BY DEF WellStored, SlotsOf
<1> HIDE DEF nth, index
<1>9. \A x \in C : new(x) \in slots /\ (new(x) \in U <=> x.slot \notin ToSet(list))
  BY <1>5, <1>7, <1>8 DEF SlotsOf
<1>10. \A x, y \in C : new(x) = new(y) => x = y
  <2> SUFFICES ASSUME NEW x \in C, NEW y \in C, new(x) = new(y) PROVE x = y
    OBVIOUS
  <2>1. x.slot = y.slot
    <3>1. CASE x.slot \notin ToSet(list)
      <4>1. y.slot \notin ToSet(list)
        BY <1>9, <3>1
      <4> QED
        BY <3>1, <4>1
    <3>2. CASE x.slot \in ToSet(list)
      <4>1. y.slot \in ToSet(list)
        BY <1>9, <3>2
      <4>2. index(x) = index(y)
        BY <1>6, <1>7, <3>2, <4>1
      <4> QED
        BY <1>7, <3>2, <4>1, <4>2
    <3> QED
      BY <3>1, <3>2
  <2> QED
    BY <2>1 DEF WellStored
<1> HIDE DEF new, U
<1>11. \A x \in C : Moves(x, new(x)) \in LegalItem /\ Moves(x, new(x)).slot = new(x)
  BY <1>2, <1>8, <1>9, Changed
<1>12. D = {Moves(x, new(x)) : x \in C}
  BY DEF Moves
<1> HIDE DEF D
<1>13. WellStored(st, D)
  BY <1>9, <1>10, <1>11, <1>12 DEF WellStored, SlotsOf
<1> QED
  BY <1>1, <1>13

LEMMA SortGood ==
    ASSUME ItemsInv, NEW st \in {"inventory", "warehouse"}, NEW list \in SlotLists(Slots[st]),
           Sort(st, list)
    PROVE  Good
<1>1. WellFilled(data) /\ ground \subseteq Ground /\ st \in Stores
  BY DEF ItemsInv, Stores
<1>2. CASE Refuse("sort")
  BY <1>2, Refused
<1>3. CASE ~Refuse("sort")
  <2> DEFINE C == Sorted(data[st], list, Slots[st])
  <2>1. /\ Answer("sort", TRUE, {st}) /\ UNCHANGED <<locks, ground>> /\ data' = With(data, st, C)
        /\ ToSet(list) \subseteq SlotsOf(data[st])
    BY <1>3 DEF Sort, With
  <2>2. PICK n \in 0 .. MaxList : list \in [1 .. n -> Slots[st]]
    BY DEF SlotLists
  <2>3. IsInjective(list) /\ n \in Nat
    BY DEF SlotLists
  <2>4. WellStored(st, data[st])
    BY <1>1, Fields
  <2>5. WellStored(st, C)
    BY <1>1, <2>1, <2>2, <2>3, <2>4, SortedStored
  <2> HIDE DEF C
  <2>6. {st} \in SUBSET Sections
    BY <1>1 DEF Sections
  <2> QED
    BY <1>1, <2>1, <2>5, <2>6, StoreDone
<1> QED
  BY <1>2, <1>3

-----------------------------------------------------------------------------
(* Pushing                                                                  *)

LEMMA FindNextFacts ==
    ASSUME NEW kind \in Kinds, NEW from \in Int
    PROVE  FindNext(kind, from) = -1 \/ FindNext(kind, from) \in Suits[kind]
<1> DEFINE S == {s \in Suits[kind] \ locks : s >= from}
<1>1. S \in SUBSET Nat
  BY SlotAssumption
<1>2. S = {} \/ Min(S) \in S
  <2> HIDE DEF S
  <2> QED
    BY <1>1, MinFacts
<1> QED
  BY <1>2 DEF FindNext

\* What a round of the loop works on: the equipment, at most one item in the hand,
\* and a slot of the kind or the end.
PushState(kind) ==
    {r \in [equipment : SUBSET LegalItem, hand : SUBSET LegalItem, next : Int] :
        /\ WellStored("equipment", r.equipment)
        /\ \A x, y \in r.hand : x = y
        /\ r.next = -1 \/ r.next \in Suits[kind]}

LEMMA PushRoundFacts ==
    ASSUME NEW kind \in Kinds, NEW r \in PushState(kind), ~(r.next < 0)
    PROVE  PushRound(kind, r) \in PushState(kind)
<1> DEFINE idle == r.hand = {}
           hand == IF idle THEN At(r.equipment, r.next) ELSE r.hand
           rest == IF idle THEN ClearSlot(r.equipment, r.next) ELSE r.equipment
           to   == IF idle THEN FindNext(kind, r.next + 1) ELSE r.next
           put  == {Moves(x, to) : x \in hand}
           full == ClearSlot(rest, to) \cup put
<1>1. /\ WellStored("equipment", r.equipment) /\ r.hand \in SUBSET LegalItem
      /\ \A x, y \in r.hand : x = y
      /\ r.next \in Suits[kind]
      /\ r = [equipment |-> r.equipment, hand |-> r.hand, next |-> r.next]
  BY DEF PushState
<1>2. Suits[kind] \subseteq Slots["equipment"] /\ Suits[kind] \subseteq Nat
  BY SlotAssumption, BoundAssumption DEF Slots
<1>3. r.next \in Nat /\ r.next + 1 \in Int /\ 0 \in Int
  BY <1>1, <1>2
<1>4. WellStored("equipment", rest)
  BY <1>1, Cleared
<1>5. hand \in SUBSET LegalItem /\ \A x, y \in hand : x = y
  BY <1>1 DEF WellStored, At
<1>6. to = -1 \/ to \in Suits[kind]
  BY <1>1, <1>3, FindNextFacts
<1>7. FindNext(kind, 0) = -1 \/ FindNext(kind, 0) \in Suits[kind]
  BY <1>3, FindNextFacts
<1>8. PushRound(kind, r) =
        IF hand = {} THEN [equipment |-> r.equipment, hand |-> r.hand, next |-> -1]
        ELSE IF to < 0 THEN [equipment |-> rest, hand |-> hand, next |-> FindNext(kind, 0)]
        ELSE [equipment |-> full, hand |-> At(rest, to), next |-> FindNext(kind, to + 1)]
  <2>1. [r EXCEPT !.next = -1] = [equipment |-> r.equipment, hand |-> r.hand, next |-> -1]
    BY <1>1
  <2>2. put = {[x EXCEPT !.slot = to] : x \in hand}
    BY DEF Moves
  <2> HIDE DEF put
  <2> QED
    BY <2>1, <2>2 DEF PushRound
<1> HIDE DEF rest, hand, to, put
<1>9. ASSUME to \in Suits[kind]
      PROVE  /\ WellStored("equipment", full)
             /\ At(rest, to) \in SUBSET LegalItem /\ \A x, y \in At(rest, to) : x = y
             /\ FindNext(kind, to + 1) = -1 \/ FindNext(kind, to + 1) \in Suits[kind]
  <2>1. to \in Slots["equipment"] /\ to \in Nat /\ to + 1 \in Int
    BY <1>2, <1>9
  <2>2. \A x \in hand : Moves(x, to) \in LegalItem /\ Moves(x, to).slot = to
    BY <1>5, <2>1, Changed
  <2>3. WellStored("equipment", ClearSlot(rest, to)) /\ At(ClearSlot(rest, to), to) = {}
    BY <1>4, Cleared
  <2>4. WellStored("equipment", full)
    <3>1. CASE hand = {}
      BY <2>3, <3>1 DEF put
    <3>2. CASE hand # {}
      <4>1. PICK x \in hand : hand = {x}
        BY <1>5, <3>2
      <4>2. full = ClearSlot(rest, to) \cup {Moves(x, to)}
        BY <4>1 DEF put
      <4>3. PICK y : y = Moves(x, to)
        OBVIOUS
      <4>4. y \in LegalItem /\ y.slot = to
        BY <2>2, <4>3
      <4>5. WellStored("equipment", ClearSlot(rest, to) \cup {y})
        BY <2>1, <2>3, <4>4, Placed
      <4> QED
        BY <4>2, <4>3, <4>5
    <3> QED
      BY <3>1, <3>2
  <2>5. At(rest, to) \in SUBSET LegalItem /\ \A x, y \in At(rest, to) : x = y
    BY <1>4 DEF WellStored, At
  <2>6. FindNext(kind, to + 1) = -1 \/ FindNext(kind, to + 1) \in Suits[kind]
    BY <2>1, FindNextFacts
  <2> QED
    BY <2>4, <2>5, <2>6
<1>10. \A st, C : WellStored(st, C) => C \in SUBSET LegalItem
  BY DEF WellStored
<1>11. \A s : s = -1 \/ s \in Suits[kind] => s \in Int
  BY <1>2
<1> HIDE DEF full
<1>12. CASE hand = {}
  BY <1>1, <1>8, <1>12, <1>10, <1>11 DEF PushState
<1>13. CASE hand # {} /\ to < 0
  BY <1>4, <1>5, <1>7, <1>8, <1>13, <1>10, <1>11 DEF PushState
<1>14. CASE hand # {} /\ ~(to < 0)
  <2>1. to \in Suits[kind]
    BY <1>6, <1>14
  <2> QED
    BY <2>1, <1>8, <1>9, <1>14, <1>10, <1>11 DEF PushState
<1> QED
  BY <1>12, <1>13, <1>14

LEMMA PushedFacts ==
    ASSUME ItemsInv, NEW kind \in Kinds
    PROVE  /\ WellStored("equipment", Pushed(kind).equipment)
           /\ Pushed(kind).hand \in SUBSET LegalItem /\ \A x, y \in Pushed(kind).hand : x = y
<1> DEFINE X == PushState(kind)
           a == [equipment |-> data.equipment, hand |-> {}, next |-> FindNext(kind, 0)]
           last == 2 * Cardinality(Suits[kind])
           F == [z \in (1 .. last) \X X |-> IF z[2].next < 0 THEN z[2] ELSE PushRound(kind, z[2])]
<1>1. last \in Nat
  <2>1. IsFiniteSet(Suits[kind])
    BY BoundAssumption, FS_Subset
  <2> QED
    BY <2>1, FS_CardinalityType
<1> HIDE DEF last
<1>2. a \in X
  <2>1. WellStored("equipment", data.equipment) /\ data.equipment \in SUBSET LegalItem
    BY Fields DEF ItemsInv, Stores
  <2>2. FindNext(kind, 0) = -1 \/ FindNext(kind, 0) \in Suits[kind]
    BY FindNextFacts
  <2>3. FindNext(kind, 0) \in Int
    BY <2>2, SlotAssumption
  <2> QED
    BY <2>1, <2>2, <2>3 DEF PushState
<1>3. F \in StepRules(last, X)
  <2>1. \A r \in X : (IF r.next < 0 THEN r ELSE PushRound(kind, r)) \in X
    BY PushRoundFacts
  <2> HIDE DEF X
  <2> QED
    BY <2>1 DEF StepRules
<1> HIDE DEF a
<1>4. PICK f : Follows(f, last, X, a, F)
  <2> HIDE DEF X, F
  <2> QED
    BY <1>1, <1>2, <1>3, StepsExist
<1>5. \A n \in 1 .. last : f[n] = IF f[n - 1].next < 0 THEN f[n - 1] ELSE PushRound(kind, f[n - 1])
  <2> HIDE DEF X
  <2>1. \A n \in 1 .. last : n - 1 \in 0 .. last
    BY <1>1
  <2>2. f \in [0 .. last -> X] /\ \A n \in 1 .. last : f[n] = F[<<n, f[n - 1]>>]
    BY <1>4 DEF Follows
  <2> QED
    BY <2>1, <2>2
<1>6. f = [n \in 0 .. last |-> IF n = 0 THEN a
                               ELSE IF f[n - 1].next < 0 THEN f[n - 1]
                               ELSE PushRound(kind, f[n - 1])]
  <2> HIDE DEF X, F
  <2> QED
    BY <1>1, <1>4, <1>5 DEF Follows
<1>7. PICK g : g = PushRounds(kind, last)
  OBVIOUS
<1>8. g = [n \in 0 .. last |-> IF n = 0 THEN a
                               ELSE IF g[n - 1].next < 0 THEN g[n - 1]
                               ELSE PushRound(kind, g[n - 1])]
  BY <1>6, <1>7, Zenon DEF PushRounds, a
<1>9. 0 .. last \subseteq {n \in 0 .. last : g[n] \in X}
  <2> DEFINE T == {n \in 0 .. last : g[n] \in X}
  <2>1. 0 \in T
    BY <1>1, <1>2, <1>8
  <2>2. \A n \in 1 .. last : n - 1 \in T => n \in T
    <3> SUFFICES ASSUME NEW n \in 1 .. last, g[n - 1] \in X PROVE g[n] \in X
      OBVIOUS
    <3>1. g[n] = IF g[n - 1].next < 0 THEN g[n - 1] ELSE PushRound(kind, g[n - 1])
      BY <1>1, <1>8
    <3> QED
      BY <3>1, PushRoundFacts
  <2> HIDE DEF T
  <2>3. 0 .. last \subseteq T
    BY <1>1, <2>1, <2>2, StepByStep
  <2> QED
    BY <2>3 DEF T
<1>10. Pushed(kind) \in X
  BY <1>1, <1>7, <1>9 DEF Pushed, last
<1> QED
  BY <1>10 DEF PushState

LEMMA PushEquipmentGood ==
    ASSUME ItemsInv, NEW left \in Slots.inventory, NEW right \in Slots.inventory,
           PushEquipment(left, right)
    PROVE  Good
<1> DEFINE p == [store |-> "inventory", slot |-> left]
           x == ItemAt(data, p)
           first == FindNext(x.kind, 0)
           end == Pushed(x.kind)
           rest == ClearSlot(data.inventory, left)
           E == end.equipment \cup {Moves(x, first)}
           I == rest \cup {Moves(y, right) : y \in end.hand}
<1>1. CASE Refuse("push") \/ Abort("push")
  BY <1>1, Refused
<1>2. CASE ~(Refuse("push") \/ Abort("push"))
  <2>1. WellFilled(data) /\ ground \subseteq Ground /\ "inventory" \in Stores /\ "equipment" \in Stores
    BY DEF ItemsInv, Stores
  <2>2. WellStored("inventory", data.inventory)
    BY <2>1, Fields
  <2>3. /\ At(data.inventory, left) # {} /\ first >= 0
        /\ right = left \/ At(data.inventory, right) = {}
        /\ At(end.equipment, first) = {}
        /\ Answer("push", TRUE, {"equipment", "inventory"})
        /\ data' = With(With(data, "equipment", E), "inventory", I)
        /\ UNCHANGED <<locks, ground>>
    <3>1. /\ {Moves(x, first)} = {[x EXCEPT !.slot = first]}
          /\ {Moves(y, right) : y \in end.hand} = {[y EXCEPT !.slot = right] : y \in end.hand}
      BY DEF Moves
    <3> HIDE DEF x, end, first
    <3> QED
      BY <1>2, <3>1 DEF PushEquipment, With, x, end, first
  <2>4. p \in Place /\ p.store = "inventory" /\ p.slot = left
    BY DEF Place, Stores
  <2>5. x \in LegalItem /\ x.slot = left
    BY <2>1, <2>3, <2>4, ItemAtFacts
  <2>6. x.kind \in Kinds
    BY <2>5 DEF LegalItem, Item
  <2>7. /\ WellStored("equipment", end.equipment)
        /\ end.hand \in SUBSET LegalItem /\ \A y, z \in end.hand : y = z
    BY <2>6, PushedFacts
  <2>8. first \in Slots["equipment"] /\ first \in Nat /\ right \in Nat
    <3>1. first \in Suits[x.kind]
      BY <2>3, <2>6, FindNextFacts
    <3>2. Suits[x.kind] \subseteq Slots["equipment"]
      BY <2>6, BoundAssumption, SlotFacts
    <3> QED
      BY <2>1, <3>1, <3>2, SlotFacts
  <2> HIDE DEF x, end, first
  <2>9. WellStored("equipment", E)
    <3>1. PICK y : y = Moves(x, first)
      OBVIOUS
    <3>2. y \in LegalItem /\ y.slot = first
      BY <2>5, <2>8, <3>1, Changed
    <3>3. WellStored("equipment", end.equipment \cup {y})
      BY <2>3, <2>7, <2>8, <3>2, Placed
    <3> QED
      BY <3>1, <3>3
  <2>10. WellStored("inventory", rest) /\ At(rest, left) = {} /\ rest \subseteq data.inventory
    BY <2>2, Cleared DEF ClearSlot
  <2>11. At(rest, right) = {}
    BY <2>3, <2>10 DEF At
  <2> HIDE DEF rest, E
  <2>12. WellStored("inventory", I)
    <3>1. CASE end.hand = {}
      <4>1. I = rest
        BY <3>1
      <4> QED
        BY <2>10, <4>1
    <3>2. CASE end.hand # {}
      <4>1. PICK y \in end.hand : end.hand = {y}
        BY <2>7, <3>2
      <4>2. PICK z : z = Moves(y, right)
        OBVIOUS
      <4>3. I = rest \cup {z}
        BY <4>1, <4>2
      <4>4. z \in LegalItem /\ z.slot = right
        BY <2>7, <2>8, <4>1, <4>2, Changed
      <4>5. right \in Slots["inventory"]
        OBVIOUS
      <4>6. WellStored("inventory", rest \cup {z})
        BY <2>10, <2>11, <4>4, <4>5, Placed
      <4> QED
        BY <4>3, <4>6
    <3> QED
      BY <3>1, <3>2
  <2> HIDE DEF I
  <2>13. PICK d, e : d = With(data, "equipment", E) /\ e = data'
    OBVIOUS
  <2>14. /\ WellFilled(d) /\ \A u \in Stores \ {"equipment"} : d[u] = data[u]
         /\ d.temporary = data.temporary /\ d.alz = data.alz /\ d.currency = data.currency
    BY <2>1, <2>9, <2>13, StorePut
  <2>15. e = With(d, "inventory", I)
    BY <2>3, <2>13
  <2>16. /\ WellFilled(e) /\ \A u \in Stores \ {"inventory"} : e[u] = d[u]
         /\ e.temporary = d.temporary /\ e.alz = d.alz /\ e.currency = d.currency
    BY <2>1, <2>12, <2>14, <2>15, StorePut
  <2>17. {"equipment", "inventory"} \in SUBSET Sections
    BY DEF Sections, Stores
  <2>18. /\ Within(data, data', {"equipment", "inventory"}) /\ WellFilled(data')
         /\ data'.temporary = data.temporary
    BY <2>13, <2>14, <2>16 DEF Within
  <2> QED
    BY <2>1, <2>3, <2>17, <2>18, Done
<1> QED
  BY <1>1, <1>2

LEMMA LockEquipmentGood ==
    ASSUME ItemsInv, NEW s \in Lockable, NEW locked \in BOOLEAN, LockEquipment(s, locked)
    PROVE  Good
<1>1. PICK M : M = IF locks' = locks THEN {} ELSE {"equipment"}
  OBVIOUS
<1>2. /\ reply' = [op |-> "lock", ok |-> TRUE] /\ marked' = M
      /\ status' \in {"online", "offline", "aborted"} /\ data' = data /\ ground' = ground
  BY <1>1 DEF LockEquipment, Answer
<1>3. locks' \subseteq EquipmentSlots
  BY BoundAssumption DEF LockEquipment, ItemsInv
<1>4. M \in SUBSET Sections
  BY <1>1 DEF Sections, Stores
<1>5. WellFilled(data') /\ ground' \subseteq Ground /\ Within(data, data', M)
  BY <1>2 DEF ItemsInv, Within
<1>6. locks' # locks => "equipment" \in M
  BY <1>1
<1> QED
  BY <1>2, <1>3, <1>4, <1>5, <1>6, Answered

-----------------------------------------------------------------------------
(* The ground and the money                                                 *)

LEMMA DropGood ==
    ASSUME ItemsInv, NEW p \in Place, Drop(p)
    PROVE  Good
<1>1. CASE Refuse("drop")
  BY <1>1, Refused
<1>2. CASE ~Refuse("drop")
  <2> DEFINE x == ItemAt(data, p)
             g == [handle |-> Min(Free), kind |-> x.kind, options |-> x.options]
             C == ClearSlot(data[p.store], p.slot)
  <2>1. /\ At(data[p.store], p.slot) # {} /\ Free # {} /\ Answer("drop", TRUE, {p.store})
        /\ ground' = ground \cup {g} /\ data' = With(data, p.store, C) /\ UNCHANGED locks
    BY <1>2 DEF Drop, With
  <2>2. WellFilled(data) /\ ground \subseteq Ground /\ p.store \in Stores
    BY PlaceFacts DEF ItemsInv
  <2>3. x \in LegalItem
    BY <2>1, <2>2, ItemAtFacts
  <2>4. Min(Free) \in 1 .. MaxGround
    <3>1. Free \in SUBSET Nat /\ Free \subseteq 1 .. MaxGround
      BY DEF Free, Handle
    <3> QED
      BY <2>1, <3>1, MinFacts
  <2> HIDE DEF x
  <2>5. g \in Ground
    BY <2>3, <2>4 DEF Ground, LegalItem, Item
  <2>6. WellStored(p.store, C)
    BY <2>2, Fields, Cleared
  <2> HIDE DEF g, C
  <2>7. ground' \subseteq Ground /\ {p.store} \in SUBSET Sections
    BY <2>1, <2>2, <2>5 DEF Sections
  <2> QED
    BY <2>1, <2>2, <2>6, <2>7, StoreDone
<1> QED
  BY <1>1, <1>2

LEMMA LootGood ==
    ASSUME ItemsInv, NEW g \in ground, NEW s \in Slots.inventory, Loot(g, s)
    PROVE  Good
<1> DEFINE x == [slot |-> s, kind |-> g.kind, options |-> g.options]
           ok == Fits("inventory", data.inventory, x)
           C == SetSlot(data.inventory, x)
           M == {"info", "inventory"}
<1>1. /\ WellFilled(data) /\ ground' \subseteq Ground /\ "inventory" \in Stores
      /\ s \in Slots["inventory"] /\ UNCHANGED locks
  BY DEF ItemsInv, Stores, Loot
<1>2. /\ Answer("loot", ok, M)
      /\ data' = IF ok THEN With(data, "inventory", C) ELSE data
  BY DEF Loot, With
<1>3. x \in LegalItem /\ x.slot = s
  <2>1. g \in Ground /\ s \in Nat
    BY <1>1, SlotFacts DEF ItemsInv
  <2> QED
    BY <2>1 DEF Ground, LegalItem, Item
<1>4. WellStored("inventory", data.inventory)
  BY <1>1, Fields
<1>5. M \in SUBSET Sections /\ "inventory" \in M
  BY DEF Sections, Stores
<1> HIDE DEF x, M
<1>6. CASE ok
  <2>1. WellStored("inventory", C)
    BY <1>1, <1>3, <1>4, <1>6, SetSlotStored
  <2>2. Answer("loot", TRUE, M) /\ data' = With(data, "inventory", C)
    <3>1. ok = TRUE
      BY <1>6 DEF Fits
    <3> HIDE DEF ok
    <3> QED
      BY <1>2, <3>1
  <2> HIDE DEF C
  <2> QED
    BY <1>1, <1>5, <2>1, <2>2, StoreDone
<1>7. CASE ~ok
  <2>1. Answer("loot", FALSE, M) /\ data' = data
    <3>1. ok = FALSE
      BY <1>7 DEF Fits
    <3> HIDE DEF ok
    <3> QED
      BY <1>2, <3>1
  <2>2. Within(data, data', M) /\ WellFilled(data')
    BY <1>1, <2>1 DEF Within
  <2> QED
    BY <1>1, <1>5, <2>1, <2>2, Done
<1> QED
  BY <1>6, <1>7

Purse(d, a, c) == [d EXCEPT !.alz = a, !.currency = c]

LEMMA PurseFilled ==
    ASSUME NEW d, WellFilled(d), NEW a \in Nat, NEW c \in Nat, NEW e, e = Purse(d, a, c)
    PROVE  WellFilled(e) /\ e.temporary = d.temporary /\ \A u \in Stores : e[u] = d[u]
<1>1. /\ e = [f \in DOMAIN e |-> e[f]] /\ DOMAIN e = DOMAIN d
      /\ e.alz = a /\ e.currency = c /\ e.temporary = d.temporary
      /\ \A u \in Stores : e[u] = d[u]
  BY Fields DEF Purse, Stores
<1>2. \A u \in Stores : WellStored(u, e[u])
  BY <1>1, Fields
<1> QED
  BY <1>1, <1>2, Fields, Filled

LEMMA MoneyDone ==
    ASSUME ItemsInv, NEW op, Answer(op, TRUE, {"info", "warehouse"}), UNCHANGED <<locks, ground>>,
           NEW a \in Nat, NEW c \in Nat, data' = Purse(data, a, c)
    PROVE  Good
<1>1. PICK e : e = data'
  OBVIOUS
<1>2. WellFilled(data) /\ ground' \subseteq Ground
  BY DEF ItemsInv
<1>3. WellFilled(e) /\ e.temporary = data.temporary /\ \A u \in Stores : e[u] = data[u]
  BY <1>1, <1>2, PurseFilled
<1>4. {"info", "warehouse"} \in SUBSET Sections
  BY DEF Sections, Stores
<1>5. Within(data, data', {"info", "warehouse"}) /\ WellFilled(data') /\ data'.temporary = data.temporary
  BY <1>1, <1>3 DEF Within
<1> QED
  BY <1>2, <1>4, <1>5, Done

LEMMA DepositGood ==
    ASSUME ItemsInv, NEW amount \in 1 .. MaxAmount, Deposit(amount)
    PROVE  Good
<1>1. CASE Refuse("deposit")
  BY <1>1, Refused
<1>2. CASE ~Refuse("deposit")
  <2> DEFINE fromPurse == data.alz > amount + MinimumTax
             a == data.alz - amount - (IF fromPurse THEN MinimumTax ELSE 0)
             c == data.currency + amount - (IF fromPurse THEN 0 ELSE MinimumTax)
  <2>1. /\ data.alz >= amount /\ Answer("deposit", TRUE, {"info", "warehouse"})
        /\ data' = Purse(data, a, c) /\ UNCHANGED <<locks, ground>>
    BY <1>2 DEF Deposit, Purse
  <2>2. data.alz \in Nat /\ data.currency \in Nat
    BY Fields DEF ItemsInv
  <2>3. a \in Nat /\ c \in Nat
    BY <2>1, <2>2 DEF MinimumTax
  <2> HIDE DEF a, c
  <2> QED
    BY <2>1, <2>3, MoneyDone
<1> QED
  BY <1>1, <1>2

LEMMA WithdrawGood ==
    ASSUME ItemsInv, NEW amount \in 1 .. MaxAmount, Withdraw(amount)
    PROVE  Good
<1>1. CASE Refuse("withdraw")
  BY <1>1, Refused
<1>2. CASE ~Refuse("withdraw")
  <2> DEFINE a == data.alz + amount
             c == data.currency - amount
  <2>1. /\ data.currency >= amount /\ Answer("withdraw", TRUE, {"info", "warehouse"})
        /\ data' = Purse(data, a, c) /\ UNCHANGED <<locks, ground>>
    BY <1>2 DEF Withdraw, Purse
  <2>2. data.alz \in Nat /\ data.currency \in Nat
    BY Fields DEF ItemsInv
  <2>3. a \in Nat /\ c \in Nat
    BY <2>1, <2>2
  <2> HIDE DEF a, c
  <2> QED
    BY <2>1, <2>3, MoneyDone
<1> QED
  BY <1>1, <1>2

-----------------------------------------------------------------------------
(* The temporary inventory                                                  *)

LEMMA PlaceOfFacts ==
    ASSUME NEW t \in Seq(LegalItem), NEW s
    PROVE  PlaceOf(t, s) = 0 \/ (PlaceOf(t, s) \in 1 .. Len(t) /\ t[PlaceOf(t, s)].slot = s)
<1> DEFINE I == {i \in 1 .. Len(t) : t[i].slot = s}
<1>1. PlaceOf(t, s) = IF I # {} THEN Min(I) ELSE 0
  BY DEF PlaceOf, SelectInSeq
<1>2. I \in SUBSET Nat
  OBVIOUS
<1>3. I # {} => Min(I) \in I
  <2> HIDE DEF I
  <2> QED
    BY <1>2, MinFacts
<1> QED
  BY <1>1, <1>3

LEMMA Inserted ==
    ASSUME NEW t \in Seq(LegalItem), NEW k \in 1 .. Len(t), NEW x \in LegalItem
    PROVE  InsertAt(t, k, x) \in Seq(LegalItem) /\ Len(InsertAt(t, k, x)) = Len(t) + 1
<1>1. /\ SubSeq(t, 1, k - 1) \in Seq(LegalItem) /\ Len(SubSeq(t, 1, k - 1)) = k - 1
      /\ SubSeq(t, k, Len(t)) \in Seq(LegalItem) /\ Len(SubSeq(t, k, Len(t))) = Len(t) - k + 1
  <2>1. k \in Nat /\ Len(t) \in Nat /\ k >= 1 /\ k <= Len(t)
    OBVIOUS
  <2>2. \A i \in 1 .. k - 1 : i \in 1 .. Len(t)
    BY <2>1
  <2>3. \A i \in k .. Len(t) : i \in 1 .. Len(t)
    BY <2>1
  <2> QED
    BY <2>1, <2>2, <2>3, SubSeqProperties
<1>2. <<x>> \in Seq(LegalItem) /\ Len(<<x>>) = 1
  OBVIOUS
<1>3. PICK a, b, c : a = SubSeq(t, 1, k - 1) /\ b = <<x>> /\ c = SubSeq(t, k, Len(t))
  OBVIOUS
<1>4. a \o b \o c \in Seq(LegalItem) /\ Len(a \o b \o c) = Len(a) + Len(b) + Len(c)
  BY <1>1, <1>2, <1>3
<1> QED
  <2>1. InsertAt(t, k, x) = a \o b \o c
    BY <1>3, Zenon DEF InsertAt
  <2>2. Len(a) = k - 1 /\ Len(b) = 1 /\ Len(c) = Len(t) - k + 1
    BY <1>1, <1>2, <1>3, Zenon
  <2>3. Len(t) \in Nat
    OBVIOUS
  <2>4. Len(a) + Len(b) + Len(c) = Len(t) + 1
    BY <2>2, <2>3
  <2> QED
    BY <1>1, <1>2, <1>3, <1>4, <2>1, <2>4, Zenon

LEMMA Removed ==
    ASSUME NEW t \in Seq(LegalItem), NEW k \in 1 .. Len(t)
    PROVE  RemoveAt(t, k) \in Seq(LegalItem) /\ Len(RemoveAt(t, k)) <= Len(t)
<1>1. /\ SubSeq(t, 1, k - 1) \in Seq(LegalItem) /\ Len(SubSeq(t, 1, k - 1)) = k - 1
      /\ SubSeq(t, k + 1, Len(t)) \in Seq(LegalItem) /\ Len(SubSeq(t, k + 1, Len(t))) = Len(t) - k
  <2>1. k \in Nat /\ Len(t) \in Nat /\ k >= 1 /\ k <= Len(t)
    OBVIOUS
  <2>2. \A i \in 1 .. k - 1 : i \in 1 .. Len(t)
    BY <2>1
  <2>3. \A i \in k + 1 .. Len(t) : i \in 1 .. Len(t)
    BY <2>1
  <2> QED
    BY <2>1, <2>2, <2>3, SubSeqProperties
<1>2. PICK a, c : a = SubSeq(t, 1, k - 1) /\ c = SubSeq(t, k + 1, Len(t))
  OBVIOUS
<1>3. a \o c \in Seq(LegalItem) /\ Len(a \o c) = Len(a) + Len(c)
  BY <1>1, <1>2
<1> QED
  <2>1. RemoveAt(t, k) = a \o c
    BY <1>2, Zenon DEF RemoveAt
  <2>2. Len(a) = k - 1 /\ Len(c) = Len(t) - k
    BY <1>1, <1>2, Zenon
  <2>3. Len(t) \in Nat
    OBVIOUS
  <2>4. Len(a) + Len(c) <= Len(t)
    BY <2>2, <2>3
  <2> QED
    BY <1>1, <1>2, <1>3, <2>1, <2>4, Zenon

LEMMA SequenceMade ==
    ASSUME NEW N \in Nat, NEW X, NEW f \in [1 .. N -> X]
    PROVE  f \in Seq(X) /\ Len(f) = N
<1>1. f = [i \in 1 .. N |-> f[i]] /\ \A i \in 1 .. N : f[i] \in X
  OBVIOUS
<1> QED
  BY <1>1

LEMMA ShiftedUp ==
    ASSUME NEW t \in Seq(LegalItem), NEW k \in 1 .. Len(t)
    PROVE  ShiftUp(t, k) \in Seq(LegalItem) /\ Len(ShiftUp(t, k)) = Len(t)
<1> DEFINE stops == {j \in k .. Len(t) - 2 : t[j + 1].slot >= t[k].slot + (j - k) + 2}
           last == IF stops = {} THEN Len(t) - 1 ELSE Min(stops)
           to(j) == t[k].slot + (j - k) + 1
           e(j) == IF j \in k .. last THEN Moves(t[j], to(j)) ELSE t[j]
           f == [j \in 1 .. Len(t) |-> e(j)]
<1>1. Len(t) \in Nat /\ \A j \in 1 .. Len(t) : t[j] \in LegalItem /\ t[j].slot \in Nat
  BY DEF LegalItem, Item
<1>2. last \in Int
  <2>1. stops \in SUBSET Nat
    OBVIOUS
  <2>2. stops # {} => Min(stops) \in Nat
    <3> HIDE DEF stops
    <3> QED
      BY <2>1, MinFacts
  <2> HIDE DEF stops
  <2> QED
    BY <1>1, <2>2
<1>3. f = ShiftUp(t, k)
  BY DEF ShiftUp, Moves
<1> HIDE DEF last
<1>4. \A j \in 1 .. Len(t) : e(j) \in LegalItem
  <2> SUFFICES ASSUME NEW j \in 1 .. Len(t) PROVE e(j) \in LegalItem
    OBVIOUS
  <2>1. CASE j \in k .. last
    <3>1. to(j) \in Nat
      BY <1>1, <1>2, <2>1
    <3> HIDE DEF to
    <3>2. Moves(t[j], to(j)) \in LegalItem
      BY <1>1, <3>1, Changed
    <3> QED
      BY <2>1, <3>2
  <2>2. CASE ~(j \in k .. last)
    BY <1>1, <2>2
  <2> QED
    BY <2>1, <2>2
<1> HIDE DEF e
<1>5. f \in [1 .. Len(t) -> LegalItem]
  BY <1>4
<1> HIDE DEF f
<1> QED
  BY <1>1, <1>3, <1>5, SequenceMade

\* What the scan of an insertion works on.
ScanState(N) == {p \in [items : Seq(LegalItem), place : 0 .. N, found : BOOLEAN] : Len(p.items) = N}

LEMMA ScannedFacts ==
    ASSUME NEW N \in Nat, NEW p \in ScanState(N), NEW k \in 1 .. N, NEW slot
    PROVE  Scanned(p, k, slot) \in ScanState(N)
<1>1. /\ p.items \in Seq(LegalItem) /\ Len(p.items) = N /\ p.found \in BOOLEAN
      /\ p = [items |-> p.items, place |-> p.place, found |-> p.found]
  BY DEF ScanState
<1>2. PICK u : u = ShiftUp(p.items, k)
  OBVIOUS
<1>3. u \in Seq(LegalItem) /\ Len(u) = N
  BY <1>1, <1>2, ShiftedUp
<1>4. k \in 0 .. N
  OBVIOUS
<1>5. [p EXCEPT !.place = k, !.found = TRUE] \in ScanState(N)
  BY <1>4 DEF ScanState
<1>6. [p EXCEPT !.place = k, !.items = u] \in ScanState(N)
  BY <1>3, <1>4 DEF ScanState
<1> QED
  BY <1>2, <1>5, <1>6 DEF Scanned

LEMMA InsertScanFacts ==
    ASSUME NEW t \in Seq(LegalItem), NEW slot
    PROVE  InsertScan(t, slot)[Len(t)] \in ScanState(Len(t))
<1> DEFINE N == Len(t)
           X == ScanState(N)
           a == [items |-> t, place |-> 0, found |-> FALSE]
           F == [z \in (1 .. N) \X X |-> Scanned(z[2], z[1], slot)]
<1>1. N \in Nat
  OBVIOUS
<1>2. a \in X
  BY DEF ScanState
<1> HIDE DEF N
<1>3. F \in StepRules(N, X)
  <2>1. \A k \in 1 .. N, r \in X : Scanned(r, k, slot) \in X
    BY <1>1, ScannedFacts
  <2> HIDE DEF X
  <2> QED
    BY <2>1 DEF StepRules
<1> HIDE DEF a
<1>4. PICK f : Follows(f, N, X, a, F)
  <2> HIDE DEF X, F
  <2> QED
    BY <1>1, <1>2, <1>3, StepsExist
<1>5. \A n \in 1 .. N : f[n] = Scanned(f[n - 1], n, slot)
  <2> HIDE DEF X
  <2>1. \A n \in 1 .. N : n - 1 \in 0 .. N
    BY <1>1
  <2>2. f \in [0 .. N -> X] /\ \A n \in 1 .. N : f[n] = F[<<n, f[n - 1]>>]
    BY <1>4 DEF Follows
  <2> QED
    BY <2>1, <2>2
<1>6. f = [n \in 0 .. N |-> IF n = 0 THEN a ELSE Scanned(f[n - 1], n, slot)]
  <2> HIDE DEF X, F
  <2> QED
    BY <1>1, <1>4, <1>5 DEF Follows
<1>7. PICK g : g = InsertScan(t, slot)
  OBVIOUS
<1>8. g = [n \in 0 .. N |-> IF n = 0 THEN a ELSE Scanned(g[n - 1], n, slot)]
  BY <1>6, <1>7, Zenon DEF InsertScan, a, N
<1>9. N \in {n \in 0 .. N : g[n] \in X}
  <2> DEFINE T == {n \in 0 .. N : g[n] \in X}
  <2>1. 0 \in T
    BY <1>1, <1>2, <1>8
  <2>2. \A n \in 1 .. N : n - 1 \in T => n \in T
    <3> SUFFICES ASSUME NEW n \in 1 .. N, g[n - 1] \in X PROVE g[n] \in X
      OBVIOUS
    <3>1. g[n] = Scanned(g[n - 1], n, slot)
      BY <1>1, <1>8
    <3> QED
      BY <1>1, <3>1, ScannedFacts
  <2> HIDE DEF T
  <2>3. 0 .. N \subseteq T
    BY <1>1, <2>1, <2>2, StepByStep
  <2>4. N \in T
    BY <1>1, <2>3
  <2> QED
    BY <2>4 DEF T
<1>10. g[N] \in X
  BY <1>9
<1> QED
  BY <1>7, <1>10 DEF N

LEMMA SlotInserted ==
    ASSUME NEW t \in Seq(LegalItem), NEW x \in LegalItem
    PROVE  InsertSlot(t, x) \in Seq(LegalItem) /\ Len(InsertSlot(t, x)) = Len(t) + 1
<1>1. PICK end : end = InsertScan(t, x.slot)[Len(t)]
  OBVIOUS
<1>2. end \in ScanState(Len(t))
  BY <1>1, InsertScanFacts
<1>3. end.items \in Seq(LegalItem) /\ Len(end.items) = Len(t) /\ end.place \in 0 .. Len(t)
  BY <1>2 DEF ScanState
<1>4. InsertSlot(t, x) = IF end.place = 0 THEN Append(t, x) ELSE InsertAt(end.items, end.place, x)
  BY <1>1 DEF InsertSlot
<1>5. CASE end.place = 0
  BY <1>4, <1>5, AppendProperties
<1>6. CASE end.place # 0
  <2>1. end.place \in 1 .. Len(end.items)
    BY <1>3, <1>6
  <2> QED
    BY <1>3, <1>4, <1>6, <2>1, Inserted
<1> QED
  BY <1>5, <1>6

LEMMA NextFreeSlotFacts ==
    ASSUME NEW t \in Seq(LegalItem)
    PROVE  NextFreeSlot(t) \in Nat
<1> DEFINE gaps == {k \in 1 .. Len(t) - 1 : t[k + 1].slot - t[k].slot > 1}
<1>1. \A k \in 1 .. Len(t) : t[k].slot \in Nat
  BY DEF LegalItem, Item
<1>2. gaps \in SUBSET Nat /\ gaps \subseteq 1 .. Len(t)
  OBVIOUS
<1>3. gaps # {} => Min(gaps) \in 1 .. Len(t)
  <2> HIDE DEF gaps
  <2> QED
    BY <1>2, MinFacts
<1>4. NextFreeSlot(t) = IF gaps = {} THEN Len(t) ELSE t[Min(gaps)].slot + 1
  BY DEF NextFreeSlot
<1> HIDE DEF gaps
<1> QED
  BY <1>1, <1>3, <1>4

Temp(d, t) == [d EXCEPT !.temporary = t]

LEMMA TempFilled ==
    ASSUME NEW d, WellFilled(d), NEW t \in Seq(LegalItem), Len(t) <= TotalSize,
           NEW e, e = Temp(d, t)
    PROVE  /\ WellFilled(e) /\ e.temporary = t /\ \A u \in Stores : e[u] = d[u]
           /\ e.alz = d.alz /\ e.currency = d.currency
<1>1. /\ e = [f \in DOMAIN e |-> e[f]] /\ DOMAIN e = DOMAIN d
      /\ e.alz = d.alz /\ e.currency = d.currency /\ e.temporary = t
      /\ \A u \in Stores : e[u] = d[u]
  BY Fields DEF Temp, Stores
<1>2. \A u \in Stores : WellStored(u, e[u])
  BY <1>1, Fields
<1> QED
  BY <1>1, <1>2, Fields, Filled

\* A handler that clears a slot of the inventory and sets the temporary one.
LEMMA GainDone ==
    ASSUME ItemsInv, NEW op, NEW M \in SUBSET Sections, "inventory" \in M,
           Answer(op, TRUE, M), UNCHANGED <<locks, ground>>, op # "lottery" \/ "temporary" \in M,
           NEW s, NEW t \in Seq(LegalItem), Len(t) <= TotalSize,
           data' = Temp(With(data, "inventory", ClearSlot(data.inventory, s)), t)
    PROVE  Good
<1>1. WellFilled(data) /\ ground' \subseteq Ground /\ "inventory" \in Stores
  BY DEF ItemsInv, Stores
<1>2. PICK C, d, e : /\ C = ClearSlot(data.inventory, s) /\ d = With(data, "inventory", C) /\ e = data'
  OBVIOUS
<1>3. WellStored("inventory", C)
  BY <1>1, <1>2, Fields, Cleared
<1>4. /\ WellFilled(d) /\ \A u \in Stores \ {"inventory"} : d[u] = data[u]
      /\ d.alz = data.alz /\ d.currency = data.currency
  BY <1>1, <1>2, <1>3, StorePut
<1>5. e = Temp(d, t)
  BY <1>2
<1>6. /\ WellFilled(e) /\ \A u \in Stores : e[u] = d[u]
      /\ e.alz = d.alz /\ e.currency = d.currency
  BY <1>4, <1>5, TempFilled
<1>7. Within(data, data', M) /\ WellFilled(data')
  BY <1>2, <1>4, <1>6 DEF Within
<1> QED
  BY <1>1, <1>7, Done

LEMMA UseLotteryGood ==
    ASSUME ItemsInv, NEW item \in data.inventory, item.kind \in DOMAIN Prizes,
           NEW prize \in Prizes[item.kind], UseLottery(item.slot, prize)
    PROVE  Good
<1> DEFINE t == data.temporary
           x == [slot |-> NextFreeSlot(t), kind |-> prize[1], options |-> prize[2]]
           M == {"inventory", "temporary"}
<1>1. CASE Refuse("lottery")
  BY <1>1, Refused
<1>2. CASE ~Refuse("lottery")
  <2>1. t \in Seq(LegalItem) /\ Len(t) <= TotalSize
    BY Fields DEF ItemsInv
  <2>2. /\ ~TemporaryFull(t) /\ Answer("lottery", TRUE, M) /\ UNCHANGED <<locks, ground>>
        /\ data' = Temp(With(data, "inventory", ClearSlot(data.inventory, item.slot)), InsertSlot(t, x))
    BY <1>2 DEF UseLottery, Temp, With
  <2>3. prize \in Gains
    BY InitAssumption
  <2>4. x \in LegalItem
    BY <2>1, <2>3, NextFreeSlotFacts DEF LegalItem, Item, Gains
  <2>5. PICK u : u = InsertSlot(t, x)
    OBVIOUS
  <2> HIDE DEF x
  <2>6. u \in Seq(LegalItem) /\ Len(u) = Len(t) + 1
    BY <2>1, <2>4, <2>5, SlotInserted
  <2>7. Len(u) <= TotalSize
    BY <2>1, <2>2, <2>6, SlotFacts DEF TemporaryFull
  <2>8. data' = Temp(With(data, "inventory", ClearSlot(data.inventory, item.slot)), u)
    BY <2>2, <2>5
  <2>9. M \in SUBSET Sections /\ "inventory" \in M /\ "temporary" \in M
    BY DEF Sections, Stores
  <2> HIDE DEF M, t
  <2> QED
    BY <2>2, <2>6, <2>7, <2>8, <2>9, GainDone
<1> QED
  BY <1>1, <1>2

\* What an extraction has put into the temporary inventory so far.
ExtractState ==
    {p \in [items : Seq(LegalItem), count : Nat, failed : BOOLEAN] : Len(p.items) <= TotalSize}

LEMMA TemporarySetFacts ==
    ASSUME NEW t \in Seq(LegalItem), NEW x \in LegalItem, TemporaryFits(t, x)
    PROVE  TemporarySet(t, x) \in Seq(LegalItem) /\ Len(TemporarySet(t, x)) <= Len(t) + 1
<1> DEFINE k == PlaceOf(t, x.slot)
<1>1. CASE k = 0
  BY <1>1, AppendProperties DEF TemporarySet
<1>2. CASE k # 0
  <2>1. k \in 1 .. Len(t) /\ t[k].slot = x.slot /\ t[k] \in LegalItem
    BY <1>2, PlaceOfFacts
  <2> DEFINE o == Stacked(x.kind, t[k].options, x.options)
             y == Holds(t[k], o)
             u == [t EXCEPT ![k] = y]
  <2>2. TemporarySet(t, x) = u
    <3>1. [t EXCEPT ![k].options = Stacked(x.kind, @, x.options)] = u
      BY <2>1 DEF Holds
    <3> HIDE DEF u
    <3> QED
      BY <1>2, <3>1 DEF TemporarySet
  <2>3. t[k].kind = x.kind /\ CanStack("inventory", x.kind, t[k].options, x.options)
    BY <1>2, <2>1 DEF TemporaryFits, Fits, At
  <2> HIDE DEF k
  <2>4. PICK z : z = t[k]
    OBVIOUS
  <2>5. /\ x.kind \in Kinds /\ x.options \in Nat /\ z.options \in Nat
        /\ Legal(x.kind, z.options) /\ Legal(x.kind, x.options)
        /\ CanStack("inventory", x.kind, z.options, x.options)
    BY <2>1, <2>3, <2>4 DEF LegalItem, Item
  <2>6. Stacked(x.kind, z.options, x.options) \in Nat /\ Legal(x.kind, Stacked(x.kind, z.options, x.options))
    BY <2>5, StackedLegal
  <2>7. o \in Nat /\ Legal(z.kind, o) /\ z \in LegalItem
    BY <2>1, <2>3, <2>4, <2>6
  <2> HIDE DEF o
  <2>8. y \in LegalItem
    BY <2>4, <2>7, Restacked
  <2> HIDE DEF y
  <2>9. u \in Seq(LegalItem) /\ Len(u) = Len(t)
    BY <2>1, <2>8, ExceptSeq
  <2>10. Len(t) \in Nat
    OBVIOUS
  <2> HIDE DEF u
  <2> QED
    BY <2>2, <2>9, <2>10
<1> QED
  BY <1>1, <1>2

LEMMA ExtractedFacts ==
    ASSUME NEW p \in ExtractState, NEW r \in Gains
    PROVE  Extracted(p, r) \in ExtractState
<1> DEFINE x == [slot |-> Len(p.items), kind |-> r[1], options |-> r[2]]
<1>1. p.items \in Seq(LegalItem) /\ Len(p.items) <= TotalSize /\ Len(p.items) \in Nat /\ p.count \in Nat
  BY DEF ExtractState
<1>2. x \in LegalItem
  BY <1>1 DEF LegalItem, Item, Gains
<1>3. PICK u : u = TemporarySet(p.items, x)
  OBVIOUS
<1>4. TemporaryFits(p.items, x) => u \in Seq(LegalItem) /\ Len(u) <= Len(p.items) + 1
  BY <1>1, <1>2, <1>3, TemporarySetFacts
<1>5. [p EXCEPT !.failed = TRUE] \in ExtractState
  BY DEF ExtractState
<1>6. ASSUME TemporaryFits(p.items, x), ~TemporaryFull(p.items)
      PROVE  [p EXCEPT !.items = u, !.count = @ + 1] \in ExtractState
  <2>1. u \in Seq(LegalItem) /\ Len(u) \in Nat /\ Len(u) <= Len(p.items) + 1
    BY <1>4, <1>6
  <2>2. Len(u) <= TotalSize
    BY <1>1, <1>6, <2>1, SlotFacts DEF TemporaryFull
  <2>3. PICK c : c = p.count + 1
    OBVIOUS
  <2>4. c \in Nat
    BY <1>1, <2>3
  <2> HIDE DEF x
  <2>5. [p EXCEPT !.items = u, !.count = c] \in ExtractState
    BY <2>1, <2>2, <2>4 DEF ExtractState
  <2> QED
    BY <2>3, <2>5
<1>7. Extracted(p, r) = IF p.failed \/ TemporaryFull(p.items) THEN [p EXCEPT !.failed = TRUE]
                        ELSE IF TemporaryFits(p.items, x)
                          THEN [p EXCEPT !.items = u, !.count = @ + 1]
                        ELSE p
  BY <1>3 DEF Extracted
<1> HIDE DEF x
<1> QED
  BY <1>5, <1>6, <1>7

LEMMA ExtractStepsFacts ==
    ASSUME ItemsInv, NEW results \in Seq(Gains)
    PROVE  ExtractSteps(results)[Len(results)] \in ExtractState
<1> DEFINE N == Len(results)
           X == ExtractState
           a == [items |-> data.temporary, count |-> 0, failed |-> FALSE]
           F == [z \in (1 .. N) \X X |-> Extracted(z[2], results[z[1]])]
<1>1. N \in Nat
  OBVIOUS
<1>2. a \in X
  BY Fields DEF ItemsInv, ExtractState
<1>3. F \in StepRules(N, X)
  <2>1. \A k \in 1 .. N, r \in X : Extracted(r, results[k]) \in X
    BY ExtractedFacts
  <2> HIDE DEF X, N
  <2> QED
    BY <2>1 DEF StepRules
<1> HIDE DEF a, N
<1>4. PICK f : Follows(f, N, X, a, F)
  <2> HIDE DEF X, F
  <2> QED
    BY <1>1, <1>2, <1>3, StepsExist
<1>5. \A n \in 1 .. N : f[n] = Extracted(f[n - 1], results[n])
  <2> HIDE DEF X
  <2>1. \A n \in 1 .. N : n - 1 \in 0 .. N
    BY <1>1
  <2>2. f \in [0 .. N -> X] /\ \A n \in 1 .. N : f[n] = F[<<n, f[n - 1]>>]
    BY <1>4 DEF Follows
  <2> QED
    BY <2>1, <2>2
<1>6. f = [n \in 0 .. N |-> IF n = 0 THEN a ELSE Extracted(f[n - 1], results[n])]
  <2> HIDE DEF X, F
  <2> QED
    BY <1>1, <1>4, <1>5 DEF Follows
<1>7. PICK g : g = ExtractSteps(results)
  OBVIOUS
<1>8. g = [n \in 0 .. N |-> IF n = 0 THEN a ELSE Extracted(g[n - 1], results[n])]
  BY <1>6, <1>7, Zenon DEF ExtractSteps, a, N
<1>9. N \in {n \in 0 .. N : g[n] \in X}
  <2> DEFINE T == {n \in 0 .. N : g[n] \in X}
  <2>1. 0 \in T
    BY <1>1, <1>2, <1>8
  <2>2. \A n \in 1 .. N : n - 1 \in T => n \in T
    <3> SUFFICES ASSUME NEW n \in 1 .. N, g[n - 1] \in X PROVE g[n] \in X
      OBVIOUS
    <3>1. g[n] = Extracted(g[n - 1], results[n])
      BY <1>1, <1>8
    <3>2. results[n] \in Gains
      BY DEF N
    <3> QED
      BY <3>1, <3>2, ExtractedFacts
  <2> HIDE DEF T
  <2>3. 0 .. N \subseteq T
    BY <1>1, <2>1, <2>2, StepByStep
  <2>4. N \in T
    BY <1>1, <2>3
  <2> QED
    BY <2>4 DEF T
<1>10. g[N] \in X
  BY <1>9
<1> QED
  BY <1>7, <1>10 DEF N

LEMMA ExtractGood ==
    ASSUME ItemsInv, NEW item \in data.inventory, item.kind \in DOMAIN Yields,
           NEW results \in Yields[item.kind], Extract(item.slot, results)
    PROVE  Good
<1>1. PICK end : end = ExtractSteps(results)[Len(results)]
  OBVIOUS
<1>2. CASE Refuse("extract") \/ Abort("extract")
  BY <1>2, Refused
<1>3. CASE ~(Refuse("extract") \/ Abort("extract"))
  <2>1. /\ Answer("extract", TRUE, {"inventory"}) /\ UNCHANGED <<locks, ground>>
        /\ data' = Temp(With(data, "inventory", ClearSlot(data.inventory, item.slot)), end.items)
    BY <1>1, <1>3 DEF Extract, Temp, With
  <2>2. results \in Seq(Gains)
    BY InitAssumption
  <2>3. end \in ExtractState
    BY <1>1, <2>2, ExtractStepsFacts
  <2>4. end.items \in Seq(LegalItem) /\ Len(end.items) <= TotalSize
    BY <2>3 DEF ExtractState
  <2>5. {"inventory"} \in SUBSET Sections /\ "extract" # "lottery"
    BY DEF Sections, Stores
  <2> QED
    BY <2>1, <2>4, <2>5, GainDone
<1> QED
  BY <1>2, <1>3

-----------------------------------------------------------------------------
(* The list of moves                                                        *)

\* A stack that is counted again.
Recounted(x, n) == Holds(x, WithCount(x.kind, x.options, n))

LEMMA RecountedFacts ==
    ASSUME NEW x \in LegalItem, NEW n \in Nat, x.kind \notin QuestKinds => Legal(x.kind, n)
    PROVE  Recounted(x, n) \in LegalItem /\ Recounted(x, n).slot = x.slot
<1>1. PICK o : o = WithCount(x.kind, x.options, n)
  OBVIOUS
<1>2. x.kind \in Kinds /\ x.options \in Nat
  BY DEF LegalItem, Item
<1>3. o \in Nat /\ Legal(x.kind, o)
  BY <1>1, <1>2, CountFacts DEF Legal
<1>4. Recounted(x, n) = Holds(x, o)
  BY <1>1 DEF Recounted
<1> QED
  BY <1>3, <1>4, Restacked

\* The units of two stacks, as many as one may hold first.
Total(x, y) == CountOf(x.kind, x.options) + CountOf(y.kind, y.options)
Heap(x, y) == IF Total(x, y) < MaxStack[x.kind] THEN Total(x, y) ELSE MaxStack[x.kind]

LEMMA HeapFacts ==
    ASSUME NEW x \in LegalItem, NEW y \in LegalItem, x.kind = y.kind, MaxStack[x.kind] > 1
    PROVE  /\ Recounted(y, Heap(x, y)) \in LegalItem /\ Recounted(y, Heap(x, y)).slot = y.slot
           /\ Total(x, y) # Heap(x, y) =>
                /\ Recounted(x, Total(x, y) - Heap(x, y)) \in LegalItem
                /\ Recounted(x, Total(x, y) - Heap(x, y)).slot = x.slot
<1> DEFINE m == MaxStack[x.kind]
           a == CountOf(x.kind, x.options)
           b == CountOf(y.kind, y.options)
           h == Heap(x, y)
           left == Total(x, y) - h
<1>1. /\ x.kind \in Kinds /\ x.options \in Nat /\ y.options \in Nat /\ m \in Nat
      /\ Legal(x.kind, x.options) /\ Legal(x.kind, y.options)
  BY KindAssumption DEF LegalItem, Item
<1>2. a \in Nat /\ b \in Nat
  BY <1>1, CountFacts
<1>3. x.kind \notin QuestKinds => a > 0 /\ a <= m /\ b > 0 /\ b <= m
  <2>1. x.kind \notin QuestKinds => a = x.options /\ b = y.options
    BY <1>1, CountFacts
  <2> QED
    BY <1>1, <2>1 DEF Legal
<1>4. Total(x, y) = a + b
  BY DEF Total
<1>5. h = IF a + b < m THEN a + b ELSE m
  BY <1>4 DEF Heap
<1> HIDE DEF a, b, h
<1>6. h \in Nat /\ (x.kind \notin QuestKinds => h > 0 /\ h <= m)
  BY <1>1, <1>2, <1>3, <1>5
<1>7. left # 0 => left \in Nat /\ (x.kind \notin QuestKinds => left > 0 /\ left <= m)
  BY <1>1, <1>2, <1>3, <1>4, <1>5
<1>8. Total(x, y) # h => left # 0
  BY <1>2, <1>4, <1>6
<1> HIDE DEF left
<1>9. /\ x.kind \notin QuestKinds => Legal(x.kind, h)
      /\ left # 0 /\ x.kind \notin QuestKinds => Legal(x.kind, left)
  BY <1>6, <1>7 DEF Legal
<1>10. Recounted(y, h) \in LegalItem /\ Recounted(y, h).slot = y.slot
  BY <1>6, <1>9, RecountedFacts
<1>11. left # 0 => Recounted(x, left) \in LegalItem /\ Recounted(x, left).slot = x.slot
  BY <1>7, <1>9, RecountedFacts
<1> QED
  BY <1>8, <1>10, <1>11 DEF h, left

\* The item RTInventoryMoveSlot finds at the source, and the character without it
\* or with what is left of it.
Source(d, src) ==
    IF src < TotalSize THEN At(d.inventory, src)
    ELSE IF PlaceOf(d.temporary, src - TotalSize) = 0 THEN {}
    ELSE {d.temporary[PlaceOf(d.temporary, src - TotalSize)]}

Without(d, src, rest) ==
    IF src < TotalSize THEN With(d, "inventory", ClearSlot(d.inventory, src) \cup rest)
    ELSE Temp(d, IF rest = {} THEN RemoveAt(d.temporary, PlaceOf(d.temporary, src - TotalSize))
                 ELSE [d.temporary EXCEPT ![PlaceOf(d.temporary, src - TotalSize)] =
                         CHOOSE i \in rest : TRUE])

\* d and e have the same outside the inventory and the temporary inventory.
SameElsewhere(d, e) ==
    /\ \A u \in Stores \ {"inventory"} : e[u] = d[u]
    /\ e.alz = d.alz /\ e.currency = d.currency

LEMMA SourceFacts ==
    ASSUME NEW d, WellFilled(d), NEW src \in Nat, Source(d, src) # {}
    PROVE  \E x \in LegalItem : /\ Source(d, src) = {x}
                                /\ src < TotalSize => x.slot = src /\ src \in Slots["inventory"]
<1>1. CASE src < TotalSize
  <2>1. "inventory" \in Stores
    BY DEF Stores
  <2>2. WellStored("inventory", d.inventory)
    BY <2>1, Fields
  <2>3. Source(d, src) = At(d.inventory, src)
    BY <1>1 DEF Source
  <2>4. PICK x \in d.inventory : At(d.inventory, src) = {x} /\ x.slot = src /\ x \in LegalItem
    BY <2>2, <2>3, OnlyItem
  <2>5. src \in Slots["inventory"]
    BY <1>1, SlotFacts
  <2> QED
    BY <2>3, <2>4, <2>5
<1>2. CASE ~(src < TotalSize)
  <2>1. PICK k, t : k = PlaceOf(d.temporary, src - TotalSize) /\ t = d.temporary
    OBVIOUS
  <2>2. t \in Seq(LegalItem) /\ k # 0 /\ Source(d, src) = {t[k]}
    BY <1>2, <2>1, Fields DEF Source
  <2>3. k \in 1 .. Len(t)
    BY <2>1, <2>2, PlaceOfFacts
  <2>4. t[k] \in LegalItem
    BY <2>2, <2>3
  <2> QED
    BY <1>2, <2>2, <2>4
<1> QED
  BY <1>1, <1>2

LEMMA WithoutFilled ==
    ASSUME NEW d, WellFilled(d), NEW src \in Nat, NEW x \in LegalItem, Source(d, src) = {x},
           NEW rest, rest = {} \/ \E z \in LegalItem : rest = {z} /\ z.slot = x.slot,
           NEW e, e = Without(d, src, rest)
    PROVE  /\ WellFilled(e) /\ SameElsewhere(d, e)
           /\ \A s : s # src => (At(d.inventory, s) = {} => At(e.inventory, s) = {})
<1>0. "inventory" \in Stores
  BY DEF Stores
<1>1. CASE src < TotalSize
  <2> DEFINE C == ClearSlot(d.inventory, src)
  <2>1. x.slot = src /\ src \in Slots["inventory"]
    BY <1>1, SourceFacts
  <2>2. WellStored("inventory", d.inventory)
    BY <1>0, Fields
  <2>3. WellStored("inventory", C) /\ At(C, src) = {}
    BY <2>2, Cleared
  <2>4. \A s : At(d.inventory, s) = {} => At(C, s) = {}
    BY DEF At, ClearSlot
  <2> HIDE DEF C
  <2>5. WellStored("inventory", C \cup rest)
    <3>1. CASE rest = {}
      BY <2>3, <3>1
    <3>2. CASE rest # {}
      <4>1. PICK z \in LegalItem : rest = {z} /\ z.slot = src
        BY <2>1, <3>2
      <4> QED
        BY <2>1, <2>3, <4>1, Placed
    <3> QED
      BY <3>1, <3>2
  <2>6. \A s : s # src => (At(d.inventory, s) = {} => At(C \cup rest, s) = {})
    BY <2>1, <2>4 DEF At
  <2>7. PICK D : D = C \cup rest
    OBVIOUS
  <2>8. e = With(d, "inventory", D)
    BY <1>1, <2>7 DEF Without, C
  <2>9. /\ WellFilled(e) /\ e["inventory"] = D /\ \A u \in Stores \ {"inventory"} : e[u] = d[u]
        /\ e.alz = d.alz /\ e.currency = d.currency
    <3>1. WellStored("inventory", D)
      BY <2>5, <2>7
    <3> QED
      BY <1>0, <2>8, <3>1, StorePut
  <2> QED
    BY <2>6, <2>7, <2>9 DEF SameElsewhere
<1>2. CASE ~(src < TotalSize)
  <2>1. PICK k, t : k = PlaceOf(d.temporary, src - TotalSize) /\ t = d.temporary
    OBVIOUS
  <2>2. t \in Seq(LegalItem) /\ Len(t) <= TotalSize /\ k # 0
    BY <1>2, <2>1, Fields DEF Source
  <2>3. k \in 1 .. Len(t)
    BY <2>1, <2>2, PlaceOfFacts
  <2>4. PICK u : u = IF rest = {} THEN RemoveAt(t, k) ELSE [t EXCEPT ![k] = CHOOSE i \in rest : TRUE]
    OBVIOUS
  <2>5. u \in Seq(LegalItem) /\ Len(u) <= Len(t)
    <3>1. CASE rest = {}
      BY <2>2, <2>3, <2>4, <3>1, Removed
    <3>2. CASE rest # {}
      <4>1. PICK z \in LegalItem : rest = {z}
        BY <3>2
      <4>2. u = [t EXCEPT ![k] = z]
        BY <2>4, <4>1
      <4>3. u \in Seq(LegalItem) /\ Len(u) = Len(t)
        BY <2>2, <2>3, <4>2, ExceptSeq
      <4>4. Len(t) \in Nat
        BY <2>2
      <4> QED
        BY <4>3, <4>4
    <3> QED
      BY <3>1, <3>2
  <2>6. Len(u) <= TotalSize
    <3>1. Len(u) \in Nat /\ Len(t) \in Nat
      BY <2>2, <2>5
    <3> QED
      BY <2>2, <2>5, <3>1, SlotFacts
  <2>7. e = Temp(d, u)
    BY <1>2, <2>1, <2>4 DEF Without
  <2>8. /\ WellFilled(e) /\ \A v \in Stores : e[v] = d[v]
        /\ e.alz = d.alz /\ e.currency = d.currency
    BY <2>5, <2>6, <2>7, TempFilled
  <2> QED
    BY <1>0, <2>8 DEF SameElsewhere
<1> QED
  BY <1>1, <1>2

LEMMA MoveSlotFacts ==
    ASSUME NEW d, WellFilled(d), NEW src \in Nat, NEW dst \in Slots.inventory, src # dst,
           NEW r, r = MoveSlot(d, src, dst)
    PROVE  /\ r = [ok |-> r.ok, data |-> r.data] /\ r.ok \in BOOLEAN
           /\ WellFilled(r.data) /\ SameElsewhere(d, r.data)
<1> DEFINE x == CHOOSE i \in Source(d, src) : TRUE
           y == CHOOSE i \in At(d.inventory, dst) : TRUE
           n == Total(x, y)
           m == Heap(x, y)
           rest == IF n = m THEN {} ELSE {Recounted(x, n - m)}
           L0 == Without(d, src, {})
           L1 == Without(d, src, rest)
           e0 == With(L0, "inventory", SetSlot(L0.inventory, Moves(x, dst)))
           e1 == With(L1, "inventory", ClearSlot(L1.inventory, dst) \cup {Recounted(y, m)})
<1>1. \/ r = [ok |-> FALSE, data |-> d]
      \/ /\ Source(d, src) # {} /\ At(d.inventory, dst) = {}
         /\ r = [ok |-> TRUE, data |-> e0]
      \/ /\ Source(d, src) # {} /\ At(d.inventory, dst) # {}
         /\ y.kind = x.kind /\ ~(MaxStack[x.kind] <= 1)
         /\ r = [ok |-> TRUE, data |-> e1]
  <2>1. CASE Source(d, src) = {}
    BY <2>1 DEF MoveSlot, Source
  <2>2. CASE Source(d, src) # {} /\ At(d.inventory, dst) = {}
    <3>1. r = [ok |-> TRUE, data |-> e0]
      BY <2>2 DEF MoveSlot, Source, Without, With, Temp, Moves
    <3> QED
      BY <2>2, <3>1
  <2>3. CASE /\ Source(d, src) # {} /\ At(d.inventory, dst) # {}
             /\ y.kind = x.kind /\ ~(MaxStack[x.kind] <= 1)
    <3>1. r = [ok |-> FALSE, data |-> d] \/ r = [ok |-> TRUE, data |-> e1]
      BY <2>3 DEF MoveSlot, Source, Total, Heap, Without, With, Temp, Recounted, Holds
    <3> QED
      BY <2>3, <3>1
  <2>4. CASE /\ Source(d, src) # {} /\ At(d.inventory, dst) # {}
             /\ ~(y.kind = x.kind /\ ~(MaxStack[x.kind] <= 1))
    BY <2>4 DEF MoveSlot, Source
  <2> QED
    BY <2>1, <2>2, <2>3, <2>4
<1>2. "inventory" \in Stores /\ dst \in Slots["inventory"] /\ dst \in Nat
  BY SlotFacts DEF Stores
<1>3. WellStored("inventory", d.inventory)
  BY <1>2, Fields
<1>4. ASSUME Source(d, src) # {}
      PROVE  Source(d, src) = {x} /\ x \in LegalItem
  <2>1. PICK z \in LegalItem : Source(d, src) = {z}
    BY <1>4, SourceFacts
  <2> QED
    BY <2>1
<1>5. ASSUME At(d.inventory, dst) # {}
      PROVE  y \in LegalItem /\ y.slot = dst
  <2>1. PICK z \in d.inventory : /\ At(d.inventory, dst) = {z} /\ z.slot = dst /\ z \in LegalItem
                                 /\ (CHOOSE i \in At(d.inventory, dst) : TRUE) = z
    BY <1>3, <1>5, OnlyItem
  <2> QED
    BY <2>1
<1> HIDE DEF x, y
<1>6. ASSUME Source(d, src) = {x}, x \in LegalItem, At(d.inventory, dst) = {}
      PROVE  WellFilled(e0) /\ SameElsewhere(d, e0)
  <2>1. PICK a, z, e : a = L0 /\ z = Moves(x, dst) /\ e = e0
    OBVIOUS
  <2> HIDE DEF L0
  <2>2. a = Without(d, src, {})
    BY <2>1 DEF L0
  <2>3. WellFilled(a) /\ SameElsewhere(d, a) /\ At(a.inventory, dst) = {}
    <3>1. PICK none : none = {}
      OBVIOUS
    <3>2. none = {} \/ \E v \in LegalItem : none = {v} /\ v.slot = x.slot
      BY <3>1
    <3>3. a = Without(d, src, none)
      BY <2>2, <3>1
    <3>4. /\ WellFilled(a) /\ SameElsewhere(d, a)
          /\ \A s : s # src => (At(d.inventory, s) = {} => At(a.inventory, s) = {})
      BY <1>6, <3>2, <3>3, WithoutFilled
    <3> QED
      BY <1>6, <3>4
  <2>4. z \in LegalItem /\ z.slot = dst
    BY <1>2, <1>6, <2>1, Changed
  <2>5. WellStored("inventory", a.inventory)
    BY <1>2, <2>3, Fields
  <2>6. Fits("inventory", a.inventory, z)
    BY <2>3, <2>4 DEF Fits
  <2>7. PICK C : C = SetSlot(a.inventory, z)
    OBVIOUS
  <2>8. WellStored("inventory", C)
    BY <1>2, <2>4, <2>5, <2>6, <2>7, SetSlotStored
  <2>9. e = With(a, "inventory", C)
    BY <2>1, <2>7
  <2>10. /\ WellFilled(e) /\ \A u \in Stores \ {"inventory"} : e[u] = a[u]
         /\ e.alz = a.alz /\ e.currency = a.currency
    BY <1>2, <2>3, <2>8, <2>9, StorePut
  <2> HIDE DEF e0
  <2> QED
    BY <2>1, <2>3, <2>10 DEF SameElsewhere
<1>7. ASSUME Source(d, src) = {x}, x \in LegalItem, At(d.inventory, dst) # {},
             y.kind = x.kind, ~(MaxStack[x.kind] <= 1)
      PROVE  WellFilled(e1) /\ SameElsewhere(d, e1)
  <2>1. y \in LegalItem /\ y.slot = dst
    BY <1>5, <1>7
  <2>2. MaxStack[x.kind] > 1 /\ x.kind = y.kind
    BY <1>7, KindAssumption DEF LegalItem, Item
  <2>3. PICK w, v : w = Recounted(y, m) /\ v = Recounted(x, n - m)
    OBVIOUS
  <2>4. w \in LegalItem /\ w.slot = dst /\ (n # m => v \in LegalItem /\ v.slot = x.slot)
    BY <1>7, <2>1, <2>2, <2>3, HeapFacts
  <2> HIDE DEF n, m
  <2>5. rest = {} \/ \E z \in LegalItem : rest = {z} /\ z.slot = x.slot
    BY <2>3, <2>4
  <2>6. PICK a, e : a = L1 /\ e = e1
    OBVIOUS
  <2>7. a = Without(d, src, rest)
    BY <2>6
  <2> HIDE DEF rest, L1
  <2>8. WellFilled(a) /\ SameElsewhere(d, a)
    BY <1>7, <2>5, <2>7, WithoutFilled
  <2>9. WellStored("inventory", a.inventory)
    BY <1>2, <2>8, Fields
  <2>10. PICK C : C = ClearSlot(a.inventory, dst) \cup {w}
    OBVIOUS
  <2>11. WellStored("inventory", C)
    <3>1. WellStored("inventory", ClearSlot(a.inventory, w.slot) \cup {w})
      BY <1>2, <2>4, <2>9, Replaced
    <3> QED
      BY <2>4, <2>10, <3>1
  <2>12. e = With(a, "inventory", C)
    BY <2>3, <2>6, <2>10
  <2>13. /\ WellFilled(e) /\ \A u \in Stores \ {"inventory"} : e[u] = a[u]
         /\ e.alz = a.alz /\ e.currency = a.currency
    BY <1>2, <2>8, <2>11, <2>12, StorePut
  <2> HIDE DEF e1
  <2> QED
    BY <2>6, <2>8, <2>13 DEF SameElsewhere
<1> HIDE DEF e0, e1
<1>8. CASE r = [ok |-> FALSE, data |-> d]
  BY <1>8 DEF SameElsewhere
<1>9. CASE Source(d, src) # {} /\ At(d.inventory, dst) = {} /\ r = [ok |-> TRUE, data |-> e0]
  BY <1>4, <1>6, <1>9
<1>10. CASE /\ Source(d, src) # {} /\ At(d.inventory, dst) # {}
            /\ y.kind = x.kind /\ ~(MaxStack[x.kind] <= 1)
            /\ r = [ok |-> TRUE, data |-> e1]
  BY <1>4, <1>7, <1>10
<1> QED
  BY <1>1, <1>8, <1>9, <1>10

MoveState == {r \in [ok : BOOLEAN, data : Data] : WellFilled(r.data) /\ SameElsewhere(data, r.data)}

LEMMA MoveStepFacts ==
    ASSUME NEW r \in MoveState, NEW entry \in Entries, entry.src # entry.dst
    PROVE  MoveSlot(r.data, entry.src, entry.dst) \in MoveState
<1>1. entry.src \in Nat /\ entry.dst \in Slots.inventory
  BY DEF Entries
<1>2. WellFilled(r.data) /\ SameElsewhere(data, r.data)
  BY DEF MoveState
<1>3. PICK q : q = MoveSlot(r.data, entry.src, entry.dst)
  OBVIOUS
<1>4. /\ q = [ok |-> q.ok, data |-> q.data] /\ q.ok \in BOOLEAN
      /\ WellFilled(q.data) /\ SameElsewhere(r.data, q.data)
  BY <1>1, <1>2, <1>3, MoveSlotFacts
<1>5. q.data \in Data /\ SameElsewhere(data, q.data)
  BY <1>2, <1>4 DEF WellFilled, SameElsewhere
<1>6. [ok |-> q.ok, data |-> q.data] \in MoveState
  BY <1>4, <1>5 DEF MoveState
<1> QED
  BY <1>3, <1>4, <1>6

LEMMA MoveStepsFacts ==
    ASSUME ItemsInv, NEW list \in Seq(Entries), \A n \in 1 .. Len(list) : list[n].src # list[n].dst
    PROVE  MoveSteps(list)[Len(list)] \in MoveState
<1> DEFINE N == Len(list)
           X == MoveState
           a == [ok |-> TRUE, data |-> data]
           Next1(r, n) == IF ~r.ok THEN r ELSE MoveSlot(r.data, list[n].src, list[n].dst)
           F == [z \in (1 .. N) \X X |-> Next1(z[2], z[1])]
<1>1. N \in Nat
  OBVIOUS
<1>2. a \in X
  BY DEF ItemsInv, MoveState, SameElsewhere, WellFilled
<1>3. \A k \in 1 .. N, r \in X : Next1(r, k) \in X
  BY MoveStepFacts
<1>4. F \in StepRules(N, X)
  <2> HIDE DEF X, N, Next1
  <2> QED
    BY <1>3 DEF StepRules
<1> HIDE DEF a, N, Next1
<1>5. PICK f : Follows(f, N, X, a, F)
  <2> HIDE DEF X, F
  <2> QED
    BY <1>1, <1>2, <1>4, StepsExist
<1>6. \A n \in 1 .. N : f[n] = Next1(f[n - 1], n)
  <2> HIDE DEF X
  <2>1. \A n \in 1 .. N : n - 1 \in 0 .. N
    BY <1>1
  <2>2. f \in [0 .. N -> X] /\ \A n \in 1 .. N : f[n] = F[<<n, f[n - 1]>>]
    BY <1>5 DEF Follows
  <2> QED
    BY <2>1, <2>2
<1>7. f = [n \in 0 .. N |-> IF n = 0 THEN a ELSE Next1(f[n - 1], n)]
  <2> HIDE DEF X, F
  <2> QED
    BY <1>1, <1>5, <1>6 DEF Follows
<1>8. PICK g : g = MoveSteps(list)
  OBVIOUS
<1>9. g = [n \in 0 .. N |-> IF n = 0 THEN a ELSE Next1(g[n - 1], n)]
  BY <1>7, <1>8, Zenon DEF MoveSteps, a, N, Next1
<1>10. N \in {n \in 0 .. N : g[n] \in X}
  <2> DEFINE T == {n \in 0 .. N : g[n] \in X}
  <2>1. 0 \in T
    BY <1>1, <1>2, <1>9
  <2>2. \A n \in 1 .. N : n - 1 \in T => n \in T
    <3> SUFFICES ASSUME NEW n \in 1 .. N, g[n - 1] \in X PROVE g[n] \in X
      OBVIOUS
    <3>1. g[n] = Next1(g[n - 1], n)
      BY <1>1, <1>9
    <3> QED
      BY <1>3, <3>1
  <2> HIDE DEF T
  <2>3. 0 .. N \subseteq T
    BY <1>1, <2>1, <2>2, StepByStep
  <2>4. N \in T
    BY <1>1, <2>3
  <2> QED
    BY <2>4 DEF T
<1>11. g[N] \in X
  BY <1>10
<1> QED
  BY <1>8, <1>11 DEF N

LEMMA MoveListGood ==
    ASSUME ItemsInv, NEW n \in 1 .. MaxList, NEW list \in [1 .. n -> Entries], MoveList(list)
    PROVE  Good
<1>1. list \in Seq(Entries) /\ Len(list) = n
  <2>1. n \in Nat
    BY BoundAssumption
  <2> QED
    BY <2>1, SequenceMade
<1>2. PICK end, M : end = MoveSteps(list)[Len(list)] /\ M = IF end.ok THEN {"inventory"} ELSE {}
  OBVIOUS
<1>3. /\ \A k \in 1 .. Len(list) : list[k].src # list[k].dst
      /\ Answer("movelist", end.ok, M) /\ data' = end.data /\ UNCHANGED <<locks, ground>>
  BY <1>1, <1>2 DEF MoveList
<1>4. end \in MoveState
  BY <1>1, <1>2, <1>3, MoveStepsFacts
<1>5. end.ok \in BOOLEAN /\ WellFilled(data') /\ SameElsewhere(data, data')
  BY <1>3, <1>4 DEF MoveState
<1>6. M \in SUBSET Sections
  BY <1>2 DEF Sections, Stores
<1>7. ("movelist" = "movelist" /\ ~end.ok) \/ Within(data, data', M)
  BY <1>2, <1>5 DEF SameElsewhere, Within
<1>8. ground' \subseteq Ground
  BY <1>3 DEF ItemsInv
<1>9. /\ ~end.ok /\ "movelist" \notin {"swap", "movelist"} => data' = data
      /\ data'.temporary # data.temporary => "temporary" \in M \/ "movelist" # "lottery"
  OBVIOUS
<1> QED
  BY <1>3, <1>5, <1>6, <1>7, <1>8, <1>9, Done, Zenon

-----------------------------------------------------------------------------
(* All steps                                                                *)

LEMMA ItemsInit ==
    ASSUME Init
    PROVE  ItemsInv
<1>1. WellFilled(data) /\ ground \subseteq Ground
  BY InitAssumption DEF Init
<1>2. reply.ok = TRUE
  BY DEF Init
<1> QED
  BY <1>1, <1>2 DEF Init, ItemsInv

LEMMA StepGood ==
    ASSUME ItemsInv, Next
    PROVE  Good
<1>1. CASE PlayerOnEquipment
  BY <1>1, PushEquipmentGood, LockEquipmentGood DEF PlayerOnEquipment
<1>2. CASE PlayerOnStacks
  BY <1>2, SplitGood, MergeGood, MoveListGood DEF PlayerOnStacks
<1>3. CASE PlayerOnPlaces
  BY <1>3, MoveItemGood, SwapItemGood, DropGood, SortGood DEF PlayerOnPlaces
<1>4. CASE PlayerOnMoney
  BY <1>4, DepositGood, WithdrawGood DEF PlayerOnMoney
<1>5. CASE PlayerGains
  BY <1>5, LootGood, UseLotteryGood, ExtractGood DEF PlayerGains
<1> QED
  BY <1>1, <1>2, <1>3, <1>4, <1>5 DEF Next

LEMMA Idle ==
    ASSUME ItemsInv, UNCHANGED vars
    PROVE  ItemsInv'
BY DEF ItemsInv, vars

\* The invariant holds of every state that can be reached.
THEOREM ItemsWellFilled == Spec => []ItemsInv
<1>1. Init => ItemsInv
  BY ItemsInit
<1>2. ItemsInv /\ [Next]_vars => ItemsInv'
  BY StepGood, Idle DEF Good
<1> QED
  BY <1>1, <1>2, PTL DEF Spec

-----------------------------------------------------------------------------
(* The theorems                                                             *)

\* The items of every container have the slots of that container, the purse and
\* the deposit never go below zero, and only sections are marked: in every state,
\* for every character the database may send.
THEOREM ItemsTypedAlways == Spec => []ItemsTypeOK
<1>1. ItemsInv => ItemsTypeOK
  <2> SUFFICES ASSUME ItemsInv PROVE ItemsTypeOK
    OBVIOUS
  <2>1. WellFilled(data)
    BY DEF ItemsInv
  <2>2. \A st \in Stores : \A x \in data[st] : x.slot \in Slots[st] /\ x.kind \in Kinds /\ x.options \in Nat
    <3> SUFFICES ASSUME NEW st \in Stores, NEW x \in data[st]
                 PROVE  x.slot \in Slots[st] /\ x.kind \in Kinds /\ x.options \in Nat
      OBVIOUS
    <3>1. WellStored(st, data[st])
      BY <2>1, Fields
    <3> QED
      BY <3>1 DEF WellStored, SlotsOf, LegalItem, Item
  <2>3. \A k \in DOMAIN data.temporary :
           data.temporary[k].slot \in Nat /\ data.temporary[k].kind \in Kinds
    <3>1. PICK t : t = data.temporary
      OBVIOUS
    <3>2. t \in Seq(LegalItem)
      BY <2>1, <3>1, Fields
    <3>3. \A k \in DOMAIN t : t[k] \in LegalItem
      BY <3>2
    <3>4. \A k \in DOMAIN t : t[k].slot \in Nat /\ t[k].kind \in Kinds
      BY <3>3 DEF LegalItem, Item
    <3> QED
      BY <3>1, <3>4
  <2>4. /\ data.alz \in Nat /\ data.currency \in Nat
        /\ DOMAIN data = {"inventory", "equipment", "warehouse", "vehicle", "temporary", "alz", "currency"}
    BY <2>1, Fields
  <2> QED
    BY <2>2, <2>3, <2>4 DEF ItemsInv, ItemsTypeOK
<1> QED
  BY <1>1, ItemsWellFilled, PTL

\* No handler ever puts an item behind another one of the same container, where
\* the scan for a slot would not find it.
THEOREM SlotsDistinctAlways == Spec => []SlotsDistinct
<1>1. ItemsInv => SlotsDistinct
  BY Fields DEF ItemsInv, SlotsDistinct, WellStored
<1> QED
  BY <1>1, ItemsWellFilled, PTL

\* No split, merge, list of moves, loot or swap leaves an empty or an oversized
\* stack, and the lottery and the extraction stay inside the temporary inventory.
THEOREM StacksLegalAlways == Spec => []StacksLegal
<1>1. ItemsInv => StacksLegal
  <2> SUFFICES ASSUME ItemsInv PROVE StacksLegal
    OBVIOUS
  <2>1. "inventory" \in Stores /\ WellFilled(data)
    BY DEF ItemsInv, Stores
  <2>2. \A x \in data.inventory : Legal(x.kind, x.options)
    BY <2>1, Fields DEF LegalItem
  <2>3. Len(data.temporary) <= TotalSize
    BY <2>1, Fields
  <2> QED
    BY <2>2, <2>3 DEF StacksLegal, Legal
<1> QED
  BY <1>1, ItemsWellFilled, PTL

\* Whatever a handler had taken, shifted or paid before it refused is as it was.
THEOREM RefusalUndone == Spec => RefusedChangesNothing
<1>1. ItemsInv /\ [Next]_vars =>
        [~reply'.ok /\ reply'.op \notin {"swap", "movelist"} => data' = data]_vars
  BY StepGood DEF Good, Undone
<1> QED
  BY <1>1, ItemsWellFilled, PTL DEF Spec, RefusedChangesNothing

\* No handler changes a container, the purse or the locks without marking its
\* section for the next save.
THEOREM ChangesMarked == Spec => ChangesAreMarked
<1>1. ItemsInv /\ [Next]_vars =>
        [\A section \in Sections :
           SectionOf(data', locks', section) # SectionOf(data, locks, section) =>
             \/ section \in marked'
             \/ reply' = [op |-> "movelist", ok |-> FALSE]
             \/ section = "temporary" /\ reply'.op # "lottery"]_vars
  BY StepGood DEF Good, AllMarked
<1> QED
  BY <1>1, ItemsWellFilled, PTL DEF Spec, ChangesAreMarked

=============================================================================
