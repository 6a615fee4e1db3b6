--------------------------- MODULE CharacterLayout ---------------------------
(***************************************************************************)
(* The layout of a character's data on its way between a world server and  *)
(* the database agent.  A world server saves the sections of a character   *)
(* that are marked in its SyncMask in one DBSYNC packet, one after the     *)
(* other and without any separator; the agent reads them with a cursor and *)
(* calls one stored procedure per section.  Loading a character works the  *)
(* same way: the agent appends the slot arrays of every section to         *)
(* GET_CHARACTER, and the world server reads them with a cursor.  Writer   *)
(* and reader are two separate hand-written lists, and both must agree on  *)
(* the order, on the arrays of a section, on their element types and on    *)
(* the counter that gives their length: past the first disagreement the    *)
(* cursor is at the wrong byte for every section that follows.             *)
(*                                                                         *)
(* A layout is a sequence of sections, each with its arrays; a packet is a *)
(* sequence of units, a unit being one fixed structure or one array        *)
(* element, which carries what it is and its type (hence its size).        *)
(***************************************************************************)
EXTENDS Integers, Sequences, FiniteSets, SequencesExt

CONSTANT
    Cases       \* the saves: how long each slot array is (shape), which sections are
                \* marked in the SyncMask (mask) and which one the database refuses

\* A section of the character's data: an Info structure and slot arrays.
Sec(name, arrays) == [name |-> name, arrays |-> arrays]

-----------------------------------------------------------------------------
(* Saving: the sections in the order in which ServerSyncCharacter writes   *)
(* them.  AchievementExtendedInfo has a mask bit and is not among them.    *)

AccountSectionsSaved ==
    << Sec("AccountInfo", <<>>), Sec("GoldMeritMasteryInfo", <<"Slots">>),
       Sec("PlatinumMeritMasteryInfo", <<"ExtendedMemorize", "Unlocked", "Mastery", "SpecialMastery">>),
       Sec("DiamondMeritMasteryInfo", <<"ExtendedMemorize", "Unlocked", "Mastery", "SpecialMastery">>),
       Sec("CollectionInfo", <<"Slots">>), Sec("ResearchSupportInfo", <<>>),
       Sec("EventPassInfo", <<"MissionSlots", "RewardSlots">>),
       Sec("CostumeWarehouseInfo", <<"Slots">>), Sec("WarehouseInfo", <<"Slots">>),
       Sec("AnimaMasteryInfo", <<"PresetData", "CategoryData">>), Sec("SettingsInfo", <<>>) >>

CharacterSectionsSaved ==
    << Sec("Info", <<>>), Sec("StyleInfo", <<>>), Sec("BattleModeInfo", <<>>),
       Sec("BuffInfo", <<"Slots">>), Sec("EquipmentInfo", <<"Slots", "Inventory", "Link", "Lock">>),
       Sec("InventoryInfo", <<"Slots">>), Sec("SkillSlotInfo", <<"Slots">>), Sec("QuickSlotInfo", <<"Slots">>),
       Sec("AbilityInfo", <<"Essence", "Blended", "Karma">>), Sec("BlessingBeadInfo", <<"Slots">>),
       Sec("PremiumServiceInfo", <<"Slots">>), Sec("QuestInfo", <<"Slots">>),
       Sec("DailyQuestInfo", <<"Slots">>), Sec("MercenaryInfo", <<"Slots">>),
       Sec("AppearanceInfo", <<"Equipment", "Inventory">>), Sec("AchievementInfo", <<"Slots", "RewardSlots">>),
       Sec("CraftInfo", <<"Slots">>), Sec("RequestCraftInfo", <<"Slots">>), Sec("CooldownInfo", <<"Slots">>) >>

ProgressSectionsSaved ==
    << Sec("VehicleInventoryInfo", <<"Slots">>), Sec("WarpServiceInfo", <<"Slots">>),
       Sec("OverlordMasteryInfo", <<"Slots">>), Sec("HonorMedalInfo", <<"Slots">>),
       Sec("ForceWingInfo", <<"Preset", "Training">>), Sec("GiftboxInfo", <<"Slots", "RewardSlots">>),
       Sec("TransformInfo", <<"Slots">>), Sec("TranscendenceInfo", <<"Slots">>),
       Sec("StellarMasteryInfo", <<"Slots">>), Sec("MythMasteryInfo", <<"Slots">>),
       Sec("NewbieSupportInfo", <<"Slots">>), Sec("CostumeInfo", <<"Pages", "AppliedSlots">>),
       Sec("TemporaryInventoryInfo", <<"Slots">>), Sec("RecoveryInfo", <<"Prices", "Slots">>),
       Sec("PresetInfo", <<>>), Sec("AuraMasteryInfo", <<"Slots">>), Sec("SecretShopInfo", <<>>),
       Sec("DamageBoosterInfo", <<"Slots">>), Sec("ExplorationInfo", <<"Slots">>) >>

\* Fault: the account's sections are written last.
SaveLayoutAccountLast == CharacterSectionsSaved \o ProgressSectionsSaved \o AccountSectionsSaved

SaveLayout == AccountSectionsSaved \o CharacterSectionsSaved \o ProgressSectionsSaved

-----------------------------------------------------------------------------
(* ... and in the order in which the agent reads them back.                *)

AccountSectionsRead ==
    << Sec("AccountInfo", <<>>), Sec("GoldMeritMasteryInfo", <<"Slots">>),
       Sec("PlatinumMeritMasteryInfo", <<"ExtendedMemorize", "Unlocked", "Mastery", "SpecialMastery">>),
       Sec("DiamondMeritMasteryInfo", <<"ExtendedMemorize", "Unlocked", "Mastery", "SpecialMastery">>),
       Sec("CollectionInfo", <<"Slots">>), Sec("ResearchSupportInfo", <<>>) >>

\* The agent reads mission pages, which the world server does not write.
SharedSectionsRead ==
    << Sec("EventPassInfo", <<"MissionPages", "MissionSlots", "RewardSlots">>),
       Sec("CostumeWarehouseInfo", <<"Slots">>), Sec("WarehouseInfo", <<"Slots">>),
       Sec("AnimaMasteryInfo", <<"PresetData", "CategoryData">>), Sec("SettingsInfo", <<>>),
       Sec("Info", <<>>) >>

CharacterSectionsRead ==
    << Sec("StyleInfo", <<>>), Sec("BattleModeInfo", <<>>),
       Sec("BuffInfo", <<"Slots">>), Sec("EquipmentInfo", <<"Slots", "Inventory", "Link", "Lock">>),
       Sec("InventoryInfo", <<"Slots">>), Sec("SkillSlotInfo", <<"Slots">>), Sec("QuickSlotInfo", <<"Slots">>) >>

AbilitySectionsRead ==
    << Sec("AbilityInfo", <<"Essence", "Blended", "Karma">>), Sec("BlessingBeadInfo", <<"Slots">>),
       Sec("PremiumServiceInfo", <<"Slots">>), Sec("QuestInfo", <<"Slots">>),
       Sec("DailyQuestInfo", <<"Slots">>), Sec("MercenaryInfo", <<"Slots">>),
       Sec("AppearanceInfo", <<"Equipment", "Inventory">>) >>

AchievementSectionsRead ==
    << Sec("AchievementInfo", <<"Slots", "RewardSlots">>),
       Sec("CraftInfo", <<"Slots">>), Sec("RequestCraftInfo", <<"Slots">>), Sec("CooldownInfo", <<"Slots">>),
       Sec("VehicleInventoryInfo", <<"Slots">>), Sec("WarpServiceInfo", <<"Slots">>),
       Sec("OverlordMasteryInfo", <<"Slots">>) >>

MasterySectionsRead ==
    << Sec("HonorMedalInfo", <<"Slots">>),
       Sec("ForceWingInfo", <<"Preset", "Training">>), Sec("GiftboxInfo", <<"Slots", "RewardSlots">>),
       Sec("TransformInfo", <<"Slots">>), Sec("TranscendenceInfo", <<"Slots">>),
       Sec("StellarMasteryInfo", <<"Slots">>), Sec("MythMasteryInfo", <<"Slots">>) >>

LastSectionsRead ==
    << Sec("NewbieSupportInfo", <<"Slots">>), Sec("CostumeInfo", <<"Pages", "AppliedSlots">>),
       Sec("TemporaryInventoryInfo", <<"Slots">>), Sec("RecoveryInfo", <<"Prices", "Slots">>),
       Sec("PresetInfo", <<>>), Sec("AuraMasteryInfo", <<"Slots">>), Sec("SecretShopInfo", <<>>),
       Sec("DamageBoosterInfo", <<"Slots">>), Sec("ExplorationInfo", <<"Slots">>) >>

ReadLayout ==
    AccountSectionsRead \o SharedSectionsRead \o CharacterSectionsRead \o AbilitySectionsRead
        \o AchievementSectionsRead \o MasterySectionsRead \o LastSectionsRead

-----------------------------------------------------------------------------
(* Loading: the columns of the GetCharacter procedure, the variables the   *)
(* agent binds to them by position, the arrays it then appends to the      *)
(* packet, and the arrays the world server takes from it.                  *)

SlotColumnsSelected ==
    << Sec("EquipmentInfo", <<"Slots", "Inventory", "Link", "Lock">>), Sec("InventoryInfo", <<"Slots">>),
       Sec("SkillSlotInfo", <<"Slots">>), Sec("QuickSlotInfo", <<"Slots">>),
       Sec("AbilityInfo", <<"Essence", "Blended", "Karma">>), Sec("BlessingBeadInfo", <<"Slots">>),
       Sec("PremiumServiceInfo", <<"Slots">>), Sec("QuestInfo", <<"Slots">>),
       Sec("DailyQuestInfo", <<"Slots">>), Sec("MercenaryInfo", <<"Slots">>),
       Sec("AppearanceInfo", <<"Equipment", "Inventory">>), Sec("AchievementInfo", <<"Slots", "RewardSlots">>),
       Sec("AchievementExtendedInfo", <<"Slots">>), Sec("CooldownInfo", <<"Slots">>),
       Sec("CraftInfo", <<"Slots">>), Sec("RequestCraftInfo", <<"Slots">>),
       Sec("VehicleInventoryInfo", <<"Slots">>), Sec("GoldMeritMasteryInfo", <<"Slots">>),
       Sec("PlatinumMeritMasteryInfo", <<"ExtendedMemorize", "Unlocked", "Mastery", "SpecialMastery">>),
       Sec("DiamondMeritMasteryInfo", <<"ExtendedMemorize", "Unlocked", "Mastery", "SpecialMastery">>),
       Sec("WarpServiceInfo", <<"Slots">>), Sec("OverlordMasteryInfo", <<"Slots">>),
       Sec("HonorMedalInfo", <<"Slots">>), Sec("ForceWingInfo", <<"Preset", "Training">>),
       Sec("GiftboxInfo", <<"Slots">>), Sec("CollectionInfo", <<"Slots">>), Sec("TransformInfo", <<"Slots">>),
       Sec("AuraMasteryInfo", <<"Slots">>), Sec("TranscendenceInfo", <<"Slots">>),
       Sec("DamageBoosterInfo", <<"Slots">>), Sec("StellarMasteryInfo", <<"Slots">>),
       Sec("MythMasteryInfo", <<"Slots">>), Sec("NewbieSupportInfo", <<"Slots">>),
       Sec("EventPassInfo", <<"MissionPages", "MissionSlots", "RewardSlots">>),
       Sec("CostumeWarehouseInfo", <<"Slots">>), Sec("CostumeInfo", <<"Pages", "AppliedSlots">>),
       Sec("ExplorationInfo", <<"Slots">>), Sec("AnimaMasteryInfo", <<"PresetData", "CategoryData">>),
       Sec("SettingsInfo", <<"HotKeys", "Options", "Macros">>), Sec("WarehouseInfo", <<"Slots">>),
       Sec("BuffInfo", <<"Slots">>) >>

\* Fault: the first column is not bound.
SlotColumnsFetchedLate == Tail(SlotColumnsSelected)

SlotColumnsFetched ==
    << Sec("EquipmentInfo", <<"Slots", "Inventory", "Link", "Lock">>), Sec("InventoryInfo", <<"Slots">>),
       Sec("SkillSlotInfo", <<"Slots">>), Sec("QuickSlotInfo", <<"Slots">>),
       Sec("AbilityInfo", <<"Essence", "Blended", "Karma">>), Sec("BlessingBeadInfo", <<"Slots">>),
       Sec("PremiumServiceInfo", <<"Slots">>), Sec("QuestInfo", <<"Slots">>),
       Sec("DailyQuestInfo", <<"Slots">>), Sec("MercenaryInfo", <<"Slots">>),
       Sec("AppearanceInfo", <<"Equipment", "Inventory">>), Sec("AchievementInfo", <<"Slots", "RewardSlots">>),
       Sec("AchievementExtendedInfo", <<"Slots">>), Sec("CooldownInfo", <<"Slots">>),
       Sec("CraftInfo", <<"Slots">>), Sec("RequestCraftInfo", <<"Slots">>),
       Sec("VehicleInventoryInfo", <<"Slots">>), Sec("GoldMeritMasteryInfo", <<"Slots">>),
       Sec("PlatinumMeritMasteryInfo", <<"ExtendedMemorize", "Unlocked", "Mastery", "SpecialMastery">>),
       Sec("DiamondMeritMasteryInfo", <<"ExtendedMemorize", "Unlocked", "Mastery", "SpecialMastery">>),
       Sec("WarpServiceInfo", <<"Slots">>), Sec("OverlordMasteryInfo", <<"Slots">>),
       Sec("HonorMedalInfo", <<"Slots">>), Sec("ForceWingInfo", <<"Preset", "Training">>),
       Sec("GiftboxInfo", <<"Slots">>), Sec("CollectionInfo", <<"Slots">>), Sec("TransformInfo", <<"Slots">>),
       Sec("AuraMasteryInfo", <<"Slots">>), Sec("TranscendenceInfo", <<"Slots">>),
       Sec("DamageBoosterInfo", <<"Slots">>), Sec("StellarMasteryInfo", <<"Slots">>),
       Sec("MythMasteryInfo", <<"Slots">>), Sec("NewbieSupportInfo", <<"Slots">>),
       Sec("EventPassInfo", <<"MissionPages", "MissionSlots", "RewardSlots">>),
       Sec("CostumeWarehouseInfo", <<"Slots">>), Sec("CostumeInfo", <<"Pages", "AppliedSlots">>),
       Sec("ExplorationInfo", <<"Slots">>), Sec("AnimaMasteryInfo", <<"PresetData", "CategoryData">>),
       Sec("SettingsInfo", <<"HotKeys", "Options", "Macros">>), Sec("WarehouseInfo", <<"Slots">>),
       Sec("BuffInfo", <<"Slots">>) >>

\* The reward slots of the gift box are appended and were never fetched.
SlotArraysAppended ==
    << Sec("EquipmentInfo", <<"Slots", "Inventory", "Link", "Lock">>), Sec("InventoryInfo", <<"Slots">>),
       Sec("VehicleInventoryInfo", <<"Slots">>), Sec("SkillSlotInfo", <<"Slots">>),
       Sec("QuickSlotInfo", <<"Slots">>), Sec("MercenaryInfo", <<"Slots">>),
       Sec("AbilityInfo", <<"Essence", "Blended", "Karma">>), Sec("BlessingBeadInfo", <<"Slots">>),
       Sec("PremiumServiceInfo", <<"Slots">>), Sec("QuestInfo", <<"Slots">>),
       Sec("DailyQuestInfo", <<"Slots">>), Sec("AppearanceInfo", <<"Equipment", "Inventory">>),
       Sec("AchievementInfo", <<"Slots", "RewardSlots">>), Sec("CraftInfo", <<"Slots">>),
       Sec("RequestCraftInfo", <<"Slots">>), Sec("CooldownInfo", <<"Slots">>),
       Sec("GoldMeritMasteryInfo", <<"Slots">>),
       Sec("PlatinumMeritMasteryInfo", <<"ExtendedMemorize", "Unlocked", "Mastery", "SpecialMastery">>),
       Sec("DiamondMeritMasteryInfo", <<"ExtendedMemorize", "Unlocked", "Mastery", "SpecialMastery">>),
       Sec("AchievementExtendedInfo", <<"Slots">>), Sec("WarpServiceInfo", <<"Slots">>),
       Sec("OverlordMasteryInfo", <<"Slots">>), Sec("HonorMedalInfo", <<"Slots">>),
       Sec("ForceWingInfo", <<"Preset", "Training">>), Sec("GiftboxInfo", <<"Slots", "RewardSlots">>),
       Sec("CollectionInfo", <<"Slots">>), Sec("TransformInfo", <<"Slots">>), Sec("AuraMasteryInfo", <<"Slots">>),
       Sec("TranscendenceInfo", <<"Slots">>), Sec("DamageBoosterInfo", <<"Slots">>),
       Sec("StellarMasteryInfo", <<"Slots">>), Sec("MythMasteryInfo", <<"Slots">>),
       Sec("NewbieSupportInfo", <<"Slots">>),
       Sec("EventPassInfo", <<"MissionPages", "MissionSlots", "RewardSlots">>),
       Sec("CostumeWarehouseInfo", <<"Slots">>), Sec("CostumeInfo", <<"Pages", "AppliedSlots">>),
       Sec("ExplorationInfo", <<"Slots">>), Sec("AnimaMasteryInfo", <<"PresetData", "CategoryData">>),
       Sec("WarehouseInfo", <<"Slots">>), Sec("BuffInfo", <<"Slots">>) >>

EquipmentArraysTaken ==
    << Sec("EquipmentInfo", <<"Slots", "Inventory", "Link", "Lock">>), Sec("InventoryInfo", <<"Slots">>),
       Sec("VehicleInventoryInfo", <<"Slots">>), Sec("SkillSlotInfo", <<"Slots">>),
       Sec("QuickSlotInfo", <<"Slots">>), Sec("MercenaryInfo", <<"Slots">>),
       Sec("AbilityInfo", <<"Essence", "Blended", "Karma">>), Sec("BlessingBeadInfo", <<"Slots">>),
       Sec("PremiumServiceInfo", <<"Slots">>), Sec("QuestInfo", <<"Slots">>),
       Sec("DailyQuestInfo", <<"Slots">>), Sec("AppearanceInfo", <<"Equipment", "Inventory">>),
       Sec("AchievementInfo", <<"Slots", "RewardSlots">>) >>

MasteryArraysTaken ==
    << Sec("CraftInfo", <<"Slots">>), Sec("RequestCraftInfo", <<"Slots">>), Sec("CooldownInfo", <<"Slots">>),
       Sec("GoldMeritMasteryInfo", <<"Slots">>),
       Sec("PlatinumMeritMasteryInfo", <<"ExtendedMemorize", "Unlocked", "Mastery", "SpecialMastery">>),
       Sec("DiamondMeritMasteryInfo", <<"ExtendedMemorize", "Unlocked", "Mastery", "SpecialMastery">>),
       Sec("AchievementExtendedInfo", <<"Slots">>), Sec("WarpServiceInfo", <<"Slots">>),
       Sec("OverlordMasteryInfo", <<"Slots">>), Sec("HonorMedalInfo", <<"Slots">>),
       Sec("ForceWingInfo", <<"Preset", "Training">>), Sec("GiftboxInfo", <<"Slots", "RewardSlots">>),
       Sec("CollectionInfo", <<"Slots">>), Sec("TransformInfo", <<"Slots">>) >>

\* The mission pages of the event pass, which the agent appends, are not taken.
LastArraysTaken ==
    << Sec("AuraMasteryInfo", <<"Slots">>),
       Sec("TranscendenceInfo", <<"Slots">>), Sec("DamageBoosterInfo", <<"Slots">>),
       Sec("StellarMasteryInfo", <<"Slots">>), Sec("MythMasteryInfo", <<"Slots">>),
       Sec("NewbieSupportInfo", <<"Slots">>), Sec("EventPassInfo", <<"MissionSlots", "RewardSlots">>),
       Sec("CostumeWarehouseInfo", <<"Slots">>), Sec("CostumeInfo", <<"Pages", "AppliedSlots">>),
       Sec("ExplorationInfo", <<"Slots">>), Sec("AnimaMasteryInfo", <<"PresetData", "CategoryData">>),
       Sec("WarehouseInfo", <<"Slots">>), Sec("BuffInfo", <<"Slots">>) >>

ArraysTaken == EquipmentArraysTaken \o MasteryArraysTaken \o LastArraysTaken

-----------------------------------------------------------------------------
(* The sections a SyncMask has a bit for.                                  *)

Names(layout) == { layout[i].name : i \in DOMAIN layout }

SyncMaskSections == Names(SaveLayout) \cup {"AchievementExtendedInfo"}

\* The counter that gives the length of an array: gift box rewards and
\* recovery prices share the counter of their slots.
CounterOf(s, a) == IF a \in {"RewardSlots", "Prices"} /\ s \in {"GiftboxInfo", "RecoveryInfo"}
                   THEN <<s, "Slots">> ELSE <<s, a>>

\* When loading, the diamond arrays are appended with the platinum counters.
AppendCounterOf(s, a) == IF s = "DiamondMeritMasteryInfo"
                         THEN <<"PlatinumMeritMasteryInfo", a>> ELSE CounterOf(s, a)

\* The element type an array is written with: saving multiplies the applied
\* costume slots by the size of a costume page.
SavedTypeOf(s, a) == IF <<s, a>> = <<"CostumeInfo", "AppliedSlots">>
                     THEN <<"CostumeInfo", "Pages">> ELSE <<s, a>>

\* The element type an array is taken with on a load: the diamond mastery slots are
\* measured by the size of the unlocked ones.
TakenTypeOf(s, a) == IF <<s, a>> = <<"DiamondMeritMasteryInfo", "Mastery">>
                     THEN <<"DiamondMeritMasteryInfo", "Unlocked">> ELSE <<s, a>>

\* The type an array has by its name: what every other reader and writer uses.
OwnType(s, a) == <<s, a>>

Repeat(unit, n) == [i \in 1 .. n |-> unit]

\* The units of the arrays of section sec.
ArrayUnits(sec, lengths, Type(_, _), Counter(_, _)) ==
    FlattenSeq([i \in DOMAIN sec.arrays |->
        Repeat(Type(sec.name, sec.arrays[i]), lengths[Counter(sec.name, sec.arrays[i])])])

\* The marked sections of a layout, each with its Info structure and its arrays.
MarkedUnits(layout, marked, lengths, Type(_, _)) ==
    FlattenSeq([i \in DOMAIN layout |->
        IF layout[i].name \in marked
        THEN <<<<layout[i].name, "Info">>>> \o ArrayUnits(layout[i], lengths, Type, CounterOf)
        ELSE <<>>])

\* The slot arrays of a layout, without Info structures.
SlotUnits(layout, lengths, Type(_, _), Counter(_, _)) ==
    FlattenSeq([i \in DOMAIN layout |-> ArrayUnits(layout[i], lengths, Type, Counter)])

\* ReadMemory moves the cursor by what it expects: from the first unit that is not the
\* one expected, nothing is read as it was written.
Misread(sent, expected) ==
    LET wrong == { i \in DOMAIN expected : i > Len(sent) \/ sent[i] # expected[i] }
    IN  { expected[i][1] : i \in IF wrong = {} THEN {} ELSE Min(wrong) .. Len(expected) }

\* The sections the agent misreads in the DBSYNC packet of a character.
MisreadOnSave(marked, lengths) ==
    Misread(MarkedUnits(SaveLayout, marked, lengths, SavedTypeOf),
            MarkedUnits(ReadLayout, marked, lengths, OwnType))

\* The sections the world server misreads in a GET_CHARACTER answer, whose
\* counters it knows from the fixed part of the packet.
MisreadOnLoad(lengths) ==
    Misread(SlotUnits(SlotArraysAppended, lengths, OwnType, AppendCounterOf),
            SlotUnits(ArraysTaken, lengths, TakenTypeOf, CounterOf))

Columns(layout) ==
    FlattenSeq([i \in DOMAIN layout |->
        [j \in DOMAIN layout[i].arrays |-> <<layout[i].name, layout[i].arrays[j]>>]])

\* Sections with an array bound to a column of another array, or to none.
Misbound ==
    LET selected == Columns(SlotColumnsSelected)
        fetched  == Columns(SlotColumnsFetched)
    IN  { column[1] : column \in { c \in ToSet(Columns(SlotArraysAppended)) :
              ~\E i \in DOMAIN fetched \cap DOMAIN selected : fetched[i] = c /\ selected[i] = c } }

\* The GetCharacter query joins WarpService on a column that is not its own:
\* the row may be the one of any character.
Misjoined == {"WarpServiceInfo"}

\* The extended style is saved with the style, and the query does not select it: the
\* style is loaded without it.
Unselected == {"StyleInfo"}

\* Sections no field of the answer carries: the account's comes with the
\* login, the other two are only ever saved.
NotLoaded == {"AccountInfo", "TemporaryInventoryInfo", "RecoveryInfo"}

-----------------------------------------------------------------------------
VARIABLES
    shape,      \* Character->Data, as the lengths of its arrays
    mask,       \* Character->SyncMask when the sections are written
    refused,    \* the sections whose procedure fails
    phase,      \* "marked", "saved" or "loaded"
    dirty,      \* Character->SyncMask after the answer of the save
    stored,     \* the row of each section: as before, as sent, or something else
    loaded      \* what the next GET_CHARACTER makes of each section

vars == <<shape, mask, refused, phase, dirty, stored, loaded>>

AllSections == Names(SaveLayout) \cup Names(SlotArraysAppended)

LayoutTypeOK ==
    /\ phase \in {"marked", "saved", "loaded"}
    /\ mask \subseteq SyncMaskSections /\ refused \subseteq mask
    /\ dirty \subseteq SyncMaskSections
    /\ stored \in [AllSections -> {"old", "sent", "garbled"}]
    /\ loaded \in [AllSections -> {"unread", "stored", "garbled", "foreign", "blank"}]

Init ==
    /\ \E case \in Cases : shape = case.shape /\ mask = case.mask /\ refused = case.refused
    /\ phase = "marked"
    /\ dirty = mask
    /\ stored = [s \in AllSections |-> "old"]
    /\ loaded = [s \in AllSections |-> "unread"]

\* Fault: the costumes' failure is reported as another section's.
FailedBitMixed(s) == IF s = "CostumeInfo" THEN "CostumeWarehouseInfo" ELSE s

\* The bit of the answer that a refused section sets.
FailedBit(s) == IF s = "TranscendenceInfo" THEN "TransformInfo" ELSE s

\* The call of the recovery procedure with a preset's values, when the
\* database takes it, replaces the recovery row.
Overwrites(s, taken) == s = "RecoveryInfo" /\ "PresetInfo" \in taken

\* ServerSyncCharacter, DBSYNC at the agent and its answer.  The preset is sent to
\* the procedure of the recovery data, which may take it, and the secret shop to
\* one that takes five arguments and gets three.
Save ==
    /\ phase = "marked"
    /\ LET misread == MisreadOnSave(mask, shape)
           failed  == refused \cup (mask \cap {"SecretShopInfo"})
           taken   == (mask \cap Names(ReadLayout)) \ failed
       IN  /\ stored' = [s \in AllSections |->
                            CASE Overwrites(s, taken) -> "garbled"
                              [] ~Overwrites(s, taken) /\ s \in taken \ {"PresetInfo"} ->
                                     IF s \in misread THEN "garbled" ELSE "sent"
                              [] OTHER -> "old"]
           /\ dirty' = { FailedBit(s) : s \in failed }
    /\ phase' = "saved"
    /\ UNCHANGED <<shape, mask, refused, loaded>>

\* GET_CHARACTER at the agent and D2W GET_CHARACTER at the world server.
Load ==
    /\ phase = "saved"
    /\ LET misread == MisreadOnLoad(shape)
       IN  loaded' = [s \in AllSections |->
                         CASE s \in NotLoaded -> "unread"
                           [] s \in misread -> "garbled"
                           [] s \in Misjoined \ misread -> "foreign"
                           [] s \in (Misbound \cup Unselected) \ misread -> "blank"
                           [] OTHER -> "stored"]
    /\ phase' = "loaded"
    /\ UNCHANGED <<shape, mask, refused, dirty, stored>>

Next == Save \/ Load

Spec == Init /\ [][Next]_vars

-----------------------------------------------------------------------------
(* Properties.                                                             *)

\* The sections of a layout from section s on.
From(layout, s) ==
    LET first == CHOOSE i \in DOMAIN layout : layout[i].name = s
    IN  { layout[i].name : i \in first .. Len(layout) }

\* Where the two lists of a save disagree: the mission pages of the event pass
\* and the size of the applied costume slots.
DisagreeOnSave(s) ==
    \/ /\ "EventPassInfo" \in mask /\ shape[<<"EventPassInfo", "MissionPages">>] > 0
       /\ s \in From(ReadLayout, "EventPassInfo")
    \/ /\ "CostumeInfo" \in mask /\ shape[<<"CostumeInfo", "AppliedSlots">>] > 0
       /\ s \in From(ReadLayout, "CostumeInfo")

\* A section of the mask reaches its row as the world server wrote it, whatever the
\* lengths of the arrays and whatever else is in the mask, except behind the two known
\* disagreements and when the preset has overwritten the recovery data: a DBSYNC packet
\* has no separators, so one array too many or too few garbles all sections behind it.
SavedIntact ==
    phase # "marked" =>
        \A s \in mask : \/ stored[s] \in {"sent", "old"}
                        \/ DisagreeOnSave(s)
                        \/ s = "RecoveryInfo" /\ "PresetInfo" \in mask

\* A section that was not stored is marked again, so that the next tick retries it; the
\* transcendence data (whose failure marks the transform data), the extended achievements
\* (which no packet carries) and the preset (stored elsewhere) are the known exceptions.
UnsavedStaysMarked ==
    phase # "marked" =>
        \A s \in mask : stored[s] = "old" =>
            s \in dirty \cup {"TranscendenceInfo", "AchievementExtendedInfo", "PresetInfo"}

\* Where the writer and the reader of a load disagree: the diamond arrays have the
\* lengths of the platinum ones, the diamond mastery slots are taken with the size of
\* another array's, and the mission pages are not taken.
DisagreeOnLoad(s) ==
    \/ /\ \/ shape[<<"DiamondMeritMasteryInfo", "Mastery">>] > 0
          \/ \E a \in {"ExtendedMemorize", "Unlocked", "Mastery", "SpecialMastery"} :
                shape[<<"DiamondMeritMasteryInfo", a>>] # shape[<<"PlatinumMeritMasteryInfo", a>>]
       /\ s \in From(ArraysTaken, "DiamondMeritMasteryInfo")
    \/ /\ shape[<<"EventPassInfo", "MissionPages">>] > 0
       /\ s \in From(ArraysTaken, "EventPassInfo")

\* Whatever was saved is what the next load of the character finds, section by section,
\* except behind the three known disagreements, for the warp services (joined on another
\* table's key), the gift box (whose rewards are never fetched), the style (of which a
\* field is not selected) and the sections no load carries: columns, bindings, packet and
\* reader are four lists in four places.
LoadedIntact ==
    phase = "loaded" =>
        \A s \in AllSections : \/ loaded[s] = "stored"
                               \/ DisagreeOnLoad(s)
                               \/ s \in {"WarpServiceInfo", "GiftboxInfo"} \cup Unselected \cup NotLoaded

=============================================================================
