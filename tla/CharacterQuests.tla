-------------------------- MODULE CharacterQuests --------------------------
(***************************************************************************)
(* The quest log of one character: quests are begun, followed from NPC to    *)
(* NPC, counted, cleared, cancelled, deleted and restored.  slots mirrors    *)
(* QuestInfo.Slots with its order, because slots are found by a scan and      *)
(* removed by moving what is behind them; place is the SlotIndex of a slot.   *)
(*                                                                         *)
(* The requests are those of a client in step with the server: it begins and  *)
(* deletes no quest it has, names no quest it does not have and no slot of     *)
(* the inventory twice; nothing else keeps it from being paid twice for one    *)
(* quest.  A request that fails may end the connection, which is not shown:    *)
(* what it did until then is kept.                                            *)
(* Left out: conditions on level and rank and distances to NPCs, which only   *)
(* refuse; the notices of the log; rank-up quests; rewards other than items.  *)
(***************************************************************************)
EXTENDS QuestTables

CONSTANTS
    LogPlaces,  \* slot indices of the quest log
    BagSlots,   \* slots of the inventory
    Deletable,  \* quests with a DeleteType
    MaxActions, \* bound: actions of one packet
    MaxUnits    \* bound: units of a ware in a slot

VARIABLES
    slots,      \* QuestInfo.Slots
    done,   \* FinishedQuests
    deleted,    \* DeletedQuests
    trials,     \* FinishedQuestDungeons
    bag,        \* the quest items of the inventory
    drop,       \* a quest item on the ground, or Nothing
    reply,      \* the answer to a QUEST_CLEAR, "none" after any other step
    since,      \* history: what was killed since each quest in the log was begun
    paid        \* history: how often each quest was paid

questVars == <<slots, done, deleted, trials, bag, drop, reply, since, paid>>
items == <<bag, drop>>
flags == <<done, deleted, trials>>
history == <<since, paid>>

QuestSlot == [place : LogPlaces, quest : Quests, step : Nat \ {0}, counter : Counters]

QuestTypeOK ==
    /\ slots \in Seq(QuestSlot) /\ Len(slots) <= Cardinality(LogPlaces)
    /\ done \subseteq Quests /\ deleted \subseteq done /\ trials \subseteq Trials
    /\ bag \in [BagSlots -> Goods \union {Nothing}] /\ drop \in Goods \union {Nothing}
    /\ reply \in {"none", "cleared", "refused"}
    /\ \A q \in Quests : KillsOfOne(q, since[q])
    /\ paid \in [Quests -> 0 .. 2]

QuestInit ==
    /\ slots = <<>> /\ done = {} /\ deleted = {} /\ trials = {}
    /\ bag = [s \in BagSlots |-> Nothing] /\ drop = Nothing /\ reply = "none"
    /\ since = [q \in Quests |-> NoKills] /\ paid = [q \in Quests |-> 0]

-----------------------------------------------------------------------------
(* The log *)

InLog == {slots[k].quest : k \in DOMAIN slots}

\* RTCharacterGetQuestSlot and the comparison of the quest that follows it.
Found(p, q) == {k \in DOMAIN slots : slots[k].place = p /\ slots[k].quest = q}

\* RTCharacterRemoveQuestSlot: the slots behind it move up.
RemoveQuestSlot(p) == RemoveAt(slots, CHOOSE k \in DOMAIN slots : slots[k].place = p)

QuestBegin(q, p) ==
    /\ q \notin InLog /\ q \notin done
    /\ \A k \in DOMAIN slots : slots[k].place # p
    /\ RelatedQuest[q] # Nothing => RelatedQuest[q] \in done
    /\ slots' = Append(slots, [place |-> p, quest |-> q, step |-> FirstStep(q),
                               counter |-> NoCounters])
    /\ reply' = "none"
    /\ UNCHANGED <<flags, items, history>>

QuestCancel(q, p) ==
    /\ Found(p, q) # {}
    /\ slots' = RemoveQuestSlot(p)
    /\ since' = [since EXCEPT ![q] = NoKills]
    /\ reply' = "none"
    /\ UNCHANGED <<flags, items, paid>>

\* RTCharacterQuestAction on a quest that stands at step n; inside says whether the
\* character is in a dungeon, where triggers may be pulled.
CanAct(q, n, a, inside) ==
    /\ a \in DOMAIN NpcSet[q]
    /\ NpcSet[q][a].order = n
    /\ NpcSet[q][a].act = "trigger" => inside

Acted(q, n, a, inside) ==
    IF CanAct(q, n, a, inside) /\ a < Len(NpcSet[q]) THEN NpcSet[q][a + 1].order ELSE n

\* All actions of a packet are tried, also after one that failed.
QuestAction(q, p, list, inside) ==
    /\ Found(p, q) # {}
    /\ slots' = [k \in DOMAIN slots |->
                   IF k \in Found(p, q)
                   THEN [slots[k] EXCEPT
                           !.step = FoldLeft(LAMBDA n, a : Acted(q, n, a, inside), @, list)]
                   ELSE slots[k]]
    /\ reply' = "none"
    /\ UNCHANGED <<flags, items, history>>

-----------------------------------------------------------------------------
(* Completion *)

\* The first step of the order the slot stands at must be the end.
AtEnd(q, r) ==
    /\ r.step <= Len(NpcSet[q])
    /\ LET here == {a \in DOMAIN NpcSet[q] : NpcSet[q][a].order = r.step}
       IN \E a \in here : NpcSet[q][a].act = "end" /\ \A b \in here : a <= b

UnitsOf(w, picks) ==
    LET counts == [i \in DOMAIN picks |-> IF bag[picks[i]].ware = w THEN bag[picks[i]].count ELSE 0]
    IN FoldFunction(LAMBDA a, b : a + b, 0, counts)

Delivered(q, picks) ==
    /\ \A i \in DOMAIN picks : bag[picks[i]] # Nothing
    /\ \A i \in DOMAIN MissionItems[q] :
          UnitsOf(MissionItems[q][i][1], picks) >= MissionItems[q][i][2]

Ready(q, p, picks) ==
    \E k \in Found(p, q) :
       /\ AtEnd(q, slots[k])
       /\ MobsKilled(q, slots[k].counter)
       /\ Delivered(q, picks)

\* What is left when the items of a quest have been handed over.  They are taken
\* before the rest is looked at, and not given back.
\* Fault: each item is taken as it is looked at.
TakenAtOnce(q, p, picks) ==
    [s \in BagSlots |-> IF \E i \in DOMAIN picks : picks[i] = s THEN Nothing ELSE bag[s]]

Taken(q, p, picks) ==
    IF Ready(q, p, picks)
    THEN [s \in BagSlots |-> IF \E i \in DOMAIN picks : picks[i] = s THEN Nothing ELSE bag[s]]
    ELSE bag

\* Fault: the quest is not marked as done.
FinishUnmarked(q, p) == slots' = RemoveQuestSlot(p) /\ UNCHANGED done

Finish(q, p) == slots' = RemoveQuestSlot(p) /\ done' = done \union {q}

QuestClear(q, p, picks, s) ==
    LET left == Taken(q, p, picks)
        reward == RewardItem[q]
        pays == /\ Ready(q, p, picks)
                /\ MissionDungeons[q] \subseteq trials
                /\ reward # Nothing => RoomFor(left, s, one(reward))
    IN
    /\ Found(p, q) # {}
    /\ IF pays
       THEN /\ bag' = IF reward = Nothing THEN left ELSE PutIn(left, s, one(reward))
            /\ Finish(q, p)
            /\ paid' = [paid EXCEPT ![q] = Lesser(2, @ + 1)]
            /\ since' = [since EXCEPT ![q] = NoKills]
            /\ reply' = "cleared"
       ELSE /\ bag' = left /\ reply' = "refused"
            /\ UNCHANGED <<slots, done, history>>
    /\ UNCHANGED <<deleted, trials, drop>>

QuestDelete(q) ==
    /\ q \notin InLog /\ q \in Deletable /\ q \notin done
    /\ done' = done \union {q} /\ deleted' = deleted \union {q}
    /\ reply' = "none"
    /\ UNCHANGED <<slots, trials, items, history>>

QuestRestore(q) ==
    /\ q \in deleted
    /\ done' = done \ {q} /\ deleted' = deleted \ {q}
    /\ reply' = "none"
    /\ UNCHANGED <<slots, trials, items, history>>

-----------------------------------------------------------------------------
(* What is counted *)

\* Fault: a mob is counted for the first quest that asks for it only.
IncrementFirst(s) ==
    LET asking == {k \in DOMAIN slots : CountKill(slots[k].quest, slots[k].counter, s) # slots[k].counter}
    IN slots' = [k \in DOMAIN slots |->
                   IF k \in asking /\ \A j \in asking : k <= j
                   THEN [slots[k] EXCEPT !.counter = CountKill(slots[k].quest, @, s)] ELSE slots[k]]

IncrementQuestMobCounter(s) ==
    slots' = [k \in DOMAIN slots |->
                [slots[k] EXCEPT !.counter = CountKill(slots[k].quest, @, s)]]

\* The items of all quests of the log in the order they are looked through.
Asking(w) ==
    {a \in (DOMAIN slots) \X (1 .. CounterCount) :
        LET asked == MissionItems[slots[a[1]].quest] IN a[2] \in DOMAIN asked /\ asked[a[2]][1] = w}

Before(a, b) == a[1] < b[1] \/ (a[1] = b[1] /\ a[2] <= b[2])

\* The first quest that asks for the ware decides, whatever the others need.
HasQuestItemCounter(w) ==
    \E a \in Asking(w) :
       /\ \A b \in Asking(w) : Before(a, b)
       /\ LET r == slots[a[1]] IN r.counter[ItemCounter(r.quest, a[2])] < MissionItems[r.quest][a[2]][2]

\* The character's attack is the last the mob needed; a ware may be left behind.
KillMob(s) ==
    /\ IncrementQuestMobCounter(s)
    /\ \/ UNCHANGED drop
       \/ \E w \in QuestDrops[s] : drop = Nothing /\ HasQuestItemCounter(w) /\ drop' = one(w)
    /\ since' = [q \in Quests |-> IF q \in InLog THEN OneMore(q, since[q], s) ELSE since[q]]
    /\ reply' = "none"
    /\ UNCHANGED <<flags, bag, paid>>

\* The counter is the number that was picked up last, not the number held.
UpdateQuestItemCounter(x) ==
    slots' = [k \in DOMAIN slots |->
                LET q == slots[k].quest IN
                [slots[k] EXCEPT !.counter =
                   [j \in 1 .. CounterCount |->
                      IF \E i \in DOMAIN MissionItems[q] :
                            ItemCounter(q, i) = j /\ MissionItems[q][i][1] = x.ware
                      THEN Stored(x.count) ELSE @[j]]]]

\* A ware that does not fit the slot named is lost (see CharacterItems).
LootItem(s) ==
    /\ drop # Nothing /\ (bag[s] # Nothing => bag[s].count < MaxUnits)
    /\ IF RoomFor(bag, s, drop)
       THEN bag' = PutIn(bag, s, drop) /\ UpdateQuestItemCounter(drop)
       ELSE UNCHANGED <<bag, slots>>
    /\ drop' = Nothing /\ reply' = "none"
    /\ UNCHANGED <<flags, history>>

\* An item is dropped, sold or used; no counter hears of it.
Discard(s) ==
    /\ bag[s] # Nothing
    /\ bag' = [bag EXCEPT ![s] = Nothing] /\ reply' = "none"
    /\ UNCHANGED <<slots, flags, drop, history>>

\* QUEST_DUNGEON_END: the end of a dungeon clears the flag of every member of the
\* party inside, and sets that of the member who asked for it.
QuestDungeonEnd(d, own) ==
    /\ trials' = IF own THEN trials \union {d} ELSE trials \ {d}
    /\ reply' = "none"
    /\ UNCHANGED <<slots, done, deleted, items, history>>

-----------------------------------------------------------------------------
\* A packet has actions of the quest in their order.
Lists(q) ==
    UNION {{[i \in 1 .. n |-> a + i - 1] : a \in 1 .. Len(NpcSet[q]) + 1 - n} : n \in 1 .. MaxActions}
Picks(q) == {f \in [DOMAIN MissionItems[q] -> BagSlots] : IsInjective(f)}

Log ==
    \E q \in Quests :
       \/ QuestDelete(q) \/ QuestRestore(q)
       \/ \E p \in LogPlaces :
             \/ QuestBegin(q, p) \/ QuestCancel(q, p)
             \/ \E list \in Lists(q), inside \in BOOLEAN : QuestAction(q, p, list, inside)
             \/ \E picks \in Picks(q), s \in BagSlots : QuestClear(q, p, picks, s)

Play ==
    \/ \E s \in Species : KillMob(s)
    \/ \E s \in BagSlots : LootItem(s) \/ Discard(s)
    \/ \E d \in Trials, own \in BOOLEAN : QuestDungeonEnd(d, own)

QuestNext == Log \/ Play

QuestSpec == QuestInit /\ [][QuestNext]_questVars

-----------------------------------------------------------------------------
\* Every counter of every quest in the log is what was killed since the quest was
\* begun, up to what it asks for, whatever was begun, cleared and cancelled in the
\* slots around it.
KillsCounted ==
    \A k \in DOMAIN slots : CountsAre(slots[k].quest, slots[k].counter, since[slots[k].quest])

\* No quest is ever paid twice, however it is begun, cancelled, deleted and restored.
PaidOnce == \A q \in Quests : paid[q] <= 1

\* A completion that is refused keeps the log and pays nothing.  It takes items all
\* the same when a dungeon was not completed or the slot for the reward is occupied
\* ("Split validation from write operations", Quest.c:370), but then all that the
\* quest asks for, of a quest whose mobs are dead and which is at its end.
TakenOf(w) ==
    LET units == [s \in BagSlots |->
                    IF bag'[s] = bag[s] THEN 0 ELSE IF bag[s].ware = w THEN bag[s].count ELSE 0]
    IN FoldFunction(LAMBDA a, b : a + b, 0, units)

TakenInFull ==
    \E k \in DOMAIN slots :
       LET q == slots[k].quest IN
       /\ AtEnd(q, slots[k]) /\ MobsKilled(q, slots[k].counter)
       /\ ~(MissionDungeons[q] \subseteq trials) \/ RewardItem[q] # Nothing
       /\ \A i \in DOMAIN MissionItems[q] : TakenOf(MissionItems[q][i][1]) >= MissionItems[q][i][2]

RefusedClearKeeps ==
    [][reply' = "refused" =>
          /\ UNCHANGED <<slots, flags, paid>>
          /\ bag' # bag => TakenInFull]_questVars
=============================================================================
