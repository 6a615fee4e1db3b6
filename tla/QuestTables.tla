---------------------------- MODULE QuestTables ----------------------------
(***************************************************************************)
(* The data of quests, and what the quests of a character and those of a    *)
(* party have in common: a slot of the quest log, its counters and the step  *)
(* of the quest's sequence of NPCs it stands at.                             *)
(*                                                                         *)
(* A ware is a quest item together with the index in its options.  Mobs are  *)
(* told apart by species only.  Positions in arrays count from 1.            *)
(***************************************************************************)
EXTENDS Naturals, Sequences, SequencesExt

CONSTANTS
    Quests, Species, Wares, Trials, Nothing,
    MissionMobs,        \* per quest: <<species, how many>>, in the order of the counters
    MissionItems,       \* per quest: <<ware, how many>>
    MissionDungeons,    \* per quest: the dungeons that must have been completed
    NpcSet,             \* per quest: the steps, with their NpcActionOrder, type and ware
    QuestBeginNpc,      \* per quest: the step it begins with, 0 if it begins anywhere
    RelatedQuest,       \* per quest: the quest that must be finished before, or Nothing
    RewardItem,         \* per quest: the ware it pays, or Nothing
    QuestDrops,         \* per species: the wares it may drop
    CounterCount,       \* counters of a slot (RUNTIME_MAX_QUEST_COUNTER_COUNT)
    CounterRange        \* values of a counter: 256, for Counter is an array of UInt8

\* An NPC that exchanges an item names its ware.
Step == [order : Nat \ {0}, act : {"give", "take"}, ware : Wares]
          \union [order : Nat \ {0}, act : {"talk", "trigger", "end"}, ware : {Nothing}]

\* The counters of a quest's items are two apart: QuestCounterIndex is advanced
\* and the index of the mission added to it.
ItemCounter(q, i) == Len(MissionMobs[q]) + 2 * i - 1

\* The counter of the last item must be one of the slot: the data of the quests
\* has to see to it, for nothing in the code does.
ASSUME QuestAssumption ==
    /\ Nothing \notin Quests \union Wares
    /\ MissionMobs \in [Quests -> Seq(Species \X Nat)]
    /\ MissionItems \in [Quests -> Seq(Wares \X Nat)]
    /\ MissionDungeons \in [Quests -> SUBSET Trials]
    /\ NpcSet \in [Quests -> Seq(Step)]
    /\ QuestDrops \in [Species -> SUBSET Wares]
    /\ CounterCount \in Nat /\ CounterRange \in Nat \ {0}
    /\ \A q \in Quests :
          /\ QuestBeginNpc[q] \in 0 .. Len(NpcSet[q])
          /\ RelatedQuest[q] \in Quests \union {Nothing}
          /\ RewardItem[q] \in Wares \union {Nothing}
          /\ Len(MissionMobs[q]) <= CounterCount
          /\ \A i \in DOMAIN MissionItems[q] : ItemCounter(q, i) <= CounterCount

\* No quest asks for more deaths than a counter can hold.  What is asked for is an
\* Int32, and nothing in the code compares the two: the data has to see to it.
ASSUME CountersSuffice ==
    \A q \in Quests : \A i \in DOMAIN MissionMobs[q] : MissionMobs[q][i][2] < CounterRange

Lesser(a, b) == IF a < b THEN a ELSE b

Counters   == [1 .. CounterCount -> 0 .. CounterRange - 1]
NoCounters == [i \in 1 .. CounterCount |-> 0]

\* The step a quest stands at once it has begun: the one after the NPC that gave
\* it, if there is one.
FirstStep(q) ==
    LET b == QuestBeginNpc[q]
    IN IF b = 0 THEN 1
       ELSE IF b < Len(NpcSet[q]) THEN NpcSet[q][b + 1].order
       ELSE NpcSet[q][b].order

MobsKilled(q, counter) ==
    \A i \in DOMAIN MissionMobs[q] : counter[i] >= MissionMobs[q][i][2]

\* What a counter is once n was assigned to it.
Stored(n) == n % CounterRange

\* The death of one mob, in the counters of one slot: the lesser is an Int32 and
\* loses what does not fit into the counter.
CountKill(q, counter, s) ==
    [i \in DOMAIN counter |->
       IF i \in DOMAIN MissionMobs[q] /\ MissionMobs[q][i][1] = s
       THEN Stored(Lesser(MissionMobs[q][i][2], counter[i] + 1)) ELSE counter[i]]

\* Items: a slot holds a number of one ware, or Nothing.
Goods == [ware : Wares, count : Nat \ {0}]
one(w) == [ware |-> w, count |-> 1]

RoomFor(bag, s, x) == bag[s] # Nothing => bag[s].ware = x.ware
PutIn(bag, s, x) ==
    [bag EXCEPT ![s] = IF @ = Nothing THEN x
                       ELSE [ware |-> @.ware, count |-> @.count + x.count]]

-----------------------------------------------------------------------------
(* What was killed since a quest was begun: history, which only the           *)
(* properties read.  It counts no further than the quest asks for.            *)

MostAsked(q, s) ==
    Max({0} \union {MissionMobs[q][i][2] : i \in {j \in DOMAIN MissionMobs[q] : MissionMobs[q][j][1] = s}})

NoKills == [s \in Species |-> 0]
OneMore(q, killed, s) == [killed EXCEPT ![s] = Lesser(MostAsked(q, s), @ + 1)]

KillsOfOne(q, killed) == \A s \in Species : killed[s] \in 0 .. MostAsked(q, s)

CountsAre(q, counter, killed) ==
    \A i \in DOMAIN MissionMobs[q] :
       counter[i] = Lesser(MissionMobs[q][i][2], killed[MissionMobs[q][i][1]])
=============================================================================
