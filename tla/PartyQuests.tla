---------------------------- MODULE PartyQuests ----------------------------
(***************************************************************************)
(* The quests of a party on one world server: Party->QuestSlot and            *)
(* Party->Inventory, which all members change.  A member sends one request    *)
(* at a time; it fits what the party has when it is sent, and is handled        *)
(* when others may have changed it, which is what can go wrong here.           *)
(*                                                                         *)
(* Left out: who the members are (see PartySystem), conditions and distances,   *)
(* which only refuse, and the notifications.  assert() is active.              *)
(***************************************************************************)
EXTENDS QuestTables

CONSTANTS
    QuestMembers,   \* members of the party on the world server
    QuestPlaces,    \* slots of Party->QuestSlot
    PartySlots,     \* slots of Party->Inventory
    UnitLimit       \* bound: units of a ware in a slot

VARIABLES
    log,        \* Party->QuestSlot
    chest,      \* Party->Inventory
    ground,     \* a party quest item of the dungeon, or Nothing
    request,    \* the request of each member on its way, or Nothing
    server,     \* "running", or "aborted" by an assertion
    kills,      \* history: what was killed since the quest of a place was begun
    taken       \* history: how often each step was taken since then

partyQuestVars == <<log, chest, ground, request, server, kills, taken>>

Free == [quest |-> Nothing, step |-> 1, counter |-> NoCounters]
PartyQuestSlot == [quest : Quests \union {Nothing}, step : Nat \ {0}, counter : Counters]
StepNumbers == UNION {DOMAIN NpcSet[q] : q \in Quests}
NotTaken == [a \in StepNumbers |-> 0]

Requests ==
    [act : {"begin"}, quest : Quests, place : QuestPlaces]
      \union [act : {"action"}, quest : Quests, place : QuestPlaces, step : StepNumbers,
              slot : PartySlots \union {Nothing}]
      \union [act : {"close"}, quest : Quests, place : QuestPlaces,
              picks : UNION {[DOMAIN MissionItems[q] -> PartySlots] : q \in Quests},
              slot : PartySlots \union {Nothing}]
      \union [act : {"loot"}, slot : PartySlots]

PartyQuestTypeOK ==
    /\ log \in [QuestPlaces -> PartyQuestSlot]
    /\ chest \in [PartySlots -> Goods \union {Nothing}] /\ ground \in Goods \union {Nothing}
    /\ request \in [QuestMembers -> Requests \union {Nothing}]
    /\ server \in {"running", "aborted"}
    /\ \A p \in QuestPlaces : log[p].quest # Nothing => KillsOfOne(log[p].quest, kills[p])
    /\ taken \in [QuestPlaces -> [StepNumbers -> 0 .. 2]]

PartyQuestInit ==
    /\ log = [p \in QuestPlaces |-> Free]
    /\ chest = [s \in PartySlots |-> Nothing] /\ ground = Nothing
    /\ request = [m \in QuestMembers |-> Nothing]
    /\ server = "running"
    /\ kills = [p \in QuestPlaces |-> NoKills] /\ taken = [p \in QuestPlaces |-> NotTaken]

partyHistory == <<kills, taken>>

-----------------------------------------------------------------------------
(* The handlers *)

\* A place that is taken is reported as begun, whichever quest it holds.  A party
\* has no flags of finished quests, so that no quest may depend on another.
PartyQuestBegin(q, p) ==
    IF log[p].quest # Nothing \/ RelatedQuest[q] # Nothing
    THEN UNCHANGED <<log, chest, ground, server, partyHistory>>
    ELSE /\ log' = [log EXCEPT ![p] = [quest |-> q, step |-> FirstStep(q), counter |-> NoCounters]]
         /\ kills' = [kills EXCEPT ![p] = NoKills]
         /\ taken' = [taken EXCEPT ![p] = NotTaken]
         /\ UNCHANGED <<chest, ground, server>>

\* An exchange with an NPC through slot s of the party's inventory.
CanExchange(npc, s) ==
    CASE npc.act = "give" -> chest[s] = Nothing
      [] npc.act = "take" -> chest[s] = one(npc.ware)
      [] OTHER -> TRUE

Exchanged(npc, s) ==
    CASE npc.act = "give" -> [chest EXCEPT ![s] = one(npc.ware)]
      [] npc.act = "take" -> [chest EXCEPT ![s] = Nothing]
      [] OTHER -> chest

\* Fault: any step of the quest may be taken.
AtStepAny(q, p, a) == log[p].quest = q /\ a \in DOMAIN NpcSet[q]

AtStep(q, p, a) == log[p].quest = q /\ log[p].step = a /\ a \in DOMAIN NpcSet[q]

PartyQuestAction(q, p, a, s) ==
    IF AtStep(q, p, a) /\ CanExchange(NpcSet[q][a], s)
    THEN /\ chest' = Exchanged(NpcSet[q][a], s)
         /\ log' = IF a < Len(NpcSet[q]) THEN [log EXCEPT ![p].step = a + 1] ELSE log
         /\ taken' = [taken EXCEPT ![p][a] = Lesser(2, @ + 1)]
         /\ UNCHANGED <<ground, server, kills>>
    ELSE UNCHANGED <<log, chest, ground, server, partyHistory>>

\* The items of a quest are looked at and taken one after the other; those before
\* the first that is not what the quest asks for are gone.
Good(q, i, s) ==
    /\ chest[s] # Nothing
    /\ chest[s].ware = MissionItems[q][i][1] /\ chest[s].count >= MissionItems[q][i][2]

HandedOver(q, picks) ==
    LET good(i) == \A j \in 1 .. i : Good(q, j, picks[j])
    IN [s \in PartySlots |->
          IF \E i \in DOMAIN picks : picks[i] = s /\ good(i) THEN Nothing ELSE chest[s]]

AllGood(q, picks) == \A i \in DOMAIN MissionItems[q] : Good(q, i, picks[i])

MayClose(q, p) ==
    /\ log[p].quest = q
    /\ log[p].step \in DOMAIN NpcSet[q] /\ NpcSet[q][log[p].step].act = "end"
    /\ MobsKilled(q, log[p].counter)

\* PARTY_QUEST_CLOSE: the reward must find its slot empty, or the server aborts.
PartyQuestClose(q, p, picks, s) ==
    LET left == HandedOver(q, picks)
        reward == RewardItem[q]
    IN
    IF ~MayClose(q, p) THEN UNCHANGED <<log, chest, ground, server, partyHistory>>
    ELSE IF ~AllGood(q, picks)
    THEN chest' = left /\ UNCHANGED <<log, ground, server, partyHistory>>
    ELSE IF reward # Nothing /\ left[s] # Nothing
    THEN /\ chest' = left /\ server' = "aborted"
         /\ UNCHANGED <<log, ground, partyHistory>>
    ELSE /\ chest' = IF reward = Nothing THEN left ELSE [left EXCEPT ![s] = one(reward)]
         /\ log' = [log EXCEPT ![p] = Free]
         /\ kills' = [kills EXCEPT ![p] = NoKills]
         /\ taken' = [taken EXCEPT ![p] = NotTaken]
         /\ UNCHANGED <<ground, server>>

PartyQuestLootItem(s) ==
    IF ground # Nothing /\ RoomFor(chest, s, ground)
    THEN /\ chest' = PutIn(chest, s, ground) /\ ground' = Nothing
         /\ UNCHANGED <<log, server, partyHistory>>
    ELSE UNCHANGED <<log, chest, ground, server, partyHistory>>

-----------------------------------------------------------------------------
(* The members *)

\* What a member that sees the state of the party asks for.
Sensible(r) ==
    CASE r.act = "begin"  -> log[r.place].quest = Nothing /\ \A p \in QuestPlaces : log[p].quest # r.quest
      [] r.act = "action" -> /\ log[r.place].quest = r.quest /\ log[r.place].step = r.step
                             /\ r.step < Len(NpcSet[r.quest])
                             /\ LET npc == NpcSet[r.quest][r.step] IN
                                   /\ r.slot # Nothing <=> npc.act \in {"give", "take"}
                                   /\ CanExchange(npc, r.slot)
      [] r.act = "close"  -> /\ MayClose(r.quest, r.place)
                             /\ DOMAIN r.picks = DOMAIN MissionItems[r.quest]
                             /\ IsInjective(r.picks) /\ AllGood(r.quest, r.picks)
                             /\ r.slot # Nothing <=> RewardItem[r.quest] # Nothing
                             /\ r.slot # Nothing => chest[r.slot] = Nothing
      [] r.act = "loot"   -> /\ ground # Nothing /\ RoomFor(chest, r.slot, ground)
                             /\ chest[r.slot] # Nothing => chest[r.slot].count < UnitLimit

Send(m, r) ==
    /\ request[m] = Nothing /\ Sensible(r)
    /\ request' = [request EXCEPT ![m] = r]
    /\ UNCHANGED <<log, chest, ground, server, partyHistory>>

Handle(m) ==
    /\ request[m] # Nothing
    /\ LET r == request[m] IN
         CASE r.act = "begin"  -> PartyQuestBegin(r.quest, r.place)
           [] r.act = "action" -> PartyQuestAction(r.quest, r.place, r.step, r.slot)
           [] r.act = "close"  -> PartyQuestClose(r.quest, r.place, r.picks, r.slot)
           [] r.act = "loot"   -> PartyQuestLootItem(r.slot)
    /\ request' = [request EXCEPT ![m] = Nothing]

\* Fault: the loop over the places ends at an empty one.
IncrementUntilEmpty(s) ==
    log' = [p \in QuestPlaces |->
              IF \E e \in QuestPlaces : e <= p /\ log[e].quest = Nothing THEN log[p]
              ELSE [log[p] EXCEPT !.counter = CountKill(log[p].quest, @, s)]]

\* RTPartyIncrementQuestMobCounter: the counters of all quests of the party.
IncrementPartyCounters(s) ==
    log' = [p \in QuestPlaces |->
              IF log[p].quest = Nothing THEN log[p]
              ELSE [log[p] EXCEPT !.counter = CountKill(log[p].quest, @, s)]]

\* The item counters of a party's slots stay 0, so that a ware drops as long as a
\* quest asks for it.
KillInDungeon(s) ==
    /\ IncrementPartyCounters(s)
    /\ kills' = [p \in QuestPlaces |->
                   IF log[p].quest = Nothing THEN kills[p] ELSE OneMore(log[p].quest, kills[p], s)]
    /\ \/ UNCHANGED ground
       \/ \E w \in QuestDrops[s], p \in QuestPlaces :
             /\ ground = Nothing /\ log[p].quest # Nothing
             /\ \E i \in DOMAIN MissionItems[log[p].quest] : MissionItems[log[p].quest][i][1] = w
             /\ ground' = one(w)
    /\ UNCHANGED <<chest, request, server, taken>>

PartyQuestNext ==
    /\ server = "running"
    /\ \/ \E m \in QuestMembers : Handle(m) \/ \E r \in Requests : Send(m, r)
       \/ \E s \in Species : KillInDungeon(s)

PartyQuestSpec == PartyQuestInit /\ [][PartyQuestNext]_partyQuestVars

-----------------------------------------------------------------------------
\* The counters of a party's quests are what was killed since they were begun,
\* whoever of the party killed it and whatever the others asked for meanwhile.
PartyKillsCounted ==
    \A p \in QuestPlaces :
       log[p].quest # Nothing => CountsAre(log[p].quest, log[p].counter, kills[p])

\* No step of a quest that gives or takes an item is taken twice, although two
\* members may ask for it at the same time.
StepsOnce ==
    \A p \in QuestPlaces : \A a \in StepNumbers :
       /\ log[p].quest # Nothing /\ a \in DOMAIN NpcSet[log[p].quest]
       /\ NpcSet[log[p].quest][a].act \in {"give", "take"}
       => taken[p][a] <= 1

\* The assertion of RTCharacterPartyQuestClear: the slot for the reward is empty.
RewardAssertHolds == server # "aborted"
=============================================================================
