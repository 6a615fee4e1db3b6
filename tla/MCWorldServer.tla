--------------------------- MODULE MCWorldServer ---------------------------
(***************************************************************************)
(* What lives on a world server, in one run of TLC, which checks one case    *)
(* in each behaviour: two players whose party does not change and one        *)
(* dungeon; one player without a party and two dungeons, one of them no      *)
(* quest dungeon; two players whose party comes and goes; the mobs of a       *)
(* dungeon of two parts; two quests of a character; two quests of a party of   *)
(* two; and the replicas of two world servers, for their liveness.            *)
(***************************************************************************)
EXTENDS DungeonWorlds, CharacterQuests, PartyQuests, DungeonMobs, TLC

CONSTANTS c1, c2, s1, p1, d1, d2, m1, m2, b1, l1, x1, x2, q1, q2, q3, q4, h1, h2, w1, w2, k1, k2

OneParty  == p1 :> {c1, c2}
NoParties == [p \in {} |-> {}]

\* m1 calls m2 when it dies and takes it along; m2 calls m1 away, and is spawned for
\* the last time if it meets m1, which it is after.  The boss b1 comes twice and
\* creates l1.
AllMobs == {m1, m2, b1, l1}
TwoParts == << <<m1, m2>>, <<b1>> >>
TwoThenOne == <<2, 1>>
BossTwice == [m \in AllMobs |-> IF m = b1 THEN 2 ELSE 1]
NoEnemies == [m \in AllMobs |-> {}]
M2Hunts == [NoEnemies EXCEPT ![m2] = {m1}]
OneTick == [m \in AllMobs |-> 1]
NoOrders == [m \in AllMobs |-> <<>>]
Order(act, m, delay) == [act |-> act, mob |-> m, delay |-> delay, live |-> {}, dead |-> {}]
KillOrders == [NoOrders EXCEPT ![m1] = <<Order("spawn", m2, 1)>>, ![m2] = <<Order("kill", m1, 0)>>]
SpawnOrders == [NoOrders EXCEPT ![m2] = <<[Order("soft_delete", m2, 0) EXCEPT !.live = {m1}]>>]
QuestOrders == <<[Order("revive", m2, 0) EXCEPT !.dead = {m1}], Order("delete", m2, 0)>>

\* q1 and q2 are quests of a character: q1 hunts both species and is followed over
\* two more NPCs; q2 asks for a dungeon and for two units of a ware that x1 leaves,
\* and pays another.  q3 and q4 are a party's: q3 hunts one species and lends a ware
\* on the way; q4 pays the same ware for what the species leaves.
At(n, act, w) == [order |-> n, act |-> act, ware |-> w]
Hunted    == q1 :> << <<x1, 2>>, <<x2, 1>> >> @@ q2 :> << <<x1, 1>> >>
             @@ q3 :> << <<x1, 2>> >> @@ q4 :> << <<x1, 1>> >>
Delivery  == q1 :> <<>> @@ q2 :> << <<h1, 2>> >> @@ q3 :> <<>> @@ q4 :> << <<h1, 1>> >>
Completed == [q \in {q1, q2, q3, q4} |-> IF q = q2 THEN {d1} ELSE {}]
Followed  == q1 :> <<At(1, "talk", Nothing), At(2, "trigger", Nothing), At(3, "end", Nothing)>>
             @@ q2 :> <<At(1, "end", Nothing)>>
             @@ q3 :> <<At(1, "talk", Nothing), At(2, "give", h2), At(3, "take", h2), At(4, "end", Nothing)>>
             @@ q4 :> <<At(1, "end", Nothing)>>
BeginsAt  == [q \in {q1, q2, q3, q4} |-> IF q \in {q1, q3} THEN 1 ELSE 0]
Unrelated == [q \in {q1, q2, q3, q4} |-> Nothing]
Pays      == [q \in {q1, q2, q3, q4} |-> IF q \in {q2, q4} THEN h2 ELSE Nothing]
Leaves    == x1 :> {h1} @@ x2 :> {}

OneEach == k1 :> w1 @@ k2 :> w2

VARIABLES
    case,
    party, charToParty, invite, charToInvite, charToWorld, status, sent, up, down, opened,
    client, avatar, replica, mapped, health, moves

Fixed    == INSTANCE DungeonWorlds WITH Dungeons <- {d1}
Solo     == INSTANCE DungeonWorlds
              WITH Players <- {c1}, PartyIDs <- {}, Rosters <- NoParties, MaxInstances <- 1
Changing == INSTANCE DungeonWorlds
              WITH Dungeons <- {d1}, Chunks <- {1}, Rosters <- NoParties, RosterChanges <- TRUE
Replicas == INSTANCE PartySystem
              WITH Character <- {c1, c2}, World <- {w1, w2}, Conn <- {k1, k2}, Home <- OneEach,
                   MaxPartyCount <- 2, MaxMembers <- 3, MaxMoves <- 4, MaxInFlight <- 1

worldVars   == vars
replicaVars == <<party, charToParty, invite, charToInvite, charToWorld, status, sent, up, down, opened,
                 client, avatar, replica, mapped, health, moves>>
allVars     == <<case, vars, mobVars, questVars, partyQuestVars, replicaVars>>

Cases == {"fixed", "solo", "changing", "mobs", "quests", "party_quests", "replicas"}

InitAll ==
    /\ case \in Cases
    /\ CASE case = "solo" -> Solo!Init
         [] case = "changing" -> Changing!Init
         [] OTHER -> Fixed!Init
    /\ MobsInit /\ QuestInit /\ PartyQuestInit /\ Replicas!InitSystem

\* While parties change, members may leave the party inside the dungeon, and the
\* next exit takes it away around them: this case has no exits.
EntersOnly(c) == \E d \in {d1} : Changing!EnterDungeon(c, d)

NextWorlds ==
    \/ case = "fixed" /\ Fixed!Next
    \/ case = "solo" /\ Solo!Next
    \/ case = "changing"
       /\ \/ Changing!ComingsAndGoings \/ Changing!PartyChanges
          \/ \E c \in Players :
                \/ Changing!Leave(c) \/ Changing!WarpByPattern(c) \/ Changing!Die(c)
                \/ Changing!Revive(c) \/ EntersOnly(c)

WorldsStep == NextWorlds /\ UNCHANGED <<case, mobVars, questVars, partyQuestVars, replicaVars>>

MobsStep(A) ==
    case = "mobs" /\ A /\ UNCHANGED <<case, worldVars, questVars, partyQuestVars, replicaVars>>

QuestsStep ==
    case = "quests" /\ QuestNext /\ InLog' \subseteq {q1, q2}
    /\ UNCHANGED <<case, worldVars, mobVars, partyQuestVars, replicaVars>>

\* The members ask for quests of a party.
OfTheParty ==
    \A m \in QuestMembers :
       request'[m] # Nothing /\ "quest" \in DOMAIN request'[m] => request'[m].quest \in {q3, q4}

PartyQuestsStep ==
    case = "party_quests" /\ PartyQuestNext /\ OfTheParty
    /\ UNCHANGED <<case, worldVars, mobVars, questVars, replicaVars>>

ReplicasStep(A) ==
    case = "replicas" /\ A /\ UNCHANGED <<case, worldVars, mobVars, questVars, partyQuestVars>>

NextAll ==
    \/ WorldsStep \/ MobsStep(MobsNext) \/ QuestsStep \/ PartyQuestsStep
    \/ ReplicasStep(Replicas!NextSystem)

\* One case alone, with as many contexts as the configuration says.
SpecFull == InitAll /\ case = "fixed" /\ [][WorldsStep]_allVars

SpecPartyQuests == InitAll /\ case = "party_quests" /\ [][PartyQuestsStep]_allVars

SoloTick == case = "solo" /\ Solo!Tick /\ UNCHANGED <<case, mobVars, questVars, partyQuestVars, replicaVars>>

SpecAll ==
    /\ InitAll /\ [][NextAll]_allVars
    /\ WF_allVars(SoloTick)
    /\ WF_allVars(MobsStep(MobsTick)) /\ WF_allVars(MobsStep(Update))
    /\ \A w \in {w1, w2} : WF_allVars(ReplicasStep(Replicas!Receive(w)))

-----------------------------------------------------------------------------
(* Types, and the properties of one case.                                   *)

\* The bookkeeping of a world server has its types in each case: a dungeon's part
\* never exceeds the parts it has, no death is counted beyond the number a part
\* asks for, and the quest logs and what they give and take are what they can be.
TypesOK ==
    CASE case = "solo" -> Solo!TypeOK
      [] case = "mobs" -> MobsTypeOK
      [] case = "quests" -> QuestTypeOK
      [] case = "party_quests" -> PartyQuestTypeOK
      [] OTHER -> TypeOK

\* A dungeon that was started and is not paused comes to an end, as long as the
\* world server updates its contexts.
SoloRunsOut == case = "solo" => RunsOut

\* Mobs without end come back.
MobsComeBack == case = "mobs" => MobsReturn

\* World servers come to forget a party that ended.
EndedPartiesForgotten == case = "replicas" => Replicas!EndedPartiesForgotten
=============================================================================
