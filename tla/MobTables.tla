----------------------------- MODULE MobTables -----------------------------
(***************************************************************************)
(* The data of a dungeon's mobs: what MissionDungeonDataDefinition and the   *)
(* mob tables of a dungeon say of each mob.                                  *)
(***************************************************************************)
EXTENDS Integers, Sequences, FiniteSets, SequencesExt

CONSTANTS
    Tables,     \* the mob table of each part: a sequence of mobs
    Minions,    \* the mobs patterns may create
    Asked,      \* mobs of the species whose deaths the parts ask for
    Goal,       \* how many deaths each part asks for
    Default,    \* mobs with SpawnDefault
    Count,      \* SpawnCount of each mob of a table
    Interval,   \* SpawnInterval of each mob
    OnSpawn,    \* what a mob's spawn triggers: a sequence of orders
    OnKill,     \* what its death triggers, and its EventProperty list
    NpcOrders,  \* what a quest's NPC triggers
    StartKill,  \* StartKillMobList
    Bosses,     \* mobs with a pattern
    Warpers,    \* bosses whose pattern has WARP_SELF
    TargetWarpers, \* bosses whose pattern has WARP_TARGET
    Enemies,    \* the mobs each mob is after
    Areas,      \* the chunks of the context
    Nowhere,    \* no chunk, and no mob
    HitDelays,  \* delays with which a hit takes effect
    MaxDelay    \* bound of all delays and intervals

Never == -1
Acts  == {"spawn", "kill", "revive", "delete", "soft_delete", "kill_by_link_mob"}
Mobs  == (UNION {ToSet(Tables[k]) : k \in DOMAIN Tables}) \union Minions

\* An order is given if its live mobs are alive and its dead mobs dead.
Orders == [act : Acts, mob : Mobs, delay : 0 .. MaxDelay, live : SUBSET Mobs, dead : SUBSET Mobs]

\* The mobs that can come into a mob's aggro: those it is after, and those after it.
Foes(m) == Enemies[m] \union {l \in Mobs : m \in Enemies[l]}

ASSUME MobsAssumption ==
    /\ Tables \in Seq(Seq(Mobs)) /\ Len(Tables) > 0
    /\ \A k \in DOMAIN Tables : ToSet(Tables[k]) \intersect Minions = {}
    /\ Asked \subseteq Mobs /\ Default \subseteq Mobs \ Minions
    /\ Goal \in [DOMAIN Tables -> Nat]
    /\ Count \in [Mobs -> Nat] /\ Interval \in [Mobs -> 0 .. MaxDelay]
    /\ OnSpawn \in [Mobs -> Seq(Orders)] /\ OnKill \in [Mobs -> Seq(Orders)]
    /\ NpcOrders \in Seq(Orders)
    /\ StartKill \subseteq ToSet(Tables[1])
    /\ Bosses \subseteq Mobs /\ Warpers \subseteq Bosses /\ TargetWarpers \subseteq Bosses
    /\ Enemies \in [Mobs -> SUBSET (Mobs \ Minions)] /\ \A m \in Minions : Enemies[m] = {}
    /\ \A k \in DOMAIN Tables : \A m \in ToSet(Tables[k]) : Enemies[m] \subseteq ToSet(Tables[k])
    /\ Nowhere \notin Areas \union Mobs
    /\ MaxDelay \in Nat \ {0} /\ HitDelays \subseteq 0 .. MaxDelay
=============================================================================
