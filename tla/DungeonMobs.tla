---------------------------- MODULE DungeonMobs ----------------------------
(***************************************************************************)
(* The mobs of one dungeon context: how they are spawned, killed, ordered   *)
(* about by triggers and spawned again, and how their deaths take the        *)
(* dungeon from one part to the next.                                        *)
(*                                                                         *)
(* The context is updated in rounds.  In a round every mob is updated once,   *)
(* in an order nobody fixes; the requests of players come between rounds.    *)
(* A mob has three timestamps for what is to happen to it (to spawn, to       *)
(* despawn, to respawn) and one before which it is left alone.  Timestamps    *)
(* are relative to now: 0 is due, Never is not set.                          *)
(*                                                                         *)
(* Hit points are told apart only as none and some, and a mob's aggro by the  *)
(* mob that is first in it, if one is; drops, skills and paths are left out.  *)
(***************************************************************************)
EXTENDS MobTables

VARIABLES
    context,    \* the mobs, who stands in which chunk, the part and its count
    todo,       \* mobs that are still to be updated in this round
    state       \* of the dungeon

mobVars == <<context, todo, state>>

Timers == Never .. MaxDelay

Mob == [spawned : BOOLEAN, dead : BOOLEAN, hp : BOOLEAN, permanent : BOOLEAN, left : Nat,
        next : 0 .. MaxDelay, toSpawn : Timers, toDespawn : Timers, toRespawn : Timers,
        at : Areas \union {Nowhere}, pattern : BOOLEAN, links : SUBSET Mobs,
        foe : Mobs \union {Nowhere}]

MobsTypeOK ==
    /\ DOMAIN context.mobs \subseteq Mobs
    /\ \A m \in DOMAIN context.mobs : context.mobs[m] \in Mob
    /\ context.standing \subseteq Areas \X Mobs
    /\ context.part \in 0 .. Len(Tables)
    /\ context.part = 0 \/ context.count \in 0 .. Goal[context.part]
    /\ todo \subseteq DOMAIN context.mobs
    /\ state \in {"opened", "running", "paused", "over"}

-----------------------------------------------------------------------------
(* A mob *)

Alive(r) == r.spawned /\ ~r.dead /\ r.hp

Infinite(m) == m \in Default /\ Count[m] = 1

\* Fault: a mob without end is counted down like the others.
CanRespawnCounted(m, r) == m \in Default /\ ~r.permanent /\ r.left > 0

CanRespawn(m, r) == m \in Default /\ ~r.permanent /\ (Infinite(m) \/ r.left > 0)

SpawnEvent(r, delay)   == [r EXCEPT !.next = 0, !.toSpawn = delay]
DespawnEvent(r, delay) == [r EXCEPT !.next = 0, !.toDespawn = delay]
RespawnEvent(r, delay) == [r EXCEPT !.next = 0, !.toRespawn = delay]

\* A mob as it is copied from a table, and one that a pattern creates.
Fresh(m) ==
    [spawned |-> FALSE, dead |-> FALSE, hp |-> FALSE, permanent |-> FALSE,
     left |-> IF m \in Minions \/ Count[m] = 0 THEN 0 ELSE Count[m] - 1,
     next |-> 0, toSpawn |-> Never, toDespawn |-> Never, toRespawn |-> Never,
     at |-> Nowhere, pattern |-> m \in Bosses, links |-> {}, foe |-> Nowhere]

\* A mob as RTWorldSpawnMob and RTWorldRespawnMob leave it.
Arisen(r, k) == [r EXCEPT !.spawned = TRUE, !.dead = FALSE, !.hp = TRUE, !.toSpawn = Never,
                          !.toDespawn = Never, !.toRespawn = Never, !.at = k, !.foe = Nowhere]

Obeyed(r, o) ==
    CASE o.act = "spawn"  -> IF r.permanent \/ Alive(r) THEN r ELSE SpawnEvent(r, o.delay)
      [] o.act = "revive" -> IF Alive(r) THEN r ELSE SpawnEvent(r, o.delay)
      [] o.act = "kill"   -> IF Alive(r) THEN DespawnEvent(r, o.delay) ELSE r
      [] o.act = "delete" -> [DespawnEvent(r, o.delay) EXCEPT !.permanent = TRUE]
      [] o.act = "soft_delete"      -> [r EXCEPT !.permanent = TRUE]
      [] o.act = "kill_by_link_mob" -> DespawnEvent(r, o.delay)

-----------------------------------------------------------------------------
(* The context: what spawning and despawning a mob does to the others *)

\* RTDungeonTriggerEvent and the events of RTWorldDespawnMob.
Obey(mobs, o) ==
    IF /\ o.mob \in DOMAIN mobs
       /\ \A m \in o.live : m \in DOMAIN mobs /\ Alive(mobs[m])
       /\ \A m \in o.dead : m \in DOMAIN mobs /\ ~Alive(mobs[m]) /\ mobs[m].dead
    THEN [mobs EXCEPT ![o.mob] = Obeyed(@, o)]
    ELSE mobs

Obeying(mobs, orders) ==
    LET Done[n \in 0 .. Len(orders)] == IF n = 0 THEN mobs ELSE Obey(Done[n - 1], orders[n])
    IN  Done

ObeyAll(mobs, orders) == Obeying(mobs, orders)[Len(orders)]

\* RTWorldSpawnMob, into chunk k.
SpawnMob(x, m, k) ==
    IF x.mobs[m].spawned THEN x
    ELSE [x EXCEPT !.mobs = ObeyAll([@ EXCEPT ![m] = Arisen(x.mobs[m], k)], OnSpawn[m]),
                   !.standing = @ \union {<<k, m>>}]

\* RTWorldSetMobTable: all mobs go, and those of the part's table come.
EmptyTable(part) ==
    [mobs |-> [m \in ToSet(Tables[part]) |-> Fresh(m)], standing |-> {}, part |-> part, count |-> 0]

Arriving(x, m, at) == IF m \in Default THEN SpawnMob(x, m, at[m]) ELSE x

Arrivals(part, at) ==
    LET Done[n \in 0 .. Len(Tables[part])] ==
            IF n = 0 THEN EmptyTable(part) ELSE Arriving(Done[n - 1], Tables[part][n], at)
    IN  Done

SetMobTable(part, at) == Arrivals(part, at)[Len(Tables[part])]

IsPatternPartCompleted(x) == x.part = 0 \/ x.count >= Goal[x.part]

StartNextPatternPart(x, at) ==
    IF IsPatternPartCompleted(x) /\ x.part < Len(Tables) THEN SetMobTable(x.part + 1, at)
    ELSE x

\* RTWorldIncrementQuestMobCounter.
CountDeath(x, m, at) ==
    LET y == IF m \in Asked /\ x.count < Goal[x.part] THEN [x EXCEPT !.count = @ + 1] ELSE x
    IN IF Goal[x.part] > 0 THEN StartNextPatternPart(y, at) ELSE y

\* RTWorldDespawnMob.
\* Fault: nobody looks whether the mob is there.
DespawnTwice(x, m, at) ==
    LET r == x.mobs[m]
        linked == [l \in DOMAIN x.mobs |->
                     IF r.pattern /\ l \in r.links /\ Alive(x.mobs[l])
                     THEN DespawnEvent(x.mobs[l], 0) ELSE x.mobs[l]]
        gone == [linked EXCEPT ![m] = [@ EXCEPT !.spawned = FALSE, !.dead = TRUE, !.links = {}]]
    IN CountDeath([x EXCEPT !.mobs = ObeyAll(gone, OnKill[m]), !.standing = @ \ {<<r.at, m>>}], m, at)

Despawn(x, m, at) ==
    LET r == x.mobs[m]
        linked == [l \in DOMAIN x.mobs |->
                     IF r.pattern /\ l \in r.links /\ Alive(x.mobs[l])
                     THEN DespawnEvent(x.mobs[l], 0) ELSE x.mobs[l]]
        gone == [linked EXCEPT ![m] = [@ EXCEPT !.spawned = FALSE, !.dead = TRUE, !.links = {}]]
    IN
    IF ~r.spawned THEN x
    ELSE CountDeath([x EXCEPT !.mobs = ObeyAll(gone, OnKill[m]), !.standing = @ \ {<<r.at, m>>}], m, at)

\* RTWorldRespawnMob of a mob that is there: its pattern is gone for good.
\* Fault: the chunk it stood in keeps the mob.
RespawnTwice(x, m, k) ==
    [x EXCEPT !.mobs[m] = [Arisen(@, k) EXCEPT !.pattern = FALSE, !.links = {}],
              !.standing = @ \union {<<k, m>>}]

Respawn(x, m, k) ==
    [x EXCEPT !.mobs[m] = [Arisen(@, k) EXCEPT !.pattern = FALSE, !.links = {}],
              !.standing = (@ \ {<<x.mobs[m].at, m>>}) \union {<<k, m>>}]

-----------------------------------------------------------------------------
(* Rounds *)

\* The chunks the mobs of a table are spawned in, by chance.
Somewhere == [Default -> Areas]

\* What is left of a round when m has been updated.  If the table was replaced
\* meanwhile, the iterator over the mobs goes on in a dictionary it was not made
\* for.
Updated(m) ==
    IF context'.part = context.part THEN todo' = todo \ {m}
    ELSE todo' \in SUBSET DOMAIN context'.mobs

\* The clock, and the beginning of a round if the dungeon is updated.
Elapsed(n) == IF n > 0 THEN n - 1 ELSE n

MobsTick ==
    /\ todo = {}
    /\ context' = [context EXCEPT !.mobs = [m \in DOMAIN context.mobs |->
          [context.mobs[m] EXCEPT !.next = Elapsed(@), !.toSpawn = Elapsed(@),
                                  !.toDespawn = Elapsed(@), !.toRespawn = Elapsed(@)]]]
    /\ todo' = IF state = "running" THEN DOMAIN context.mobs ELSE {}
    /\ UNCHANGED state

\* RTMobUpdate of a mob that is left alone: until its time, or because what is
\* to happen to it is not due.
Idle(r) ==
    \/ r.next > 0
    \/ r.toSpawn > 0
    \/ r.toSpawn = Never /\ r.toDespawn > 0
    \/ r.toSpawn = Never /\ r.toDespawn = Never /\ r.toRespawn > 0

\* A mob that is alive may be on the move into another chunk, whatever else.
Moved(x, m, k) ==
    IF Alive(x.mobs[m])
    THEN [x EXCEPT !.mobs[m].at = k, !.standing = (@ \ {<<x.mobs[m].at, m>>}) \union {<<k, m>>}]
    ELSE x

UpdateWaits(m) ==
    /\ Idle(context.mobs[m])
    /\ \E k \in Areas : context' = Moved(context, m, k)

UpdateSpawns(m) ==
    LET r == context.mobs[m] IN
    /\ r.next = 0 /\ r.toSpawn = 0
    /\ \E k \in Areas :
          context' = SpawnMob([context EXCEPT !.mobs[m].toSpawn = Never], m, k)

\* A mob that is ordered away, or has died of a hit.
UpdateDespawns(m) ==
    LET r == context.mobs[m]
        x == [context EXCEPT !.mobs[m].toDespawn = Never,
                             !.mobs[m].next = IF r.spawned THEN Interval[m] ELSE 0]
    IN
    /\ r.next = 0 /\ r.toSpawn = Never
    /\ \/ r.toDespawn = 0
       \/ r.toDespawn = Never /\ r.toRespawn = Never /\ r.spawned /\ ~Alive(r)
    /\ \E at \in Somewhere : context' = Despawn(x, m, at)

\* A mob that is gone comes back after its interval.
UpdateReturns(m) ==
    LET r == context.mobs[m] IN
    /\ r.next = 0 /\ r.toSpawn = Never /\ r.toDespawn = Never /\ r.toRespawn <= 0
    /\ ~r.spawned
    /\ context' = [context EXCEPT !.mobs[m] =
          IF CanRespawn(m, r)
          THEN SpawnEvent([r EXCEPT !.toRespawn = Never, !.foe = Nowhere,
                                    !.left = IF r.left > 0 THEN r.left - 1 ELSE 0], Interval[m])
          ELSE [@ EXCEPT !.toRespawn = Never]]

\* Actions of a boss's pattern.  A link mob is created to be spawned at once.
Created(x, m) ==
    {[x EXCEPT !.mobs = [l \in DOMAIN @ \union {n} |->
                            IF l = n THEN SpawnEvent(Fresh(n), 0)
                            ELSE IF l = m THEN [@[m] EXCEPT !.links = x.mobs[m].links \union {n}]
                            ELSE @[l]]] : n \in Minions \ DOMAIN x.mobs}

LinksDismissed(x, m) ==
    [x EXCEPT !.mobs = [l \in DOMAIN @ |-> IF l \in x.mobs[m].links THEN DespawnEvent(@[l], 1)
                                           ELSE @[l]]]

\* WARP_SELF takes the mob from its chunk and puts it into none.
WarpedSelf(x, m, k) ==
    [x EXCEPT !.mobs[m].at = k, !.standing = @ \ {<<x.mobs[m].at, m>>}]

\* WARP_TARGET takes the mob that is first in the aggro from its chunk and puts it
\* into another: nobody looks whether it is there.  A character is only told.
WarpedTarget(x, f, k) ==
    [x EXCEPT !.mobs[f].at = k, !.standing = (@ \ {<<x.mobs[f].at, f>>}) \union {<<k, f>>}]

PatternActions(x, m, k) ==
    Created(x, m)
    \union {LinksDismissed(x, m)}
    \union {[x EXCEPT !.mobs[m] = RespawnEvent(@, 1)]}
    \union {[x EXCEPT !.mobs[l] = DespawnEvent(@, 1)] : l \in DOMAIN x.mobs}
    \union (IF m \in Warpers THEN {WarpedSelf(x, m, k)} ELSE {})
    \union {WarpedTarget(x, f, k) : f \in {g \in DOMAIN x.mobs : m \in TargetWarpers /\ g = x.mobs[m].foe}}

\* After its pattern a mob that does not move drops from its aggro who is gone, and
\* it may find another foe.
Prey(x, m) == {f \in Foes(m) \intersect DOMAIN x.mobs : Alive(x.mobs[f])}

Alert(x, m) == {x} \union {[x EXCEPT !.mobs[m].foe = f] : f \in Prey(x, m) \union {Nowhere}}

\* RTMobAttackTargetMob: m comes into the aggro of the mob it attacks, which may be
\* left with no hit points.
Angered(r, m) == {r} \union (IF r.foe = Nowhere THEN {[r EXCEPT !.foe = m]} ELSE {})

Wounded(r, m) ==
    Angered(r, m)
    \union {DespawnEvent([v EXCEPT !.hp = FALSE], delay) : v \in Angered(r, m), delay \in HitDelays}

Attacks(x, m) ==
    {x} \union UNION {{[x EXCEPT !.mobs[f] = r] : r \in Wounded(x.mobs[f], m)} : f \in Prey(x, m)}

\* RTMobUpdate comes to the pattern of a mob that lives.
IsActive(r) ==
    /\ r.next = 0 /\ r.toSpawn = Never /\ r.toDespawn = Never /\ r.toRespawn <= 0
    /\ r.spawned /\ (r.toRespawn = 0 \/ Alive(r))

\* A mob that lives: at most one action of its pattern, one attack on another mob,
\* and then it waits.
UpdateLives(m) ==
    /\ IsActive(context.mobs[m])
    /\ \E k \in Areas, wait \in {0, 1} :
          LET x == IF context.mobs[m].toRespawn = 0 THEN Respawn(context, m, k) ELSE Moved(context, m, k)
          IN
          \E y \in {x} \union (IF x.mobs[m].pattern THEN PatternActions(x, m, k) ELSE {}) :
             \E z \in Alert(y, m) : \E w \in Attacks(z, m) :
                context' = [w EXCEPT !.mobs[m].next = wait]

Update ==
    \E m \in todo :
       /\ \/ UpdateWaits(m) \/ UpdateSpawns(m) \/ UpdateDespawns(m) \/ UpdateReturns(m)
          \/ UpdateLives(m)
       /\ Updated(m)
       /\ UNCHANGED state

-----------------------------------------------------------------------------
(* Between rounds *)

\* RTDungeonStart, of a dungeon that was not started, or is over.
Start ==
    /\ todo = {} /\ state \in {"opened", "over"}
    /\ \E at \in Somewhere :
          LET x == StartNextPatternPart([context EXCEPT !.part = 0], at) IN
          context' = [x EXCEPT !.mobs = [m \in DOMAIN @ |->
                        IF m \in StartKill THEN DespawnEvent(@[m], 1) ELSE @[m]]]
    /\ state' = "running"
    /\ UNCHANGED todo

\* The dungeon is paused, goes on, or ends.
Switch ==
    /\ todo = {}
    /\ \/ state = "running" /\ state' \in {"paused", "over"}
       \/ state = "paused" /\ state' = "running"
    /\ UNCHANGED <<context, todo>>

\* A hit that leaves a mob no hit points: RTMobApplyDamage by ATTACK_TO_MOB and
\* SKILL_TO_MOB, which look at IsDead only, so that a mob may be hit again that
\* is not yet gone, and one that was never there.
Hit(m) ==
    /\ todo = {} /\ ~context.mobs[m].dead
    /\ \E delay \in HitDelays :
          context' = [context EXCEPT !.mobs[m] = DespawnEvent([@ EXCEPT !.hp = FALSE], delay)]
    /\ UNCHANGED <<todo, state>>

\* ATTACK_BOSS_MOB.
AttackBoss(m) ==
    /\ todo = {}
    /\ \E at \in Somewhere : context' = Despawn([context EXCEPT !.mobs[m].permanent = TRUE], m, at)
    /\ UNCHANGED <<todo, state>>

\* The NPC of a quest pulls a trigger.
NpcTriggers ==
    /\ todo = {} /\ NpcOrders # <<>>
    /\ context' = [context EXCEPT !.mobs = ObeyAll(@, NpcOrders)]
    /\ UNCHANGED <<todo, state>>

MobsInit ==
    /\ context = [mobs |-> [m \in {} |-> Nowhere], standing |-> {}, part |-> 0, count |-> 0]
    /\ todo = {}
    /\ state = "opened"

MobRequests == \E m \in DOMAIN context.mobs : Hit(m) \/ AttackBoss(m)

MobsNext == MobsTick \/ Update \/ Start \/ Switch \/ MobRequests \/ NpcTriggers

MobsFairness == WF_mobVars(MobsTick) /\ WF_mobVars(Update)

MobsSpec == MobsInit /\ [][MobsNext]_mobVars /\ MobsFairness

-----------------------------------------------------------------------------
(* Properties *)

\* Every mob stands in the one chunk its movement names while it is spawned and in
\* none otherwise: the assertions of RTWorldChunkInsert and RTWorldChunkRemove
\* hold at the next spawn, step, respawn or death, and players see no mob that
\* is not there.  Two actions of patterns break it: WARP_SELF, and WARP_TARGET of a
\* mob that has died since the aggro was last looked through.
MobsInChunks ==
    context.standing = {<<context.mobs[m].at, m>> :
                          m \in {n \in DOMAIN context.mobs : context.mobs[n].spawned}}

Died == {m \in DOMAIN context.mobs :
            context.mobs[m].spawned
            /\ (m \in DOMAIN context'.mobs => ~context'.mobs[m].spawned)}

\* A death counts once and only for the part it happens in, whether a player's
\* hit, a trigger, a pattern or ATTACK_BOSS_MOB caused it, and a part is over
\* only with the death that was missing.
DeathsCounted ==
    context.part > 0 /\ ~(state \in {"opened", "over"} /\ state' = "running") =>
       \/ /\ context'.part = context.part
          /\ LET n == context.count + Cardinality(Died \intersect Asked)
             IN context'.count = IF n < Goal[context.part] THEN n ELSE Goal[context.part]
       \/ /\ context'.part = context.part + 1 /\ context'.count = 0
          /\ context.count + 1 = Goal[context.part] /\ Died \intersect Asked # {}

DeathsCount == [][DeathsCounted]_mobVars

\* A mob that is to come back without end does so, as long as the dungeon is
\* updated and nobody has deleted it.
Away(m) ==
    m \in DOMAIN context.mobs /\ ~context.mobs[m].spawned /\ state = "running"

BackOrNot(m) ==
    \/ m \notin DOMAIN context.mobs
    \/ context.mobs[m].spawned \/ context.mobs[m].permanent
    \/ state # "running"

MobsReturn == \A m \in Mobs : Infinite(m) => (Away(m) ~> BackOrNot(m))
=============================================================================
