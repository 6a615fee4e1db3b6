--------------------------- MODULE DungeonWorlds ---------------------------
(***************************************************************************)
(* The world contexts of one world server and the players in them.         *)
(*                                                                         *)
(* A world context holds the chunks players stand in.  Each world has one  *)
(* global context; a dungeon is played in a context of its own, opened for *)
(* a party and found by the party's ID.  A player without a party gets a   *)
(* party of one, made by the world server itself.  Players enter and leave *)
(* by warps, come and go with their connections, and a dungeon that was    *)
(* started runs out of time unless it is paused.                           *)
(*                                                                         *)
(* Times are relative to now: the time left of a dungeon is DungeonTimeout *)
(* less the clock, the time of a pause the clock less PauseTimestamp.  The    *)
(* time left is followed while the dungeon is active: a start sets it anew.   *)
(***************************************************************************)
EXTENDS Integers, FiniteSets

CONSTANTS
    Players,
    Dungeons,       \* dungeons: each has a world of its own, of its name
    QuestDungeons,  \* those whose world is of type QUEST_DUNGEON
    Town,           \* the world the warps of all others lead to
    Chunks,         \* chunks of a context
    SoloIDs,        \* blocks of SoloPartyPool
    PartyIDs,       \* blocks of PartyPool: IDs the party server gives
    None,           \* no party, no dungeon, no chunk
    Rosters,        \* the parties there are from the start
    RosterChanges,  \* does the party server make and end parties?
    MaxInstances,   \* blocks of PartyWorldContextPool
    Parts,          \* PatternPartCount of a dungeon
    MissionTime,    \* MissionTimeout
    MaxBonus,       \* most time a mob's end adds
    MaxPause        \* bound: ticks of a pause that are counted

ASSUME DungeonAssumption ==
    /\ IsFiniteSet(Players) /\ IsFiniteSet(Dungeons)
    /\ QuestDungeons \subseteq Dungeons
    /\ Town \notin Dungeons \union SoloIDs \union PartyIDs
    /\ None \notin Dungeons \union SoloIDs \union PartyIDs \union {Town}
    /\ SoloIDs \intersect PartyIDs = {}
    /\ Dungeons \intersect (SoloIDs \union PartyIDs) = {}
    /\ DOMAIN Rosters \in SUBSET PartyIDs
    /\ \A p \in DOMAIN Rosters : Rosters[p] \in SUBSET Players
    /\ \A p, q \in DOMAIN Rosters : p # q => Rosters[p] \intersect Rosters[q] = {}
    /\ RosterChanges \in BOOLEAN
    /\ {MaxInstances, Parts, MissionTime, MaxBonus, MaxPause} \subseteq Nat

Worlds == Dungeons \union {Town}
IDs    == SoloIDs \union PartyIDs

VARIABLES
    loaded,     \* players whose character is loaded
    alive,      \* players whose character is alive
    info,       \* Data.Info: the world and the dungeon of each character, saved
    partyID,    \* Character->PartyID
    chunk,      \* Movement.WorldChunk: a context and one of its chunks
    spawned,    \* players whose Movement.WorldContext is set
    standing,   \* the Characters of the chunks: pairs of a chunk and a player
    instances,  \* PartyToWorldContextPoolIndex: the contexts of parties
    parties,    \* PartyManager: members of each party
    joining,    \* players the party server has not answered for yet
    finished    \* FinishedQuestDungeons of each character

vars == <<loaded, alive, info, partyID, chunk, spawned, standing, instances,
          parties, joining, finished>>

Where == [world : Worlds, dungeon : Dungeons \union {None}]

\* A world context of a party.  played counts the ticks it ran unpaused since
\* it was started.
Instance == [world : Dungeons, dungeon : Dungeons, active : BOOLEAN, closed : BOOLEAN,
             cleared : BOOLEAN, paused : BOOLEAN, pausedFor : 0 .. MaxPause,
             progress : 0 .. Parts, left : Int, played : 0 .. MissionTime]

Contexts == Worlds \union IDs
Places   == Contexts \X Chunks

TypeOK ==
    /\ loaded \in SUBSET Players /\ alive \in SUBSET Players
    /\ info \in [Players -> Where]
    /\ partyID \in [Players -> IDs \union {None}]
    /\ chunk \in [Players -> Places \union {None}]
    /\ spawned \in SUBSET loaded /\ joining \in SUBSET loaded
    /\ standing \in SUBSET (Places \X Players)
    /\ DOMAIN instances \in SUBSET IDs
    /\ \A p \in DOMAIN instances : instances[p] \in Instance
    /\ DOMAIN parties \in SUBSET IDs
    /\ \A p \in DOMAIN parties : parties[p] \in SUBSET Players
    /\ finished \in [Players -> SUBSET Dungeons]

-----------------------------------------------------------------------------
(* Contexts *)

Without(f, x) == [y \in DOMAIN f \ {x} |-> f[y]]
With(f, x, v) == [y \in DOMAIN f \union {x} |-> IF y = x THEN v ELSE f[y]]

\* RTRuntimeGetWorldByCharacter: the party's context if it is of the world the
\* character is in, or else the world's global context.
ContextOf(c) ==
    IF partyID[c] \in DOMAIN instances /\ instances[partyID[c]].world = info[c].world
    THEN partyID[c]
    ELSE info[c].world

\* The party context a character's requests act on, if they act on one.
InInstance(c) == ContextOf(c) \in DOMAIN instances

PartyContextIsFull == Cardinality(DOMAIN instances) >= MaxInstances

\* RTWorldContextCreateParty on a block that was zeroed.
NewInstance(d) ==
    [world |-> d, dungeon |-> d, active |-> FALSE, closed |-> FALSE, cleared |-> FALSE,
     paused |-> FALSE, pausedFor |-> 0, progress |-> 0, left |-> 0, played |-> 0]

InParty(c) == \E p \in DOMAIN parties : c \in parties[p]

-----------------------------------------------------------------------------
(* Standing in a chunk.  The chunk a character leaves is the one its movement *)
(* names; RTWorldChunkRemove asserts that it holds the character.             *)

\* The assertion of RTWorldChunkRemove.
InItsChunk(c) == <<chunk[c], c>> \in standing

\* Removes a character from its chunk.
Left(c) == standing \ {<<chunk[c], c>>}

\* RTWorldSpawnCharacterWithoutNotification of a character that left.
Spawn(c, place) ==
    /\ standing' = Left(c) \union {<<place, c>>}
    /\ chunk' = [chunk EXCEPT ![c] = place]
    /\ spawned' = spawned \union {c}

\* A context that is destroyed takes the arrays of its chunks along.
Emptied(s, p) == {x \in s : x[1][1] # p}

\* RTWorldChunkUpdate: a step into another chunk of the context.
\* Fault: the movement keeps naming the chunk the character left.
MoveKeepsChunk(c) ==
    /\ c \in spawned /\ c \in alive /\ InItsChunk(c)
    /\ \E k \in Chunks \ {chunk[c][2]} :
          standing' = Left(c) \union {<<<<chunk[c][1], k>>, c>>}
    /\ UNCHANGED <<loaded, alive, info, partyID, chunk, spawned, instances, parties,
                   joining, finished>>

Move(c) ==
    /\ c \in spawned /\ c \in alive /\ InItsChunk(c)
    /\ \E k \in Chunks \ {chunk[c][2]} : Spawn(c, <<chunk[c][1], k>>)
    /\ UNCHANGED <<loaded, alive, info, partyID, instances, parties, joining, finished>>

-----------------------------------------------------------------------------
(* Coming and going *)

\* The end of D2W GET_CHARACTER.  A character saved in a dungeon is put at the
\* exit of it; a dead one is sent to where its world sends the dead, yet is
\* spawned in the context chosen before.
Load(c) ==
    LET inDungeon == info[c].world \in Dungeons /\ info[c].dungeon # None
        here == IF inDungeon THEN [world |-> Town, dungeon |-> None] ELSE info[c]
    IN
    /\ c \notin loaded
    /\ loaded' = loaded \union {c}
    /\ alive' = alive \union {c}
    /\ \/ c \in alive /\ info' = [info EXCEPT ![c] = here]
       \/ c \notin alive
          /\ \E w \in {here.world, Town} :
                info' = [info EXCEPT ![c] = [world |-> w, dungeon |-> None]]
    /\ partyID' = [partyID EXCEPT ![c] = None]
    /\ \E k \in Chunks :
          /\ standing' = standing \union {<<<<here.world, k>>, c>>}
          /\ chunk' = [chunk EXCEPT ![c] = <<here.world, k>>]
    /\ spawned' = spawned \union {c}
    /\ joining' = joining \union {c}
    /\ UNCHANGED <<instances, parties, finished>>

\* P2W CLIENT_CONNECT, the party server's answer to the load: the ID of the
\* character's party, or of none.
PartyServerAnswers(c) ==
    /\ c \in joining
    /\ joining' = joining \ {c}
    /\ \/ \E p \in DOMAIN parties \intersect PartyIDs :
             c \in parties[p] /\ partyID' = [partyID EXCEPT ![c] = p]
       \/ /\ \A p \in DOMAIN parties \intersect PartyIDs : c \notin parties[p]
          /\ partyID' = [partyID EXCEPT ![c] = None]
    /\ UNCHANGED <<loaded, alive, info, chunk, spawned, standing, instances, parties, finished>>

Unload(c) ==
    /\ loaded' = loaded \ {c}
    /\ spawned' = spawned \ {c}
    /\ joining' = joining \ {c}
    /\ chunk' = [chunk EXCEPT ![c] = None]
    /\ partyID' = [partyID EXCEPT ![c] = None]
    /\ UNCHANGED <<alive, info, finished>>

\* ClientSocketOnDisconnect: the character goes, its party and its dungeon stay.
\* Fault: the character is destroyed while its chunk still holds it.
DisconnectStays(c) ==
    /\ c \in loaded /\ InItsChunk(c)
    /\ Unload(c)
    /\ UNCHANGED <<standing, instances, parties>>

Disconnect(c) ==
    /\ c \in loaded /\ InItsChunk(c)
    /\ standing' = Left(c)
    /\ Unload(c)
    /\ UNCHANGED <<instances, parties>>

\* DEINITIALIZE: a party of one goes along with its player, and so does its
\* dungeon if the player is in it.
Deinitialize(c) ==
    /\ c \in loaded /\ InItsChunk(c)
    /\ Unload(c)
    /\ \/ /\ partyID[c] \in DOMAIN parties \intersect SoloIDs
          /\ parties' = Without(parties, partyID[c])
          /\ \/ /\ InInstance(c)
                /\ instances' = Without(instances, partyID[c])
                /\ standing' = Emptied(Left(c), partyID[c])
             \/ /\ ~InInstance(c)
                /\ standing' = Left(c)
                /\ UNCHANGED instances
       \/ /\ partyID[c] \notin DOMAIN parties \intersect SoloIDs
          /\ standing' = Left(c)
          /\ UNCHANGED <<instances, parties>>

-----------------------------------------------------------------------------
(* Warps *)

\* Warps that lead to a world's global context: the gates, the return stone, the
\* navigation, a frontier stone.  None leads to the world of a dungeon.
Leave(c) ==
    /\ c \in loaded /\ InItsChunk(c)
    /\ info' = [info EXCEPT ![c] = [world |-> Town, dungeon |-> None]]
    /\ \E k \in Chunks : Spawn(c, <<Town, k>>)
    /\ UNCHANGED <<loaded, alive, partyID, instances, parties, joining, finished>>

\* The warp of a mob's pattern: elsewhere in the context of the character.
WarpByPattern(c) ==
    /\ c \in spawned /\ InItsChunk(c)
    /\ \E k \in Chunks : Spawn(c, <<ContextOf(c), k>>)
    /\ UNCHANGED <<loaded, alive, info, partyID, instances, parties, joining, finished>>

\* A battle is lost.
Die(c) ==
    /\ c \in spawned \intersect alive
    /\ alive' = alive \ {c}
    /\ UNCHANGED <<loaded, info, partyID, chunk, spawned, standing, instances, parties,
                   joining, finished>>

\* The warp of the dead, within the context or to the town.
Revive(c) ==
    /\ c \in loaded /\ InItsChunk(c)
    /\ alive' = alive \union {c}
    /\ \E k \in Chunks :
          \/ /\ Spawn(c, <<ContextOf(c), k>>)
             /\ info' = [info EXCEPT ![c].dungeon =
                           IF InInstance(c) THEN instances[ContextOf(c)].dungeon ELSE None]
          \/ /\ Spawn(c, <<Town, k>>)
             /\ info' = [info EXCEPT ![c] = [world |-> Town, dungeon |-> None]]
    /\ UNCHANGED <<loaded, partyID, instances, parties, joining, finished>>

\* RTRuntimeOpenDungeon: the party whose dungeon it is.  A party of one that
\* cannot be made, because the character still is in another one, is
\* dereferenced all the same: the process stops there.
Opener(c, p) ==
    \/ partyID[c] # None /\ p = partyID[c]
    \/ partyID[c] = None /\ ~InParty(c) /\ p \in SoloIDs \ DOMAIN parties

\* The warps into a dungeon.  The character has left its world when it turns out
\* that no context is free: it is loaded and nowhere.
EnterDungeon(c, d) ==
    /\ c \in loaded /\ InItsChunk(c) /\ info[c].world = Town
    /\ \/ /\ PartyContextIsFull
          /\ standing' = Left(c)
          /\ spawned' = spawned \ {c}
          /\ UNCHANGED <<info, partyID, chunk, instances, parties>>
       \/ /\ ~PartyContextIsFull
          /\ \E p \in IDs :
                LET w == IF p \in DOMAIN instances THEN instances[p] ELSE NewInstance(d) IN
                /\ Opener(c, p)
                /\ partyID' = [partyID EXCEPT ![c] = p]
                /\ parties' = IF partyID[c] = None THEN With(parties, p, {c}) ELSE parties
                /\ instances' = With(instances, p, w)
                /\ info' = [info EXCEPT ![c] = [world |-> d, dungeon |-> w.dungeon]]
                /\ \E k \in Chunks : Spawn(c, <<p, k>>)
    /\ UNCHANGED <<loaded, alive, joining, finished>>

-----------------------------------------------------------------------------
(* The course of a dungeon *)

\* RTDungeonFail.
Failed(w) == IF w.active /\ ~w.closed THEN [w EXCEPT !.active = FALSE, !.closed = TRUE] ELSE w

\* RTDungeonStart, by QUEST_DUNGEON_SPAWN.
Started(w) ==
    IF w.active THEN w
    ELSE [w EXCEPT !.active = TRUE, !.progress = 0, !.left = MissionTime, !.played = 0]

StartDungeon(c) ==
    /\ c \in loaded /\ InInstance(c)
    /\ instances' = [instances EXCEPT ![ContextOf(c)] = Started(@)]
    /\ UNCHANGED <<loaded, alive, info, partyID, chunk, spawned, standing, parties,
                   joining, finished>>

Advanced(w, bonus) == [w EXCEPT !.progress = @ + 1, !.left = @ + bonus]

\* Fault: nobody looks whether there is a next part.
CompletePartAgain(p) ==
    /\ p \in DOMAIN parties
    /\ instances[p].active \/ instances[p].closed
    /\ \E bonus \in 0 .. MaxBonus :
          /\ instances[p].left + bonus <= MissionTime
          /\ instances' = [instances EXCEPT ![p] = Advanced(@, bonus)]
    /\ UNCHANGED <<loaded, alive, info, partyID, chunk, spawned, standing, parties,
                   joining, finished>>

\* The last mob a part asks for dies: the next part begins, if there is one.
\* The party is asserted to exist, to be told.
CompletePart(p) ==
    /\ p \in DOMAIN parties
    /\ instances[p].active \/ instances[p].closed     \* there are mobs
    /\ instances[p].progress < Parts
    /\ \E bonus \in 0 .. MaxBonus :
          /\ instances[p].left + bonus <= MissionTime
          /\ instances' = [instances EXCEPT ![p] = Advanced(@, bonus)]
    /\ UNCHANGED <<loaded, alive, info, partyID, chunk, spawned, standing, parties,
                   joining, finished>>

Inside(w) == {m \in loaded : info[m].world = w.world /\ info[m].dungeon = w.dungeon}

Ended(w) == [w EXCEPT !.active = FALSE, !.closed = TRUE, !.cleared = TRUE]

\* QUEST_DUNGEON_END.  A dungeon that does not run counts as a success.
EndDungeon(c) ==
    LET p == ContextOf(c)
        w == instances[p]
        complete == w.progress = Parts
        runs == w.active /\ ~w.closed
        told == IF p \in DOMAIN parties THEN Inside(w) \intersect parties[p] ELSE {}
    IN
    /\ c \in loaded /\ InInstance(c)
    /\ \/ /\ ~runs
          /\ finished' = [finished EXCEPT ![c] = @ \union {w.dungeon}]
          /\ UNCHANGED instances
       \/ /\ runs /\ complete
          /\ instances' = [instances EXCEPT ![p] = Ended(@)]
          /\ finished' = [m \in Players |->
                            IF m = c THEN finished[m] \union {w.dungeon}
                            ELSE IF m \in told THEN finished[m] \ {w.dungeon}
                            ELSE finished[m]]
       \/ /\ runs /\ ~complete
          /\ instances' = [instances EXCEPT ![p] = Failed(@)]
          /\ UNCHANGED finished
    /\ UNCHANGED <<loaded, alive, info, partyID, chunk, spawned, standing, parties, joining>>

\* RTRuntimeCloseDungeon, of a character that has left: the dungeon of a party
\* stays while a member on this server is in it.
\* Fault: nobody looks for the members that are still inside.
ClosesForced(w, p, c) == TRUE

Closes(w, p, c) == p \in SoloIDs \/ (Inside(w) \ {c}) \intersect parties[p] = {}

\* QUEST_DUNGEON_EXIT.
ExitDungeon(c) ==
    LET p == ContextOf(c)
        w == instances[p]
        \* The player gives up.
        v == IF ~w.cleared /\ ~w.closed /\ c \in alive THEN Failed(w) ELSE w
        over == v.closed \/ ~v.active
        solo == p \in SoloIDs
    IN
    /\ c \in loaded /\ InInstance(c) /\ InItsChunk(c)
    /\ instances[p].world \in QuestDungeons
    /\ alive' = alive \union {c}
    /\ \E k \in Chunks :
          \/ \* The way out.
             /\ over => p \in DOMAIN parties       \* asserted
             /\ info' = [info EXCEPT ![c] = [world |-> Town, dungeon |-> None]]
             /\ chunk' = [chunk EXCEPT ![c] = <<Town, k>>]
             /\ IF over /\ Closes(w, p, c)
                THEN /\ instances' = Without(instances, p)
                     /\ standing' = Emptied(Left(c), p) \union {<<<<Town, k>>, c>>}
                     /\ parties' = IF solo THEN Without(parties, p) ELSE parties
                     /\ partyID' = IF solo THEN [partyID EXCEPT ![c] = None] ELSE partyID
                ELSE /\ instances' = [instances EXCEPT ![p] = v]
                     /\ standing' = Left(c) \union {<<<<Town, k>>, c>>}
                     /\ UNCHANGED <<parties, partyID>>
          \/ \* The dead may be put back into the dungeon that goes on.
             /\ c \notin alive /\ ~over
             /\ info' = [info EXCEPT ![c].dungeon = w.dungeon]
             /\ chunk' = [chunk EXCEPT ![c] = <<p, k>>]
             /\ standing' = Left(c) \union {<<<<p, k>>, c>>}
             /\ UNCHANGED <<instances, parties, partyID>>
    /\ spawned' = spawned \union {c}
    /\ UNCHANGED <<loaded, joining, finished>>

\* RTDungeonPause and RTDungeonResume: for a party of one.
Pausable(p) == p \in DOMAIN parties /\ Cardinality(parties[p]) <= 1

PausedNow(w) == [w EXCEPT !.paused = TRUE, !.pausedFor = 0]

Pause(c) ==
    LET p == ContextOf(c) IN
    /\ c \in loaded /\ InInstance(c) /\ Pausable(p) /\ ~instances[p].paused
    /\ instances' = [instances EXCEPT ![p] = PausedNow(@)]
    /\ UNCHANGED <<loaded, alive, info, partyID, chunk, spawned, standing, parties,
                   joining, finished>>

\* Fault: the time of the pause is not given back.
ResumedLate(w) == [w EXCEPT !.paused = FALSE, !.pausedFor = 0]

Resumed(w) == [w EXCEPT !.paused = FALSE, !.pausedFor = 0,
                        !.left = IF w.active THEN @ + w.pausedFor ELSE @]

Resume(c) ==
    LET p == ContextOf(c) IN
    /\ c \in loaded /\ InInstance(c) /\ Pausable(p) /\ instances[p].paused
    /\ instances' = [instances EXCEPT ![p] = Resumed(@)]
    /\ UNCHANGED <<loaded, alive, info, partyID, chunk, spawned, standing, parties,
                   joining, finished>>

\* A tick of the clock and RTWorldManagerUpdate, which updates the contexts that
\* are active, and RTDungeonUpdate those of them that are not paused.  The clock
\* runs on through a pause: of a pause only the first MaxPause ticks are told
\* apart, for the time left and the time paused move against each other.
\* Fault: a context that is closed is no longer updated, and one that is not
\* never fails.
TickedOnly(w) ==
    IF w.active /\ ~w.paused
    THEN [w EXCEPT !.left = IF @ > 0 THEN @ - 1 ELSE @,
                   !.played = IF @ < MissionTime THEN @ + 1 ELSE @]
    ELSE w

Ticked(w) ==
    IF w.paused
    THEN IF w.pausedFor < MaxPause
         THEN [w EXCEPT !.pausedFor = @ + 1, !.left = IF w.active THEN @ - 1 ELSE @]
         ELSE w
    ELSE IF w.active /\ ~w.closed
    THEN LET v == [w EXCEPT !.left = @ - 1,
                            !.played = IF @ < MissionTime THEN @ + 1 ELSE @]
         IN IF v.left <= 0 THEN Failed(v) ELSE v
    ELSE w

Tick ==
    /\ instances' = [p \in DOMAIN instances |-> Ticked(instances[p])]
    /\ UNCHANGED <<loaded, alive, info, partyID, chunk, spawned, standing, parties,
                   joining, finished>>

-----------------------------------------------------------------------------
(* What the party server says, if its parties change *)

\* P2W CREATE_PARTY.  That no member is in a party here is asserted.
CreateParty(members) ==
    /\ RosterChanges
    /\ \A m \in members : ~InParty(m)
    /\ \E p \in PartyIDs \ DOMAIN parties :
          /\ parties' = With(parties, p, members)
          /\ partyID' = [c \in Players |-> IF c \in members \intersect loaded THEN p
                                           ELSE partyID[c]]
    /\ UNCHANGED <<loaded, alive, info, chunk, spawned, standing, instances, joining, finished>>

\* P2W PARTY_LEAVE_ACK.
LeaveParty(c) ==
    /\ RosterChanges /\ c \in loaded
    /\ \E p \in DOMAIN parties \intersect PartyIDs :
          c \in parties[p] /\ parties' = [parties EXCEPT ![p] = @ \ {c}]
    /\ partyID' = [partyID EXCEPT ![c] = None]
    /\ UNCHANGED <<loaded, alive, info, chunk, spawned, standing, instances, joining, finished>>

\* P2W DESTROY_PARTY: the characters keep the ID of the party.
DestroyParty(p) ==
    /\ RosterChanges /\ p \in DOMAIN parties \intersect PartyIDs
    /\ Cardinality(parties[p]) < 2 \/ parties[p] \intersect loaded = {}
    /\ parties' = Without(parties, p)
    /\ UNCHANGED <<loaded, alive, info, partyID, chunk, spawned, standing, instances,
                   joining, finished>>

-----------------------------------------------------------------------------
Init ==
    /\ loaded = {} /\ alive = Players
    /\ info = [c \in Players |-> [world |-> Town, dungeon |-> None]]
    /\ partyID = [c \in Players |-> None]
    /\ chunk = [c \in Players |-> None]
    /\ spawned = {} /\ standing = {} /\ joining = {}
    /\ instances = [p \in {} |-> None]
    /\ parties = Rosters
    /\ finished = [c \in Players |-> {}]

ComingsAndGoings ==
    \E c \in Players : Load(c) \/ PartyServerAnswers(c) \/ Disconnect(c) \/ Deinitialize(c)

Warps ==
    \E c \in Players :
       \/ Move(c) \/ Leave(c) \/ WarpByPattern(c) \/ Die(c) \/ Revive(c) \/ ExitDungeon(c)
       \/ \E d \in Dungeons : EnterDungeon(c, d)

Course ==
    \/ \E c \in Players : StartDungeon(c) \/ EndDungeon(c) \/ Pause(c) \/ Resume(c)
    \/ \E p \in DOMAIN instances : CompletePart(p)
    \/ Tick

PartyChanges ==
    \/ \E members \in SUBSET Players : Cardinality(members) = 2 /\ CreateParty(members)
    \/ \E c \in Players : LeaveParty(c)
    \/ \E p \in PartyIDs : DestroyParty(p)

Next == ComingsAndGoings \/ Warps \/ Course \/ PartyChanges

Fairness == WF_vars(Tick)

Spec == Init /\ [][Next]_vars /\ Fairness

-----------------------------------------------------------------------------
(* Properties *)

\* The chunks hold loaded characters only, and each of them only the characters
\* whose movement names it: nobody is left behind in a chunk by a warp, a step
\* or the end of a connection, and nobody stands in two.
NoGhosts == standing \subseteq {<<chunk[c], c>> : c \in loaded}

\* Every player in the world stands in a chunk that exists: the dungeon of a
\* party is not taken away while a member of it is inside.
NobodyInDestroyed == \A c \in spawned : InItsChunk(c)

\* The assertion of RTWorldChunkRemove at the warp, the DEINITIALIZE or the
\* disconnection that may come next: a loaded character is in its chunk.
RemoveAssertHolds == \A c \in loaded : InItsChunk(c)

\* A dungeon that runs out of time has been played, pauses not counted, for its
\* whole time.
NoEarlyTimeout ==
    [][Tick => \A p \in DOMAIN instances :
          ~instances[p].closed /\ instances'[p].closed => instances'[p].played = MissionTime]_vars

\* A dungeon that was started and is not paused comes to an end.
Running(p) ==
    p \in DOMAIN instances /\ instances[p].active /\ ~instances[p].closed
                           /\ ~instances[p].paused

Stopped(p) ==
    p \notin DOMAIN instances \/ instances[p].closed \/ instances[p].paused

RunsOut == \A p \in IDs : Running(p) ~> Stopped(p)
=============================================================================
