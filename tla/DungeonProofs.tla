--------------------------- MODULE DungeonProofs ---------------------------
(***************************************************************************)
(* Theorems about the dungeons of a world server.  Of DungeonWorlds, for     *)
(* every number of players, dungeons, chunks, parties and contexts; and of   *)
(* DungeonMobs, for every dungeon and whatever its triggers order.           *)
(***************************************************************************)
EXTENDS DungeonWorlds, DungeonMobs, CountingProofs

LEMMA Bounds == MaxPause \in Nat /\ Parts \in Nat /\ MissionTime \in Nat /\ MaxBonus \in Nat
BY DungeonAssumption

-----------------------------------------------------------------------------
(* What happens to one context: it stays one, of its world and dungeon.    *)

Same(w, v) == v \in Instance /\ v.world = w.world /\ v.dungeon = w.dungeon

LEMMA FieldTypes ==
    ASSUME NEW w \in Instance
    PROVE  /\ \A b \in BOOLEAN :
                /\ Same(w, [w EXCEPT !.active = b])
                /\ Same(w, [w EXCEPT !.closed = b])
                /\ Same(w, [w EXCEPT !.cleared = b])
                /\ Same(w, [w EXCEPT !.paused = b])
           /\ \A n \in Int : Same(w, [w EXCEPT !.left = n])
           /\ \A n \in 0 .. Parts : Same(w, [w EXCEPT !.progress = n])
           /\ \A n \in 0 .. MissionTime : Same(w, [w EXCEPT !.played = n])
           /\ \A n \in 0 .. MaxPause : Same(w, [w EXCEPT !.pausedFor = n])
BY DEF Instance, Same

LEMMA InstanceTypes ==
    ASSUME NEW w \in Instance
    PROVE  /\ w.world \in Dungeons /\ w.dungeon \in Dungeons
           /\ w.active \in BOOLEAN /\ w.closed \in BOOLEAN /\ w.paused \in BOOLEAN
           /\ w.left \in Int /\ w.progress \in 0 .. Parts
           /\ w.played \in 0 .. MissionTime /\ w.pausedFor \in 0 .. MaxPause
BY DEF Instance

LEMMA NewInstanceType ==
    ASSUME NEW d \in Dungeons
    PROVE  NewInstance(d) \in Instance /\ NewInstance(d).world = d /\ NewInstance(d).dungeon = d
BY Bounds DEF NewInstance, Instance

LEMMA FailedType ==
    ASSUME NEW w \in Instance
    PROVE  Same(w, Failed(w))
<1> DEFINE w1 == [w EXCEPT !.active = FALSE]
           w2 == [w1 EXCEPT !.closed = TRUE]
<1> HIDE DEF w1, w2
<1>1. Same(w, w1)
  BY FieldTypes, Bounds DEF Same, w1
<1>2. Same(w1, w2)
  BY <1>1, FieldTypes, Bounds DEF Same, w2
<1>3. Failed(w) = IF w.active /\ ~w.closed THEN w2 ELSE w
  BY DEF Failed, w1, w2
<1> QED
  BY <1>1, <1>2, <1>3 DEF Same

LEMMA StartedType ==
    ASSUME NEW w \in Instance
    PROVE  Same(w, Started(w))
<1> DEFINE w1 == [w EXCEPT !.active = TRUE]
           w2 == [w1 EXCEPT !.progress = 0]
           w3 == [w2 EXCEPT !.left = MissionTime]
           w4 == [w3 EXCEPT !.played = 0]
<1> HIDE DEF w1, w2, w3, w4
<1>1. Same(w, w1)
  BY FieldTypes, Bounds DEF Same, w1
<1>2. Same(w1, w2)
  BY <1>1, FieldTypes, Bounds DEF Same, w2
<1>3. Same(w2, w3)
  BY <1>2, FieldTypes, Bounds DEF Same, w3
<1>4. Same(w3, w4)
  BY <1>3, FieldTypes, Bounds DEF Same, w4
<1>5. Started(w) = IF w.active THEN w ELSE w4
  BY DEF Started, w1, w2, w3, w4
<1> QED
  BY <1>1, <1>2, <1>3, <1>4, <1>5 DEF Same

LEMMA AdvancedType ==
    ASSUME NEW w \in Instance,
           NEW bonus \in 0 .. MaxBonus, w.progress < Parts
    PROVE  Same(w, Advanced(w, bonus))
<1> DEFINE w1 == [w EXCEPT !.progress = @ + 1]
           w2 == [w1 EXCEPT !.left = @ + bonus]
<1> HIDE DEF w1, w2
<1>1. Same(w, w1)
  BY FieldTypes, InstanceTypes, Bounds DEF Same, w1
<1>2. Same(w1, w2)
  BY <1>1, FieldTypes, InstanceTypes, Bounds DEF Same, w2
<1>3. Advanced(w, bonus) = w2
  BY DEF Advanced, w1, w2
<1> QED
  BY <1>1, <1>2, <1>3 DEF Same

LEMMA EndedType ==
    ASSUME NEW w \in Instance
    PROVE  Same(w, Ended(w))
<1> DEFINE w1 == [w EXCEPT !.active = FALSE]
           w2 == [w1 EXCEPT !.closed = TRUE]
           w3 == [w2 EXCEPT !.cleared = TRUE]
<1> HIDE DEF w1, w2, w3
<1>1. Same(w, w1)
  BY FieldTypes, Bounds DEF Same, w1
<1>2. Same(w1, w2)
  BY <1>1, FieldTypes, Bounds DEF Same, w2
<1>3. Same(w2, w3)
  BY <1>2, FieldTypes, Bounds DEF Same, w3
<1>4. Ended(w) = w3
  BY DEF Ended, w1, w2, w3
<1> QED
  BY <1>1, <1>2, <1>3, <1>4 DEF Same

LEMMA PausedNowType ==
    ASSUME NEW w \in Instance
    PROVE  Same(w, PausedNow(w))
<1> DEFINE w1 == [w EXCEPT !.paused = TRUE]
           w2 == [w1 EXCEPT !.pausedFor = 0]
<1> HIDE DEF w1, w2
<1>1. Same(w, w1)
  BY FieldTypes, Bounds DEF Same, w1
<1>2. Same(w1, w2)
  BY <1>1, FieldTypes, Bounds DEF Same, w2
<1>3. PausedNow(w) = w2
  BY DEF PausedNow, w1, w2
<1> QED
  BY <1>1, <1>2, <1>3 DEF Same

LEMMA ResumedType ==
    ASSUME NEW w \in Instance
    PROVE  Same(w, Resumed(w))
<1> DEFINE w1 == [w EXCEPT !.paused = FALSE]
           w2 == [w1 EXCEPT !.pausedFor = 0]
           w3 == [w2 EXCEPT !.left = IF w.active THEN @ + w.pausedFor ELSE @]
<1> HIDE DEF w1, w2, w3
<1>1. Same(w, w1)
  BY FieldTypes, InstanceTypes, Bounds DEF Same, w1
<1>2. Same(w1, w2)
  BY <1>1, FieldTypes, InstanceTypes, Bounds DEF Same, w2
<1>3. Same(w2, w3)
  BY <1>2, FieldTypes, InstanceTypes, Bounds DEF Same, w3
<1>4. Resumed(w) = w3
  BY DEF Resumed, w1, w2, w3
<1> QED
  BY <1>1, <1>2, <1>3, <1>4 DEF Same

LEMMA TickedType ==
    ASSUME NEW w \in Instance
    PROVE  Same(w, Ticked(w))
<1> DEFINE p1 == [w EXCEPT !.pausedFor = @ + 1]
           p2 == [p1 EXCEPT !.left = IF w.active THEN @ - 1 ELSE @]
           r1 == [w EXCEPT !.left = @ - 1]
           r2 == [r1 EXCEPT !.played = IF @ < MissionTime THEN @ + 1 ELSE @]
<1> HIDE DEF p1, p2, r1, r2
<1>1. ASSUME w.paused, w.pausedFor < MaxPause
      PROVE  Same(w, p2)
  <2>1. Same(w, p1)
    BY <1>1, FieldTypes, InstanceTypes, Bounds DEF p1
  <2>2. Same(p1, p2)
    BY <2>1, FieldTypes, InstanceTypes DEF Same, p2
  <2> QED
    BY <2>1, <2>2 DEF Same
<1>2. Same(w, r2)
  <2>1. Same(w, r1)
    BY FieldTypes, InstanceTypes DEF r1
  <2>2. Same(r1, r2)
    BY <2>1, FieldTypes, InstanceTypes, Bounds DEF Same, r2
  <2> QED
    BY <2>1, <2>2 DEF Same
<1>3. Ticked(w) =
        IF w.paused THEN IF w.pausedFor < MaxPause THEN p2 ELSE w
        ELSE IF w.active /\ ~w.closed THEN IF r2.left <= 0 THEN Failed(r2) ELSE r2
        ELSE w
  BY DEF Ticked, p1, p2, r1, r2
<1> QED
  BY <1>1, <1>2, <1>3, FailedType DEF Same

-----------------------------------------------------------------------------
(* Types, and nobody left behind in a chunk.                               *)

Inv == TypeOK /\ NoGhosts

\* The contexts of parties after a step that replaces one, adds one or takes one.
LEMMA ContextsType ==
    ASSUME TypeOK, NEW p
    PROVE  /\ \A w \in Instance, q \in IDs :
                /\ DOMAIN With(instances, q, w) \in SUBSET IDs
                /\ \A r \in DOMAIN With(instances, q, w) : With(instances, q, w)[r] \in Instance
           /\ DOMAIN Without(instances, p) \in SUBSET IDs
           /\ \A r \in DOMAIN Without(instances, p) : Without(instances, p)[r] \in Instance
           /\ \A w \in Instance :
                /\ DOMAIN [instances EXCEPT ![p] = w] \in SUBSET IDs
                /\ \A r \in DOMAIN [instances EXCEPT ![p] = w] :
                      [instances EXCEPT ![p] = w][r] \in Instance
BY DEF TypeOK, With, Without

LEMMA PartiesType ==
    ASSUME TypeOK, NEW p
    PROVE  /\ \A m \in SUBSET Players, q \in IDs :
                /\ DOMAIN With(parties, q, m) \in SUBSET IDs
                /\ \A r \in DOMAIN With(parties, q, m) : With(parties, q, m)[r] \in SUBSET Players
           /\ DOMAIN Without(parties, p) \in SUBSET IDs
           /\ \A r \in DOMAIN Without(parties, p) : Without(parties, p)[r] \in SUBSET Players
           /\ \A m \in SUBSET Players :
                /\ DOMAIN [parties EXCEPT ![p] = m] \in SUBSET IDs
                /\ \A r \in DOMAIN [parties EXCEPT ![p] = m] :
                      [parties EXCEPT ![p] = m][r] \in SUBSET Players
BY DEF TypeOK, With, Without

LEMMA InitInv == Init => Inv
BY DungeonAssumption DEF Init, Inv, TypeOK, NoGhosts, Where, Worlds, IDs

\* A character that leaves its chunk for another one.
LEMMA SpawnFacts ==
    ASSUME Inv, NEW c \in loaded, NEW place \in Places, Spawn(c, place), loaded' = loaded
    PROVE  /\ standing' \in SUBSET (Places \X Players)
           /\ chunk' \in [Players -> Places \union {None}]
           /\ spawned' \in SUBSET loaded'
           /\ NoGhosts'
BY DEF Inv, TypeOK, NoGhosts, Spawn, Left

\* What holds of a step that changes the contexts of parties only.
LEMMA ContextStep ==
    ASSUME Inv, UNCHANGED <<loaded, alive, info, partyID, chunk, spawned, standing, parties,
                            joining>>,
           finished' \in [Players -> SUBSET Dungeons],
           DOMAIN instances' \in SUBSET IDs,
           \A r \in DOMAIN instances' : instances'[r] \in Instance
    PROVE  Inv'
BY DEF Inv, TypeOK, NoGhosts

LEMMA ContextOfType ==
    ASSUME Inv, NEW c \in Players
    PROVE  /\ ContextOf(c) \in Contexts
           /\ InInstance(c) => /\ ContextOf(c) = partyID[c]
                               /\ ContextOf(c) \in IDs
                               /\ instances[ContextOf(c)] \in Instance
                               /\ instances[ContextOf(c)].world = info[c].world
BY DungeonAssumption DEF Inv, TypeOK, ContextOf, InInstance, Contexts, Where, Worlds, IDs

LEMMA LoadInv ==
    ASSUME Inv, NEW c \in Players, Load(c)
    PROVE  Inv'
BY DungeonAssumption DEF Inv, TypeOK, NoGhosts, Load, Left, Where, Worlds, IDs, Places, Contexts

LEMMA PartyServerAnswersInv ==
    ASSUME Inv, NEW c \in Players, PartyServerAnswers(c)
    PROVE  Inv'
<1>1. partyID' \in [Players -> IDs \union {None}]
  BY DEF Inv, TypeOK, PartyServerAnswers, IDs
<1> QED
  BY <1>1 DEF Inv, TypeOK, NoGhosts, PartyServerAnswers

LEMMA DisconnectInv ==
    ASSUME Inv, NEW c \in Players, Disconnect(c)
    PROVE  Inv'
BY DEF Inv, TypeOK, NoGhosts, Disconnect, Left, Unload, IDs

LEMMA DeinitializeInv ==
    ASSUME Inv, NEW c \in Players, Deinitialize(c)
    PROVE  Inv'
BY ContextsType, PartiesType DEF Inv, TypeOK, NoGhosts, Deinitialize, Left, Unload, IDs, Emptied

LEMMA MoveInv ==
    ASSUME Inv, NEW c \in Players, Move(c)
    PROVE  Inv'
<1>1. PICK k \in Chunks : Spawn(c, <<chunk[c][1], k>>)
  BY DEF Move
<1>2. c \in loaded /\ <<chunk[c][1], k>> \in Places
  BY DEF Inv, TypeOK, Move, InItsChunk, Places
<1> QED
  BY <1>1, <1>2, SpawnFacts DEF Inv, TypeOK, Move

LEMMA LeaveInv ==
    ASSUME Inv, NEW c \in Players, Leave(c)
    PROVE  Inv'
<1>1. PICK k \in Chunks : Spawn(c, <<Town, k>>)
  BY DEF Leave
<1>2. c \in loaded /\ <<Town, k>> \in Places
  BY DEF Leave, Places, Contexts, Worlds
<1>3. info' \in [Players -> Where]
  BY DEF Leave, Inv, TypeOK, Where, Worlds
<1> QED
  BY <1>1, <1>2, <1>3, SpawnFacts DEF Inv, TypeOK, Leave

LEMMA WarpByPatternInv ==
    ASSUME Inv, NEW c \in Players, WarpByPattern(c)
    PROVE  Inv'
<1>1. PICK k \in Chunks : Spawn(c, <<ContextOf(c), k>>)
  BY DEF WarpByPattern
<1>2. c \in loaded /\ <<ContextOf(c), k>> \in Places
  BY ContextOfType DEF Inv, TypeOK, WarpByPattern, Places
<1> QED
  BY <1>1, <1>2, SpawnFacts DEF Inv, TypeOK, WarpByPattern

LEMMA DieInv ==
    ASSUME Inv, NEW c \in Players, Die(c)
    PROVE  Inv'
BY DEF Inv, TypeOK, NoGhosts, Die

LEMMA ReviveInv ==
    ASSUME Inv, NEW c \in Players, Revive(c)
    PROVE  Inv'
<1>1. c \in loaded
  BY DEF Revive
<1>2. info' \in [Players -> Where]
  <2>1. CASE info' = [info EXCEPT ![c].dungeon =
                        IF InInstance(c) THEN instances[ContextOf(c)].dungeon ELSE None]
    <3> DEFINE d == IF InInstance(c) THEN instances[ContextOf(c)].dungeon ELSE None
    <3>1. d \in Dungeons \union {None}
      BY ContextOfType, InstanceTypes
    <3> HIDE DEF d
    <3>2. [info[c] EXCEPT !.dungeon = d] \in Where
      BY <3>1 DEF Inv, TypeOK, Where
    <3> QED
      BY <2>1, <3>2 DEF Inv, TypeOK, d
  <2>2. CASE info' = [info EXCEPT ![c] = [world |-> Town, dungeon |-> None]]
    BY <2>2 DEF Inv, TypeOK, Where, Worlds
  <2> QED
    BY <2>1, <2>2 DEF Revive
<1>3. \A k \in Chunks : <<ContextOf(c), k>> \in Places /\ <<Town, k>> \in Places
  BY ContextOfType DEF Places, Contexts, Worlds
<1>4. PICK place \in Places : Spawn(c, place)
  BY <1>3 DEF Revive
<1> QED
  BY <1>1, <1>2, <1>4, SpawnFacts DEF Inv, TypeOK, Revive

LEMMA EnterDungeonInv ==
    ASSUME Inv, NEW c \in Players, NEW d \in Dungeons, EnterDungeon(c, d)
    PROVE  Inv'
<1>1. c \in loaded
  BY DEF EnterDungeon
<1>2. CASE UNCHANGED <<info, partyID, chunk, instances, parties>> /\ standing' = Left(c)
           /\ spawned' = spawned \ {c}
  BY <1>2 DEF EnterDungeon, Inv, TypeOK, NoGhosts, Left
<1>3. CASE ~PartyContextIsFull
  <2>1. PICK p \in IDs :
          LET w == IF p \in DOMAIN instances THEN instances[p] ELSE NewInstance(d) IN
          /\ Opener(c, p)
          /\ partyID' = [partyID EXCEPT ![c] = p]
          /\ parties' = IF partyID[c] = None THEN With(parties, p, {c}) ELSE parties
          /\ instances' = With(instances, p, w)
          /\ info' = [info EXCEPT ![c] = [world |-> d, dungeon |-> w.dungeon]]
          /\ \E k \in Chunks : Spawn(c, <<p, k>>)
    BY <1>3 DEF EnterDungeon
  <2> DEFINE w == IF p \in DOMAIN instances THEN instances[p] ELSE NewInstance(d)
  <2>2. w \in Instance
    BY NewInstanceType DEF Inv, TypeOK
  <2>3. info' \in [Players -> Where]
    BY <2>1, <2>2, InstanceTypes DEF Inv, TypeOK, Where, Worlds
  <2>4. PICK place \in Places : Spawn(c, place)
    BY <2>1 DEF Places, Contexts
  <2>5. /\ DOMAIN instances' \in SUBSET IDs
        /\ \A r \in DOMAIN instances' : instances'[r] \in Instance
    BY <2>1, <2>2, ContextsType DEF Inv
  <2>6. /\ DOMAIN parties' \in SUBSET IDs
        /\ \A r \in DOMAIN parties' : parties'[r] \in SUBSET Players
    BY <2>1, PartiesType, {c} \in SUBSET Players DEF Inv, TypeOK
  <2> QED
    BY <1>1, <2>1, <2>3, <2>4, <2>5, <2>6, SpawnFacts DEF EnterDungeon, Inv, TypeOK
<1> QED
  BY <1>2, <1>3 DEF EnterDungeon

LEMMA ExitDungeonInv ==
    ASSUME Inv, NEW c \in Players, ExitDungeon(c)
    PROVE  Inv'
<1> DEFINE p == ContextOf(c)
           w == instances[p]
           v == IF ~w.cleared /\ ~w.closed /\ c \in alive THEN Failed(w) ELSE w
           out == [info EXCEPT ![c] = [world |-> Town, dungeon |-> None]]
<1>1. c \in loaded /\ p \in IDs /\ p \in Contexts /\ w \in Instance
  BY ContextOfType DEF ExitDungeon
<1>2. v \in Instance
  BY <1>1, FailedType DEF Same
<1>3. PICK k \in Chunks :
         \/ /\ info' = out
            /\ chunk' = [chunk EXCEPT ![c] = <<Town, k>>]
            /\ \/ /\ instances' = Without(instances, p)
                  /\ standing' = Emptied(Left(c), p) \union {<<<<Town, k>>, c>>}
                  /\ parties' \in {Without(parties, p), parties}
                  /\ partyID' \in {[partyID EXCEPT ![c] = None], partyID}
               \/ /\ instances' = [instances EXCEPT ![p] = v]
                  /\ standing' = Left(c) \union {<<<<Town, k>>, c>>}
                  /\ UNCHANGED <<parties, partyID>>
         \/ /\ info' = [info EXCEPT ![c].dungeon = w.dungeon]
            /\ chunk' = [chunk EXCEPT ![c] = <<p, k>>]
            /\ standing' = Left(c) \union {<<<<p, k>>, c>>}
            /\ UNCHANGED <<instances, parties, partyID>>
  BY DEF ExitDungeon
<1> HIDE DEF p, w, v
<1>4. info' \in [Players -> Where]
  <2>1. [info[c] EXCEPT !.dungeon = w.dungeon] \in Where
    BY <1>1, InstanceTypes DEF Inv, TypeOK, Where
  <2>2. out \in [Players -> Where]
    BY DEF Inv, TypeOK, Where, Worlds
  <2> QED
    BY <1>3, <2>1, <2>2 DEF Inv, TypeOK
<1>5. <<Town, k>> \in Places /\ <<p, k>> \in Places
  BY <1>1 DEF Places, Contexts, Worlds
<1>6. PICK place \in Places :
         /\ chunk' = [chunk EXCEPT ![c] = place]
         /\ standing' \subseteq Left(c) \union {<<place, c>>}
  BY <1>3, <1>5 DEF Emptied
<1>7. /\ standing' \in SUBSET (Places \X Players)
      /\ chunk' \in [Players -> Places \union {None}]
      /\ NoGhosts'
  <2>1. loaded' = loaded
    BY DEF ExitDungeon
  <2> QED
    BY <1>1, <1>6, <2>1 DEF Inv, TypeOK, NoGhosts, Left
<1>8. /\ DOMAIN instances' \in SUBSET IDs
      /\ \A r \in DOMAIN instances' : instances'[r] \in Instance
  BY <1>2, <1>3, ContextsType DEF Inv, TypeOK
<1>9. /\ DOMAIN parties' \in SUBSET IDs
      /\ \A r \in DOMAIN parties' : parties'[r] \in SUBSET Players
      /\ partyID' \in [Players -> IDs \union {None}]
  BY <1>3, PartiesType DEF Inv, TypeOK
<1> QED
  BY <1>1, <1>4, <1>7, <1>8, <1>9 DEF ExitDungeon, Inv, TypeOK

LEMMA StartDungeonInv ==
    ASSUME Inv, NEW c \in Players, StartDungeon(c)
    PROVE  Inv'
<1>1. instances[ContextOf(c)] \in Instance
  BY ContextOfType DEF StartDungeon
<1>2. Started(instances[ContextOf(c)]) \in Instance
  BY <1>1, StartedType DEF Same
<1>3. instances' = [instances EXCEPT ![ContextOf(c)] = Started(instances[ContextOf(c)])]
  BY DEF StartDungeon
<1> QED
  BY <1>2, <1>3, ContextsType, ContextStep DEF StartDungeon, Inv, TypeOK

LEMMA EndDungeonInv ==
    ASSUME Inv, NEW c \in Players, EndDungeon(c)
    PROVE  Inv'
<1> DEFINE p == ContextOf(c)
<1>1. p \in DOMAIN instances /\ instances[p] \in Instance
  BY ContextOfType DEF EndDungeon, InInstance
<1>2. Ended(instances[p]) \in Instance /\ Failed(instances[p]) \in Instance
  BY <1>1, EndedType, FailedType DEF Same
<1>3. finished' \in [Players -> SUBSET Dungeons]
  BY <1>1, InstanceTypes DEF EndDungeon, Inv, TypeOK
<1>4. \/ instances' = instances
      \/ instances' = [instances EXCEPT ![p] = Ended(instances[p])]
      \/ instances' = [instances EXCEPT ![p] = Failed(instances[p])]
  BY DEF EndDungeon
<1> HIDE DEF p
<1>5. /\ DOMAIN instances' \in SUBSET IDs
      /\ \A r \in DOMAIN instances' : instances'[r] \in Instance
  BY <1>2, <1>4, ContextsType DEF Inv, TypeOK
<1> QED
  BY <1>3, <1>5, ContextStep DEF EndDungeon

LEMMA PauseInv ==
    ASSUME Inv, NEW c \in Players, Pause(c)
    PROVE  Inv'
<1>1. instances[ContextOf(c)] \in Instance
  BY ContextOfType DEF Pause
<1>2. PausedNow(instances[ContextOf(c)]) \in Instance
  BY <1>1, PausedNowType DEF Same
<1>3. instances' = [instances EXCEPT ![ContextOf(c)] = PausedNow(instances[ContextOf(c)])]
  BY DEF Pause
<1> QED
  BY <1>2, <1>3, ContextsType, ContextStep DEF Pause, Inv, TypeOK

LEMMA ResumeInv ==
    ASSUME Inv, NEW c \in Players, Resume(c)
    PROVE  Inv'
<1>1. instances[ContextOf(c)] \in Instance
  BY ContextOfType DEF Resume
<1>2. Resumed(instances[ContextOf(c)]) \in Instance
  BY <1>1, ResumedType DEF Same
<1>3. instances' = [instances EXCEPT ![ContextOf(c)] = Resumed(instances[ContextOf(c)])]
  BY DEF Resume
<1> QED
  BY <1>2, <1>3, ContextsType, ContextStep DEF Resume, Inv, TypeOK

LEMMA LeavePartyInv ==
    ASSUME Inv, NEW c \in Players, LeaveParty(c)
    PROVE  Inv'
BY PartiesType DEF Inv, TypeOK, NoGhosts, LeaveParty, IDs

LEMMA CompletePartInv ==
    ASSUME Inv, NEW p \in DOMAIN instances, CompletePart(p)
    PROVE  Inv'
<1>1. PICK bonus \in 0 .. MaxBonus :
         instances' = [instances EXCEPT ![p] = Advanced(instances[p], bonus)]
  BY DEF CompletePart
<1>2. Advanced(instances[p], bonus) \in Instance
  BY AdvancedType DEF CompletePart, Inv, TypeOK, Same
<1> QED
  BY <1>1, <1>2, ContextsType, ContextStep DEF CompletePart, Inv, TypeOK

LEMMA TickInv ==
    ASSUME Inv, Tick
    PROVE  Inv'
<1>1. \A p \in DOMAIN instances : Ticked(instances[p]) \in Instance
  BY TickedType DEF Inv, TypeOK, Same
<1> QED
  BY <1>1, ContextStep DEF Tick, Inv, TypeOK

LEMMA CreatePartyInv ==
    ASSUME Inv, NEW members \in SUBSET Players, CreateParty(members)
    PROVE  Inv'
<1>1. PICK p \in PartyIDs :
         /\ parties' = With(parties, p, members)
         /\ partyID' = [c \in Players |-> IF c \in members \intersect loaded THEN p
                                           ELSE partyID[c]]
  BY DEF CreateParty
<1>2. p \in IDs
  BY DEF IDs
<1>3. /\ DOMAIN parties' \in SUBSET IDs
      /\ \A r \in DOMAIN parties' : parties'[r] \in SUBSET Players
  BY <1>1, <1>2, PartiesType DEF Inv
<1>4. partyID' \in [Players -> IDs \union {None}]
  BY <1>1, <1>2 DEF Inv, TypeOK
<1> QED
  BY <1>3, <1>4 DEF Inv, TypeOK, NoGhosts, CreateParty

LEMMA DestroyPartyInv ==
    ASSUME Inv, NEW p \in PartyIDs, DestroyParty(p)
    PROVE  Inv'
BY PartiesType DEF Inv, TypeOK, NoGhosts, DestroyParty

\* The chunks of the contexts hold loaded characters only, each in the chunk its
\* movement names, whatever warps, steps, dungeons and connections do.
THEOREM NoGhostsAlways == Spec => [](TypeOK /\ NoGhosts)
<1>1. Init => Inv
  BY InitInv
<1>2. Inv /\ [Next]_vars => Inv'
  <2> SUFFICES ASSUME Inv, [Next]_vars
               PROVE  Inv'
    OBVIOUS
  <2>1. CASE ComingsAndGoings
    BY <2>1, LoadInv, PartyServerAnswersInv, DisconnectInv, DeinitializeInv
       DEF ComingsAndGoings
  <2>2. CASE Warps
    BY <2>2, MoveInv, LeaveInv, WarpByPatternInv, DieInv, ReviveInv, EnterDungeonInv,
       ExitDungeonInv DEF Warps
  <2>3. CASE Course
    BY <2>3, StartDungeonInv, EndDungeonInv, PauseInv, ResumeInv, CompletePartInv, TickInv
       DEF Course
  <2>4. CASE PartyChanges
    BY <2>4, CreatePartyInv, LeavePartyInv, DestroyPartyInv DEF PartyChanges
  <2>5. CASE UNCHANGED vars
    BY <2>5 DEF vars, Inv, TypeOK, NoGhosts
  <2> QED
    BY <2>1, <2>2, <2>3, <2>4, <2>5 DEF Next
<1> QED
  BY <1>1, <1>2, PTL DEF Spec, Inv

-----------------------------------------------------------------------------
(* Nobody inside a context that is taken away, where the parties do not change *)
(* and there is one dungeon.                                                  *)

\* The parties of the party server are those there were; the others have one player.
PartiesKept ==
    /\ DOMAIN parties \intersect PartyIDs = DOMAIN Rosters
    /\ \A p \in DOMAIN Rosters : parties[p] = Rosters[p]
    /\ \A p \in DOMAIN parties \intersect SoloIDs : \E c \in Players : parties[p] = {c}
    /\ \A p, q \in DOMAIN parties : p # q => parties[p] \intersect parties[q] = {}

\* A character with a party's ID is in that party; a party of one has its context.
PartyKnown ==
    \A c \in Players : partyID[c] # None =>
       /\ c \in loaded
       /\ partyID[c] \in DOMAIN parties /\ c \in parties[partyID[c]]
       /\ partyID[c] \in SoloIDs => partyID[c] \in DOMAIN instances

OneWorldEach == \A p \in DOMAIN instances : instances[p].world = instances[p].dungeon

\* A character with a party's ID that is in the world of a dungeon is in the
\* dungeon, and its party's context exists.
InsideTheirs ==
    \A c \in loaded : partyID[c] # None /\ info[c].world \in Dungeons =>
       partyID[c] \in DOMAIN instances /\ info[c].dungeon = info[c].world

\* So is a member of a party of the party server, and it knows its party's ID.
MembersInside ==
    \A p \in DOMAIN Rosters : \A c \in Rosters[p] : info[c].world \in Dungeons =>
       /\ info[c].dungeon = info[c].world
       /\ c \in loaded => partyID[c] = p

\* Who stands in a party's context is a member of it, and saved as being inside.
InstancesHold ==
    \A c \in spawned : chunk[c][1] \in IDs =>
       /\ chunk[c][1] \in DOMAIN instances
       /\ chunk[c][1] \in DOMAIN parties /\ c \in parties[chunk[c][1]]
       /\ info[c].world \in Dungeons /\ info[c].dungeon = info[c].world

Kept ==
    /\ Inv /\ PartiesKept /\ PartyKnown /\ OneWorldEach /\ InsideTheirs /\ MembersInside
    /\ InstancesHold /\ NobodyInDestroyed

OneDungeon == RosterChanges = FALSE /\ \A d, e \in Dungeons : d = e

\* A character with a party's ID in the world of a dungeon is in its party's context.
LEMMA InTheirContext ==
    ASSUME OneDungeon, Kept, NEW c \in loaded, partyID[c] # None, info[c].world \in Dungeons
    PROVE  InInstance(c)
<1>1. partyID[c] \in DOMAIN instances
  BY DEF Kept, InsideTheirs
<1>2. instances[partyID[c]].world = info[c].world
  BY <1>1, InstanceTypes DEF OneDungeon, Kept, Inv, TypeOK
<1> QED
  BY <1>1, <1>2 DEF InInstance, ContextOf

\* What is known of a character whose requests act on a party's context.
LEMMA ContextKnown ==
    ASSUME OneDungeon, Kept, NEW c \in loaded, InInstance(c)
    PROVE  LET p == ContextOf(c) IN
           /\ p = partyID[c] /\ p \in IDs /\ p # None
           /\ p \in DOMAIN instances /\ instances[p] \in Instance
           /\ p \in DOMAIN parties /\ c \in parties[p]
           /\ info[c].world \in Dungeons /\ info[c].dungeon = info[c].world
           /\ instances[p].world = info[c].world /\ instances[p].dungeon = info[c].dungeon
<1> DEFINE p == ContextOf(c)
<1>1. c \in Players
  BY DEF Kept, Inv, TypeOK
<1>2. p = partyID[c] /\ p \in IDs /\ p \in DOMAIN instances /\ instances[p] \in Instance
      /\ instances[p].world = info[c].world
  BY <1>1, ContextOfType DEF Kept, InInstance
<1>3. p # None
  BY <1>2, DungeonAssumption DEF IDs
<1>4. info[c].world \in Dungeons
  BY <1>2, InstanceTypes
<1>5. p \in DOMAIN parties /\ c \in parties[p]
  BY <1>1, <1>2, <1>3 DEF Kept, PartyKnown
<1>6. info[c].dungeon = info[c].world /\ instances[p].dungeon = instances[p].world
  BY <1>2, <1>3, <1>4 DEF Kept, InsideTheirs, OneWorldEach
<1> QED
  BY <1>2, <1>3, <1>4, <1>5, <1>6

LEMMA GlobalContext ==
    ASSUME Kept, NEW c \in Players, ~InInstance(c)
    PROVE  ContextOf(c) \notin IDs
BY DungeonAssumption
   DEF Kept, Inv, TypeOK, InInstance, ContextOf, Where, Worlds, IDs

\* A step that leaves the parties and the world of each context alone, and that
\* moves, if anyone, one character, within its context or to the town.
LEMMA ContextsKept ==
    ASSUME Kept, UNCHANGED <<loaded, info, partyID, chunk, spawned, standing, parties>>, Inv',
           DOMAIN instances' = DOMAIN instances,
           \A p \in DOMAIN instances : Same(instances[p], instances'[p])
    PROVE  Kept'
<1>1. OneWorldEach'
  BY DEF Kept, OneWorldEach, Same
<1> QED
  BY <1>1 DEF Kept, PartiesKept, PartyKnown, InsideTheirs, MembersInside, InstancesHold,
              NobodyInDestroyed, InItsChunk

\* A character that goes elsewhere leaves the others where they are.
LEMMA SpawnKept ==
    ASSUME Kept, NEW c \in loaded, NEW place, Spawn(c, place)
    PROVE  NobodyInDestroyed'
BY DEF Kept, Inv, TypeOK, NobodyInDestroyed, InItsChunk, Spawn, Left

LEMMA LoadKept ==
    ASSUME OneDungeon, Kept, NEW c \in Players, Load(c)
    PROVE  Kept'
<1>1. Inv'
  BY LoadInv DEF Kept
<1>2. PartiesKept'
  BY DEF Kept, PartiesKept, Load
<1>3. PartyKnown'
  BY DEF Kept, PartyKnown, Inv, TypeOK, Load
<1>4. OneWorldEach'
  BY DEF Kept, OneWorldEach, Load
<1>5. InsideTheirs'
  BY DEF Kept, InsideTheirs, Inv, TypeOK, Load
<1>6. MembersInside'
  BY DungeonAssumption DEF Kept, MembersInside, Inv, TypeOK, Where, Worlds, Load
<1>7. InstancesHold'
  BY DungeonAssumption DEF Kept, InstancesHold, Inv, TypeOK, Where, Worlds, IDs, Load
<1>8. NobodyInDestroyed'
  BY DEF Kept, NobodyInDestroyed, InItsChunk, Inv, TypeOK, Load
<1> QED
  BY <1>1, <1>2, <1>3, <1>4, <1>5, <1>6, <1>7, <1>8 DEF Kept

LEMMA PartyServerAnswersKept ==
    ASSUME OneDungeon, Kept, NEW c \in Players, PartyServerAnswers(c)
    PROVE  Kept'
<1>1. Inv'
  BY PartyServerAnswersInv DEF Kept
<1>2. PartiesKept'
  BY DEF Kept, PartiesKept, PartyServerAnswers
<1>3. PartyKnown'
  BY DungeonAssumption DEF Kept, PartyKnown, Inv, TypeOK, PartyServerAnswers
<1>4. OneWorldEach'
  BY DEF Kept, OneWorldEach, PartyServerAnswers
<1>5. InsideTheirs'
  BY DungeonAssumption
     DEF Kept, PartiesKept, InsideTheirs, MembersInside, Inv, TypeOK, PartyServerAnswers
<1>6. MembersInside'
  BY DungeonAssumption
     DEF Kept, PartiesKept, MembersInside, Inv, TypeOK, PartyServerAnswers
<1>7. InstancesHold'
  BY DEF Kept, InstancesHold, PartyServerAnswers
<1>8. NobodyInDestroyed'
  BY DEF Kept, NobodyInDestroyed, InItsChunk, PartyServerAnswers
<1> QED
  BY <1>1, <1>2, <1>3, <1>4, <1>5, <1>6, <1>7, <1>8 DEF Kept

LEMMA DisconnectKept ==
    ASSUME OneDungeon, Kept, NEW c \in Players, Disconnect(c)
    PROVE  Kept'
<1>1. Inv'
  BY DisconnectInv DEF Kept
<1>2. PartiesKept'
  BY DEF Kept, PartiesKept, Disconnect
<1>3. PartyKnown'
  BY DEF Kept, PartyKnown, Inv, TypeOK, Disconnect, Unload
<1>4. OneWorldEach'
  BY DEF Kept, OneWorldEach, Disconnect
<1>5. InsideTheirs'
  BY DEF Kept, InsideTheirs, Inv, TypeOK, Disconnect, Unload
<1>6. MembersInside'
  BY DEF Kept, MembersInside, Inv, TypeOK, Disconnect, Unload
<1>7. InstancesHold'
  BY DEF Kept, InstancesHold, Inv, TypeOK, Disconnect, Unload
<1>8. NobodyInDestroyed'
  BY DEF Kept, NobodyInDestroyed, InItsChunk, Inv, TypeOK, Disconnect, Unload, Left
<1> QED
  BY <1>1, <1>2, <1>3, <1>4, <1>5, <1>6, <1>7, <1>8 DEF Kept

LEMMA DeinitializeKept ==
    ASSUME OneDungeon, Kept, NEW c \in Players, Deinitialize(c)
    PROVE  Kept'
<1>1. Inv'
  BY DeinitializeInv DEF Kept
\* Nobody else is in a party of one, or knows its ID.
<1>0. partyID[c] \in DOMAIN parties \intersect SoloIDs => parties[partyID[c]] = {c}
  <2>1. partyID[c] \in SoloIDs => partyID[c] # None
    BY DungeonAssumption
  <2> QED
    BY <2>1 DEF Kept, PartiesKept, PartyKnown
<1>2. PartiesKept'
  <2>1. DOMAIN parties' \intersect PartyIDs = DOMAIN parties \intersect PartyIDs
        /\ DOMAIN parties' \subseteq DOMAIN parties
        /\ \A p \in DOMAIN parties' : parties'[p] = parties[p]
    BY DungeonAssumption DEF Deinitialize, Without
  <2> QED
    BY <2>1 DEF Kept, PartiesKept
<1>3. PartyKnown'
  BY <1>0 DEF Kept, PartyKnown, Inv, TypeOK, Deinitialize, Unload, Without
<1>4. OneWorldEach'
  BY <1>0 DEF Kept, OneWorldEach, Deinitialize, Without
<1>5. InsideTheirs'
  BY <1>0 DEF Kept, PartyKnown, InsideTheirs, Inv, TypeOK, Deinitialize, Unload, Without
<1>6. MembersInside'
  BY <1>0 DEF Kept, MembersInside, Inv, TypeOK, Deinitialize, Unload
<1>7. InstancesHold'
  BY <1>0 DEF Kept, InstancesHold, Inv, TypeOK, Deinitialize, Unload, Without
<1>8. NobodyInDestroyed'
  BY <1>0 DEF Kept, InstancesHold, NobodyInDestroyed, InItsChunk, Inv, TypeOK, Deinitialize, Unload, Left, Emptied
<1> QED
  BY <1>1, <1>2, <1>3, <1>4, <1>5, <1>6, <1>7, <1>8 DEF Kept

LEMMA MoveKept ==
    ASSUME OneDungeon, Kept, NEW c \in Players, Move(c)
    PROVE  Kept'
<1>1. Inv'
  BY MoveInv DEF Kept
<1>0. PICK k \in Chunks : Spawn(c, <<chunk[c][1], k>>)
  BY DEF Move
<1>a. c \in loaded
  BY DEF Move, Kept, Inv, TypeOK
<1>2. PartiesKept'
  BY DEF Kept, PartiesKept, Move
<1>3. PartyKnown'
  BY DEF Kept, PartyKnown, Move
<1>4. OneWorldEach'
  BY DEF Kept, OneWorldEach, Move
<1>5. InsideTheirs'
  BY DEF Kept, InsideTheirs, Inv, TypeOK, Move
<1>6. MembersInside'
  BY DEF Kept, MembersInside, Inv, TypeOK, Move
<1>7. InstancesHold'
  BY <1>0, <1>a DEF Kept, InstancesHold, Inv, TypeOK, Spawn, Move
<1>8. NobodyInDestroyed'
  BY <1>0, <1>a, SpawnKept
<1> QED
  BY <1>1, <1>2, <1>3, <1>4, <1>5, <1>6, <1>7, <1>8 DEF Kept

LEMMA LeaveKept ==
    ASSUME OneDungeon, Kept, NEW c \in Players, Leave(c)
    PROVE  Kept'
<1>1. Inv'
  BY LeaveInv DEF Kept
<1>0. PICK k \in Chunks : Spawn(c, <<Town, k>>)
  BY DEF Leave
<1>a. c \in loaded /\ Town \notin Dungeons \union IDs
  BY DungeonAssumption DEF Leave, IDs
<1>2. PartiesKept'
  BY DEF Kept, PartiesKept, Leave
<1>3. PartyKnown'
  BY DEF Kept, PartyKnown, Leave
<1>4. OneWorldEach'
  BY DEF Kept, OneWorldEach, Leave
<1>5. InsideTheirs'
  BY <1>a DEF Kept, InsideTheirs, Inv, TypeOK, Leave
<1>6. MembersInside'
  BY <1>a DEF Kept, MembersInside, Inv, TypeOK, Leave
<1>7. InstancesHold'
  BY <1>0, <1>a DEF Kept, InstancesHold, Inv, TypeOK, Spawn, Leave
<1>8. NobodyInDestroyed'
  BY <1>0, <1>a, SpawnKept
<1> QED
  BY <1>1, <1>2, <1>3, <1>4, <1>5, <1>6, <1>7, <1>8 DEF Kept

LEMMA WarpByPatternKept ==
    ASSUME OneDungeon, Kept, NEW c \in Players, WarpByPattern(c)
    PROVE  Kept'
<1>1. Inv'
  BY WarpByPatternInv DEF Kept
<1>0. PICK k \in Chunks : Spawn(c, <<ContextOf(c), k>>)
  BY DEF WarpByPattern
<1>a. c \in loaded
  BY DEF WarpByPattern, Kept, Inv, TypeOK
<1>b. ContextOf(c) \in IDs => InInstance(c)
  BY GlobalContext DEF Kept
<1>2. PartiesKept'
  BY DEF Kept, PartiesKept, WarpByPattern
<1>3. PartyKnown'
  BY DEF Kept, PartyKnown, WarpByPattern
<1>4. OneWorldEach'
  BY DEF Kept, OneWorldEach, WarpByPattern
<1>5. InsideTheirs'
  BY DEF Kept, InsideTheirs, Inv, TypeOK, WarpByPattern
<1>6. MembersInside'
  BY DEF Kept, MembersInside, Inv, TypeOK, WarpByPattern
<1>7. InstancesHold'
  BY <1>0, <1>a, <1>b, ContextKnown DEF Kept, InstancesHold, Inv, TypeOK, WarpByPattern, Spawn
<1>8. NobodyInDestroyed'
  BY <1>0, <1>a, SpawnKept
<1> QED
  BY <1>1, <1>2, <1>3, <1>4, <1>5, <1>6, <1>7, <1>8 DEF Kept

LEMMA DieKept ==
    ASSUME OneDungeon, Kept, NEW c \in Players, Die(c)
    PROVE  Kept'
<1>1. Inv'
  BY DieInv DEF Kept
<1> QED
  BY <1>1 DEF Kept, PartiesKept, PartyKnown, OneWorldEach, InsideTheirs, MembersInside,
              InstancesHold, NobodyInDestroyed, InItsChunk, Die

LEMMA ReviveKept ==
    ASSUME OneDungeon, Kept, NEW c \in Players, Revive(c)
    PROVE  Kept'
<1>1. Inv'
  BY ReviveInv DEF Kept
<1>0. c \in loaded
  BY DEF Revive
\* It stays where it was, in its party's context or out of every dungeon it has
\* a party for, or it goes to the town.
<1>a. PICK place \in Contexts \X Chunks :
        /\ Spawn(c, place)
        /\ \A m \in Players \ {c} : info'[m] = info[m]
        /\ \/ InInstance(c) /\ place[1] = ContextOf(c) /\ info'[c] = info[c]
           \/ ~InInstance(c) /\ place[1] \notin IDs /\ info'[c].world = info[c].world
           \/ place[1] = Town /\ info'[c].world = Town
  <2>1. CASE \E k \in Chunks :
               /\ Spawn(c, <<ContextOf(c), k>>)
               /\ info' = [info EXCEPT ![c].dungeon =
                             IF InInstance(c) THEN instances[ContextOf(c)].dungeon ELSE None]
    <3>1. PICK k \in Chunks : Spawn(c, <<ContextOf(c), k>>)
      BY <2>1
    <3>2. <<ContextOf(c), k>> \in Contexts \X Chunks
      BY ContextOfType DEF Kept
    <3>3. \A m \in Players \ {c} : info'[m] = info[m]
      BY <2>1 DEF Kept, Inv, TypeOK
    <3>4. CASE InInstance(c)
      <4>1. info' = [info EXCEPT ![c].dungeon = info[c].dungeon]
        BY <1>0, <2>1, <3>4, ContextKnown
      <4>2. info'[c] = info[c]
        BY <4>1 DEF Kept, Inv, TypeOK, Where
      <4> QED
        BY <3>1, <3>2, <3>3, <3>4, <4>2
    <3>5. CASE ~InInstance(c)
      <4>1. info' = [info EXCEPT ![c].dungeon = None]
        BY <2>1, <3>5
      <4>2. info'[c].world = info[c].world
        BY <4>1 DEF Kept, Inv, TypeOK, Where
      <4> QED
        BY <3>1, <3>2, <3>3, <3>5, <4>2, GlobalContext
    <3> QED
      BY <3>4, <3>5
  <2>2. CASE \E k \in Chunks :
               /\ Spawn(c, <<Town, k>>)
               /\ info' = [info EXCEPT ![c] = [world |-> Town, dungeon |-> None]]
    <3>1. Town \in Contexts
      BY DEF Contexts, Worlds
    <3> QED
      BY <2>2, <3>1 DEF Kept, Inv, TypeOK
  <2> QED
    BY <2>1, <2>2 DEF Revive
<1>b. Town \notin Dungeons \union IDs
  BY DungeonAssumption DEF IDs
<1>c. c \in Players /\ (\A p \in DOMAIN Rosters : p # None)
  BY DungeonAssumption
<1>2. PartiesKept'
  BY DEF Kept, PartiesKept, Revive
<1>3. PartyKnown'
  BY DEF Kept, PartyKnown, Revive
<1>4. OneWorldEach'
  BY DEF Kept, OneWorldEach, Revive
<1>5. InsideTheirs'
  BY <1>0, <1>a, <1>b, <1>c, InTheirContext DEF Kept, InsideTheirs, Inv, TypeOK, Revive
<1>6. MembersInside'
  <2>1. ASSUME NEW p \in DOMAIN Rosters, c \in Rosters[p], info[c].world \in Dungeons
        PROVE  InInstance(c)
    <3>1. partyID[c] = p
      BY <1>0, <2>1 DEF Kept, MembersInside
    <3> QED
      BY <1>0, <1>c, <2>1, <3>1, InTheirContext
  <2>2. UNCHANGED <<loaded, partyID>>
    BY DEF Revive
  <2> QED
    BY <1>a, <1>b, <2>1, <2>2, DungeonAssumption DEF Kept, MembersInside
<1>7. InstancesHold'
  BY <1>0, <1>a, <1>b, ContextKnown DEF Kept, InstancesHold, Inv, TypeOK, Revive, Spawn
<1>8. NobodyInDestroyed'
  BY <1>0, <1>a, SpawnKept
<1> QED
  BY <1>1, <1>2, <1>3, <1>4, <1>5, <1>6, <1>7, <1>8 DEF Kept

LEMMA EnterDungeonKept ==
    ASSUME OneDungeon, Kept, NEW c \in Players, NEW d \in Dungeons, EnterDungeon(c, d)
    PROVE  Kept'
<1>1. Inv'
  BY EnterDungeonInv DEF Kept
<1>2. c \in loaded /\ info[c].world = Town /\ loaded' = loaded
  BY DEF EnterDungeon
<1>3. CASE PartyContextIsFull /\ standing' = Left(c) /\ spawned' = spawned \ {c}
           /\ UNCHANGED <<info, partyID, chunk, instances, parties>>
  <2>1. InstancesHold'
    BY <1>3 DEF Kept, InstancesHold
  <2>2. NobodyInDestroyed'
    BY <1>2, <1>3 DEF Kept, NobodyInDestroyed, InItsChunk, Left, Inv, TypeOK
  <2> QED
    BY <1>1, <1>2, <1>3, <2>1, <2>2
       DEF Kept, PartiesKept, PartyKnown, OneWorldEach, InsideTheirs, MembersInside
<1>4. CASE ~PartyContextIsFull
  <2>1. PICK p \in IDs :
          LET w == IF p \in DOMAIN instances THEN instances[p] ELSE NewInstance(d) IN
          /\ Opener(c, p)
          /\ partyID' = [partyID EXCEPT ![c] = p]
          /\ parties' = IF partyID[c] = None THEN With(parties, p, {c}) ELSE parties
          /\ instances' = With(instances, p, w)
          /\ info' = [info EXCEPT ![c] = [world |-> d, dungeon |-> w.dungeon]]
          /\ \E k \in Chunks : Spawn(c, <<p, k>>)
    BY <1>4 DEF EnterDungeon
  <2> DEFINE w == IF p \in DOMAIN instances THEN instances[p] ELSE NewInstance(d)
  <2>2. w.world = d /\ w.dungeon = d
    BY NewInstanceType, InstanceTypes DEF OneDungeon, Kept, Inv, TypeOK
  <2>3. /\ DOMAIN instances' = DOMAIN instances \union {p}
        /\ instances'[p] = w
        /\ \A q \in DOMAIN instances : instances'[q] = instances[q]
    BY <2>1 DEF With
  <2>4. /\ \A m \in Players \ {c} : info'[m] = info[m] /\ partyID'[m] = partyID[m]
        /\ info'[c].world = d /\ info'[c].dungeon = d /\ partyID'[c] = p
    BY <2>1, <2>2 DEF Kept, Inv, TypeOK
  \* A party that is made is of its player alone, who was in none.
  <2>5. \/ parties' = parties /\ p \in DOMAIN parties /\ c \in parties[p]
           /\ partyID[c] = p
        \/ /\ p \in SoloIDs /\ p \notin DOMAIN parties /\ ~InParty(c)
           /\ DOMAIN parties' = DOMAIN parties \union {p}
           /\ parties'[p] = {c}
           /\ \A q \in DOMAIN parties : parties'[q] = parties[q]
    BY <2>1 DEF Opener, With, Kept, PartyKnown
  <2>6. PICK k \in Chunks : Spawn(c, <<p, k>>)
    BY <2>1
  <2> HIDE DEF w
  <2>7. PartiesKept'
    <3>1. CASE parties' = parties
      BY <3>1 DEF Kept, PartiesKept
    <3>2. CASE /\ p \in SoloIDs /\ p \notin DOMAIN parties /\ ~InParty(c)
               /\ DOMAIN parties' = DOMAIN parties \union {p}
               /\ parties'[p] = {c}
               /\ \A q \in DOMAIN parties : parties'[q] = parties[q]
      <4>1. p \notin PartyIDs
        BY <3>2, DungeonAssumption
      <4>2. \A q \in DOMAIN parties : parties[q] \intersect {c} = {}
        BY <3>2 DEF InParty
      <4> QED
        BY <3>2, <4>1, <4>2 DEF Kept, PartiesKept
    <3> QED
      BY <2>5, <3>1, <3>2
  <2>8. PartyKnown'
    BY <1>2, <2>3, <2>4, <2>5 DEF Kept, PartyKnown, Inv, TypeOK
  <2>9. OneWorldEach'
    BY <2>2, <2>3 DEF Kept, OneWorldEach
  <2>10. InsideTheirs'
    BY <1>2, <2>3, <2>4 DEF Kept, InsideTheirs, Inv, TypeOK
  <2>11. MembersInside'
    <3>1. \A q \in DOMAIN Rosters : c \in Rosters[q] => q = p
      BY <2>5, <2>7 DEF PartiesKept
    <3> QED
      BY <1>2, <2>4, <3>1, DungeonAssumption DEF Kept, MembersInside
  <2>12. InstancesHold'
    BY <1>2, <2>3, <2>4, <2>5, <2>6 DEF Kept, InstancesHold, Inv, TypeOK, Spawn
  <2>13. NobodyInDestroyed'
    BY <1>2, <2>6, SpawnKept
  <2> QED
    BY <1>1, <2>7, <2>8, <2>9, <2>10, <2>11, <2>12, <2>13 DEF Kept
<1> QED
  BY <1>3, <1>4 DEF EnterDungeon

LEMMA ExitDungeonKept ==
    ASSUME OneDungeon, Kept, NEW c \in Players, ExitDungeon(c)
    PROVE  Kept'
<1> DEFINE p == ContextOf(c)
           w == instances[p]
           v == IF ~w.cleared /\ ~w.closed /\ c \in alive THEN Failed(w) ELSE w
<1>1. Inv'
  BY ExitDungeonInv DEF Kept
<1>2. c \in loaded /\ InInstance(c) /\ loaded' = loaded /\ spawned' = spawned \union {c}
  BY DEF ExitDungeon
<1>3. /\ p = partyID[c] /\ p \in IDs /\ p # None
      /\ p \in DOMAIN instances /\ w \in Instance
      /\ p \in DOMAIN parties /\ c \in parties[p]
      /\ info[c].world \in Dungeons /\ info[c].dungeon = info[c].world
      /\ w.world = info[c].world /\ w.dungeon = info[c].dungeon
  BY <1>2, ContextKnown
<1>4. Same(w, v)
  BY <1>3, FailedType DEF Same
<1>5. Town \notin Dungeons \union IDs
  BY DungeonAssumption DEF IDs
<1>6. PICK k \in Chunks :
         \/ /\ info' = [info EXCEPT ![c] = [world |-> Town, dungeon |-> None]]
            /\ chunk' = [chunk EXCEPT ![c] = <<Town, k>>]
            /\ \/ /\ Closes(w, p, c)
                  /\ instances' = Without(instances, p)
                  /\ standing' = Emptied(Left(c), p) \union {<<<<Town, k>>, c>>}
                  /\ parties' = IF p \in SoloIDs THEN Without(parties, p) ELSE parties
                  /\ partyID' = IF p \in SoloIDs THEN [partyID EXCEPT ![c] = None] ELSE partyID
               \/ /\ instances' = [instances EXCEPT ![p] = v]
                  /\ standing' = Left(c) \union {<<<<Town, k>>, c>>}
                  /\ UNCHANGED <<parties, partyID>>
         \/ /\ info' = [info EXCEPT ![c].dungeon = w.dungeon]
            /\ chunk' = [chunk EXCEPT ![c] = <<p, k>>]
            /\ standing' = Left(c) \union {<<<<p, k>>, c>>}
            /\ UNCHANGED <<instances, parties, partyID>>
  BY DEF ExitDungeon
<1> HIDE DEF p, w, v
<1>7. CASE /\ info' = [info EXCEPT ![c] = [world |-> Town, dungeon |-> None]]
           /\ chunk' = [chunk EXCEPT ![c] = <<Town, k>>]
           /\ Closes(w, p, c)
           /\ instances' = Without(instances, p)
           /\ standing' = Emptied(Left(c), p) \union {<<<<Town, k>>, c>>}
           /\ parties' = IF p \in SoloIDs THEN Without(parties, p) ELSE parties
           /\ partyID' = IF p \in SoloIDs THEN [partyID EXCEPT ![c] = None] ELSE partyID
  \* Nobody else stands in the context: a party of one has no other member, and
  \* the members of another were looked for.
  <2>1. ASSUME NEW m \in spawned \ {c}
        PROVE  chunk[m][1] # p
    <3>1. SUFFICES ASSUME chunk[m][1] = p
                   PROVE  FALSE
      OBVIOUS
    <3>2. m \in loaded /\ m \in parties[p] /\ info[m].world \in Dungeons
          /\ info[m].dungeon = info[m].world
      BY <1>3, <3>1 DEF Kept, InstancesHold, Inv, TypeOK
    <3>3. m \in Inside(w)
      BY <1>3, <3>2 DEF Inside, OneDungeon
    <3>4. p \notin SoloIDs
      BY <1>3, <3>2 DEF Kept, PartiesKept
    <3> QED
      BY <1>7, <3>2, <3>3, <3>4 DEF Closes
  <2>2. /\ DOMAIN instances' = DOMAIN instances \ {p}
        /\ \A q \in DOMAIN instances' : instances'[q] = instances[q]
    BY <1>7 DEF Without
  <2>3. /\ p \notin SoloIDs => parties' = parties /\ partyID' = partyID
        /\ p \in SoloIDs => /\ DOMAIN parties' = DOMAIN parties \ {p}
                            /\ \A q \in DOMAIN parties' : parties'[q] = parties[q]
                            /\ partyID'[c] = None
                            /\ \A m \in Players \ {c} : partyID'[m] = partyID[m]
    BY <1>7 DEF Without, Kept, Inv, TypeOK
  <2>4. /\ info'[c].world = Town
        /\ \A m \in Players \ {c} : info'[m] = info[m]
    BY <1>7 DEF Kept, Inv, TypeOK
  <2>5. p \in SoloIDs => parties[p] = {c}
    BY <1>3 DEF Kept, PartiesKept
  <2>6. PartiesKept'
    BY <2>3, DungeonAssumption DEF Kept, PartiesKept
  <2>7. PartyKnown'
    BY <1>2, <2>2, <2>3, <2>5 DEF Kept, PartyKnown
  <2>8. OneWorldEach'
    BY <2>2 DEF Kept, OneWorldEach
  \* Another member that is in the world of the dungeon would be inside.
  <2>9. ASSUME NEW m \in loaded \ {c}, partyID[m] = p, info[m].world \in Dungeons
        PROVE  FALSE
    <3>1. m \in parties[p] /\ info[m].dungeon = info[m].world
      BY <1>3, <2>9 DEF Kept, PartyKnown, InsideTheirs, Inv, TypeOK
    <3>2. m \in Inside(w)
      BY <1>3, <2>9, <3>1 DEF Inside, OneDungeon
    <3> QED
      BY <1>7, <2>5, <3>1, <3>2 DEF Closes
  <2>10. InsideTheirs'
    BY <1>2, <1>5, <2>2, <2>3, <2>4, <2>9 DEF Kept, InsideTheirs, Inv, TypeOK
  <2>11. MembersInside'
    BY <1>2, <1>5, <2>3, <2>4, <2>5, DungeonAssumption
       DEF Kept, PartiesKept, MembersInside, Inv, TypeOK
  <2>12. InstancesHold'
    BY <1>2, <1>5, <1>7, <2>1, <2>2, <2>3, <2>4 DEF Kept, InstancesHold, Inv, TypeOK
  <2>13. NobodyInDestroyed'
    BY <1>2, <1>7, <2>1 DEF Kept, NobodyInDestroyed, InItsChunk, Emptied, Left, Inv, TypeOK
  <2> QED
    BY <1>1, <2>6, <2>7, <2>8, <2>10, <2>11, <2>12, <2>13 DEF Kept
<1>8. CASE /\ info' = [info EXCEPT ![c] = [world |-> Town, dungeon |-> None]]
           /\ chunk' = [chunk EXCEPT ![c] = <<Town, k>>]
           /\ instances' = [instances EXCEPT ![p] = v]
           /\ standing' = Left(c) \union {<<<<Town, k>>, c>>}
           /\ UNCHANGED <<parties, partyID>>
  <2>1. OneWorldEach'
    BY <1>3, <1>4, <1>8 DEF Kept, OneWorldEach, Same
  <2>2. InsideTheirs' /\ MembersInside'
    BY <1>2, <1>5, <1>8 DEF Kept, InsideTheirs, MembersInside, Inv, TypeOK
  <2>3. InstancesHold'
    BY <1>2, <1>5, <1>8 DEF Kept, InstancesHold, Inv, TypeOK
  <2>4. NobodyInDestroyed'
    BY <1>2, <1>8 DEF Kept, NobodyInDestroyed, InItsChunk, Left, Inv, TypeOK
  <2>5. PartiesKept' /\ PartyKnown'
    BY <1>2, <1>8 DEF Kept, PartiesKept, PartyKnown
  <2> QED
    BY <1>1, <2>1, <2>2, <2>3, <2>4, <2>5 DEF Kept
<1>9. CASE /\ info' = [info EXCEPT ![c].dungeon = w.dungeon]
           /\ chunk' = [chunk EXCEPT ![c] = <<p, k>>]
           /\ standing' = Left(c) \union {<<<<p, k>>, c>>}
           /\ UNCHANGED <<instances, parties, partyID>>
  <2>1. info' = info
    BY <1>3, <1>9 DEF Kept, Inv, TypeOK, Where
  <2>2. InstancesHold'
    BY <1>2, <1>3, <1>9, <2>1 DEF Kept, InstancesHold, Inv, TypeOK
  <2>3. NobodyInDestroyed'
    BY <1>2, <1>9 DEF Kept, NobodyInDestroyed, InItsChunk, Left, Inv, TypeOK
  <2> QED
    BY <1>1, <1>2, <1>9, <2>1, <2>2, <2>3
       DEF Kept, PartiesKept, PartyKnown, OneWorldEach, InsideTheirs, MembersInside
<1> QED
  BY <1>6, <1>7, <1>8, <1>9

LEMMA CourseKept ==
    ASSUME OneDungeon, Kept, Course
    PROVE  Kept'
<1>1. Inv'
  BY StartDungeonInv, EndDungeonInv, PauseInv, ResumeInv, CompletePartInv, TickInv
     DEF Kept, Course
<1>2. ASSUME NEW c \in Players, InInstance(c)
      PROVE  ContextOf(c) \in DOMAIN instances /\ instances[ContextOf(c)] \in Instance
  BY <1>2, ContextOfType DEF Kept, InInstance
<1>3. UNCHANGED <<loaded, info, partyID, chunk, spawned, standing, parties>>
  BY DEF Course, StartDungeon, EndDungeon, Pause, Resume, CompletePart, Tick
\* One context changes, or all by a tick.
<1>4. \/ instances' = instances
      \/ \E p \in DOMAIN instances : \E w :
            Same(instances[p], w) /\ instances' = [instances EXCEPT ![p] = w]
      \/ instances' = [p \in DOMAIN instances |-> Ticked(instances[p])]
  <2>1. ASSUME NEW c \in Players, StartDungeon(c) \/ Pause(c) \/ Resume(c) \/ EndDungeon(c)
        PROVE  \/ instances' = instances
               \/ \E p \in DOMAIN instances : \E w :
                     Same(instances[p], w) /\ instances' = [instances EXCEPT ![p] = w]
    <3> DEFINE p == ContextOf(c)
    <3>1. p \in DOMAIN instances /\ instances[p] \in Instance
      BY <1>2, <2>1 DEF StartDungeon, Pause, Resume, EndDungeon
    <3>2. \/ instances' = instances
          \/ instances' = [instances EXCEPT ![p] = Started(instances[p])]
          \/ instances' = [instances EXCEPT ![p] = PausedNow(instances[p])]
          \/ instances' = [instances EXCEPT ![p] = Resumed(instances[p])]
          \/ instances' = [instances EXCEPT ![p] = Ended(instances[p])]
          \/ instances' = [instances EXCEPT ![p] = Failed(instances[p])]
      BY <2>1 DEF StartDungeon, Pause, Resume, EndDungeon
    <3> HIDE DEF p
    <3> QED
      BY <3>1, <3>2, StartedType, PausedNowType, ResumedType, EndedType, FailedType
  <2>2. ASSUME NEW p \in DOMAIN instances, CompletePart(p)
        PROVE  \E w : Same(instances[p], w) /\ instances' = [instances EXCEPT ![p] = w]
    <3>1. PICK bonus \in 0 .. MaxBonus :
             instances' = [instances EXCEPT ![p] = Advanced(instances[p], bonus)]
      BY <2>2 DEF CompletePart
    <3> QED
      BY <2>2, <3>1, AdvancedType DEF CompletePart, Kept, Inv, TypeOK
  <2> QED
    BY <2>1, <2>2 DEF Course, Tick
<1>5. /\ DOMAIN instances' = DOMAIN instances
      /\ \A p \in DOMAIN instances : Same(instances[p], instances'[p])
  <2>1. \A p \in DOMAIN instances : Same(instances[p], instances[p])
    BY DEF Kept, Inv, TypeOK, Same
  <2> QED
    BY <1>4, <2>1, TickedType DEF Kept, Inv, TypeOK
<1> QED
  BY <1>1, <1>3, <1>5, ContextsKept

\* Where the parties do not change and there is one dungeon, no player stands in
\* a context that was taken away: the exit of one member leaves the dungeon to the
\* others, however they came in, and whatever died, timed out or was disconnected.
THEOREM NobodyInDestroyedAlways ==
    ASSUME OneDungeon
    PROVE  Spec => []NobodyInDestroyed
<1>1. Init => Kept
  <2> SUFFICES ASSUME Init PROVE Kept
    OBVIOUS
  <2>1. Inv
    BY InitInv
  <2>2. PartiesKept
    BY DungeonAssumption DEF Init, PartiesKept
  <2>3. PartyKnown /\ InsideTheirs /\ OneWorldEach /\ InstancesHold /\ NobodyInDestroyed
    BY DEF Init, PartyKnown, InsideTheirs, OneWorldEach, InstancesHold, NobodyInDestroyed
  <2>4. MembersInside
    BY DungeonAssumption DEF Init, MembersInside
  <2> QED
    BY <2>1, <2>2, <2>3, <2>4 DEF Kept
<1>2. Kept /\ [Next]_vars => Kept'
  <2> SUFFICES ASSUME Kept, [Next]_vars
               PROVE  Kept'
    OBVIOUS
  <2>1. CASE ComingsAndGoings
    BY <2>1, OneDungeon, LoadKept, PartyServerAnswersKept, DisconnectKept, DeinitializeKept
       DEF ComingsAndGoings
  <2>2. CASE Warps
    BY <2>2, OneDungeon, MoveKept, LeaveKept, WarpByPatternKept, DieKept, ReviveKept,
       EnterDungeonKept, ExitDungeonKept DEF Warps
  <2>3. CASE Course
    BY <2>3, OneDungeon, CourseKept
  <2>4. CASE PartyChanges
    BY <2>4 DEF OneDungeon, PartyChanges, CreateParty, LeaveParty, DestroyParty
  <2>5. CASE UNCHANGED vars
    BY <2>5 DEF vars, Kept, Inv, TypeOK, NoGhosts, PartiesKept, PartyKnown, OneWorldEach,
                InsideTheirs, MembersInside, InstancesHold, NobodyInDestroyed, InItsChunk
  <2> QED
    BY <2>1, <2>2, <2>3, <2>4, <2>5 DEF Next
<1>3. Kept => NobodyInDestroyed
  BY DEF Kept
<1> QED
  BY <1>1, <1>2, <1>3, PTL DEF Spec

-----------------------------------------------------------------------------
(***************************************************************************)
(* The mobs of a dungeon stand where their movement says, and their deaths   *)
(* count once and for the part they happen in.  A context is good if its     *)
(* mobs are of its part's table or created by patterns, if its count has not *)
(* reached the part's goal while there is a next part, if no mob has another  *)
(* in its aggro than its foes, and if its chunks hold the mobs that are        *)
(* spawned.  Every step leads from a good context to  *)
(* a good one, and in one of three ways: nobody dies, one mob dies, or the   *)
(* dungeon is started.                                                       *)
(***************************************************************************)
MobMaps == UNION {[S -> Mob] : S \in SUBSET Mobs}

MobContexts == [mobs : MobMaps, standing : SUBSET (Areas \X Mobs), part : 0 .. Len(Tables), count : Nat]

\* No mobs before the dungeon is started; afterwards those of the part's table and
\* those that patterns create.
OfTable(x) ==
    IF x.part = 0 THEN DOMAIN x.mobs = {}
    ELSE DOMAIN x.mobs \subseteq ToSet(Tables[x.part]) \union Minions

\* A part that asks for deaths and has a next one is not yet complete.
Counted(x) ==
    x.part > 0 => /\ x.count <= Goal[x.part]
                  /\ x.part < Len(Tables) /\ Goal[x.part] > 0 => x.count < Goal[x.part]

\* First in a mob's aggro is a mob it is after, or one that is after it, or no mob.
Hunts(x) == \A m \in DOMAIN x.mobs : x.mobs[m].foe \in Foes(m) \union {Nowhere}

\* Who has WARP_TARGET has no mob in its aggro: it warps characters only.
PlayersOnly == \A m \in TargetWarpers : Foes(m) = {}

\* If so, the chunks hold mobs that are spawned, at their place, and all of them
\* unless a pattern has WARP_SELF.
Stood(x) ==
    /\ PlayersOnly =>
          \A a, m : <<a, m>> \in x.standing =>
                    m \in DOMAIN x.mobs /\ x.mobs[m].spawned /\ x.mobs[m].at = a
    /\ PlayersOnly /\ Warpers = {} =>
          \A m \in DOMAIN x.mobs : x.mobs[m].spawned => <<x.mobs[m].at, m>> \in x.standing

Good == {x \in MobContexts : OfTable(x) /\ Counted(x) /\ Hunts(x) /\ Stood(x)}

MobsInv ==
    /\ context \in Good
    /\ todo \subseteq DOMAIN context.mobs
    /\ state \in {"opened", "running", "paused", "over"}

\* The mob m, which was r, is s and has a foe it had or may have.
KnowsFoe(m, r, s) == s.foe \in {r.foe, Nowhere} \union Foes(m)

\* g are the mobs f after something was said to them: who is there, and where, is
\* the same.
Told(f, g) ==
    /\ g \in [DOMAIN f -> Mob]
    /\ \A m \in DOMAIN f : g[m].spawned = f[m].spawned /\ g[m].at = f[m].at /\ KnowsFoe(m, f[m], g[m])

\* Nobody dies from x to y, and the part goes on.
Lives(x, y) ==
    /\ y.part = x.part /\ y.count = x.count
    /\ DOMAIN x.mobs \subseteq DOMAIN y.mobs
    /\ \A m \in DOMAIN x.mobs : x.mobs[m].spawned => y.mobs[m].spawned

\* m dies from x to y: in the part, or with the death the part missed.
DiesInPart(x, y, m) ==
    /\ y.part = x.part
    /\ y.count = IF m \in Asked /\ x.count < Goal[x.part] THEN x.count + 1 ELSE x.count
    /\ DOMAIN y.mobs = DOMAIN x.mobs
    /\ ~y.mobs[m].spawned
    /\ \A l \in DOMAIN x.mobs \ {m} : y.mobs[l].spawned = x.mobs[l].spawned

EndsPart(x, y, m) ==
    /\ m \in Asked /\ x.count + 1 = Goal[x.part] /\ x.part < Len(Tables)
    /\ y.part = x.part + 1 /\ y.count = 0
    /\ DOMAIN y.mobs = ToSet(Tables[y.part])

MobDies(x, y, m) ==
    /\ m \in DOMAIN x.mobs /\ x.mobs[m].spawned
    /\ DiesInPart(x, y, m) \/ EndsPart(x, y, m)

-----------------------------------------------------------------------------
(* A mob *)

LEMMA MobMapsAre ==
    ASSUME NEW f
    PROVE  f \in MobMaps <=> f \in [DOMAIN f -> Mob] /\ DOMAIN f \subseteq Mobs
BY DEF MobMaps

LEMMA Delays ==
    /\ 0 \in 0 .. MaxDelay /\ 1 \in 0 .. MaxDelay /\ 0 .. MaxDelay \subseteq Timers /\ Never \in Timers
    /\ \A m \in Mobs : Interval[m] \in 0 .. MaxDelay
    /\ HitDelays \subseteq 0 .. MaxDelay
BY MobsAssumption DEF Timers, Never

\* What is said to a mob leaves it a mob, as spawned as it was and where it was.
LEMMA EventsFacts ==
    ASSUME NEW r \in Mob, NEW d \in 0 .. MaxDelay
    PROVE  /\ SpawnEvent(r, d) \in Mob /\ DespawnEvent(r, d) \in Mob /\ RespawnEvent(r, d) \in Mob
           /\ SpawnEvent(r, d).spawned = r.spawned /\ SpawnEvent(r, d).at = r.at
           /\ DespawnEvent(r, d).spawned = r.spawned /\ DespawnEvent(r, d).at = r.at
           /\ RespawnEvent(r, d).spawned = r.spawned /\ RespawnEvent(r, d).at = r.at
           /\ SpawnEvent(r, d).foe = r.foe /\ DespawnEvent(r, d).foe = r.foe
           /\ RespawnEvent(r, d).foe = r.foe
<1>1. 0 \in 0 .. MaxDelay /\ d \in Timers
  BY Delays
<1> QED
  BY <1>1 DEF Mob, SpawnEvent, DespawnEvent, RespawnEvent

LEMMA PermanentFacts ==
    ASSUME NEW r \in Mob
    PROVE  /\ [r EXCEPT !.permanent = TRUE] \in Mob
           /\ [r EXCEPT !.permanent = TRUE].spawned = r.spawned
           /\ [r EXCEPT !.permanent = TRUE].at = r.at
           /\ [r EXCEPT !.permanent = TRUE].foe = r.foe
BY DEF Mob

LEMMA ObeyedFacts ==
    ASSUME NEW r \in Mob, NEW o \in Orders
    PROVE  /\ Obeyed(r, o) \in Mob /\ Obeyed(r, o).spawned = r.spawned /\ Obeyed(r, o).at = r.at
           /\ Obeyed(r, o).foe = r.foe
<1>1. o.delay \in 0 .. MaxDelay /\ o.act \in Acts
  BY DEF Orders
<1>2. /\ o.act \in {"spawn", "revive", "kill", "delete", "soft_delete", "kill_by_link_mob"}
      /\ "spawn" # "revive" /\ "spawn" # "kill" /\ "spawn" # "delete" /\ "spawn" # "soft_delete"
  BY <1>1 DEF Acts
<1>3. PICK u, v : u = SpawnEvent(r, o.delay) /\ v = DespawnEvent(r, o.delay)
  OBVIOUS
<1>4. u \in Mob /\ v \in Mob /\ u.spawned = r.spawned /\ u.at = r.at /\ v.spawned = r.spawned /\ v.at = r.at
      /\ u.foe = r.foe /\ v.foe = r.foe
  BY <1>1, <1>3, EventsFacts
<1>5. /\ [v EXCEPT !.permanent = TRUE] \in Mob
      /\ [v EXCEPT !.permanent = TRUE].spawned = r.spawned /\ [v EXCEPT !.permanent = TRUE].at = r.at
      /\ [v EXCEPT !.permanent = TRUE].foe = r.foe /\ [r EXCEPT !.permanent = TRUE].foe = r.foe
      /\ [r EXCEPT !.permanent = TRUE] \in Mob
      /\ [r EXCEPT !.permanent = TRUE].spawned = r.spawned /\ [r EXCEPT !.permanent = TRUE].at = r.at
  BY <1>4, PermanentFacts
<1>6. Obeyed(r, o) \in {r, u, v, [v EXCEPT !.permanent = TRUE], [r EXCEPT !.permanent = TRUE]}
  BY <1>2, <1>3 DEF Obeyed
<1> QED
  BY <1>4, <1>5, <1>6

LEMMA ArisenFacts ==
    ASSUME NEW r \in Mob, NEW k \in Areas
    PROVE  Arisen(r, k) \in Mob /\ Arisen(r, k).spawned /\ Arisen(r, k).at = k /\ Arisen(r, k).foe = Nowhere
BY Delays DEF Mob, Arisen

LEMMA FreshFacts ==
    ASSUME NEW m \in Mobs
    PROVE  Fresh(m) \in Mob /\ ~Fresh(m).spawned /\ Fresh(m).at = Nowhere /\ Fresh(m).foe = Nowhere
<1>1. Count[m] \in Nat
  BY MobsAssumption
<1>2. (IF m \in Minions \/ Count[m] = 0 THEN 0 ELSE Count[m] - 1) \in Nat
  BY <1>1
<1> QED
  BY <1>2, Delays DEF Fresh, Mob

-----------------------------------------------------------------------------
(* Orders *)

LEMMA ObeyFacts ==
    ASSUME NEW f, NEW g, Told(f, g), NEW o \in Orders
    PROVE  Told(f, Obey(g, o))
<1>1. g \in [DOMAIN f -> Mob] /\ DOMAIN g = DOMAIN f
  BY DEF Told
<1>2. CASE o.mob \in DOMAIN g
  <2>1. PICK u : u = Obeyed(g[o.mob], o)
    OBVIOUS
  <2>2. g[o.mob] \in Mob
    BY <1>1, <1>2
  <2>3. u \in Mob /\ u.spawned = g[o.mob].spawned /\ u.at = g[o.mob].at /\ u.foe = g[o.mob].foe
    BY <2>1, <2>2, ObeyedFacts
  <2>4. Obey(g, o) = g \/ Obey(g, o) = [g EXCEPT ![o.mob] = u]
    BY <2>1 DEF Obey
  <2>5. Told(f, [g EXCEPT ![o.mob] = u])
    BY <1>1, <1>2, <2>3 DEF Told, KnowsFoe
  <2> QED
    BY <2>4, <2>5
<1>3. CASE o.mob \notin DOMAIN g
  BY <1>3 DEF Obey
<1> QED
  BY <1>2, <1>3

\* Whatever mobs are ordered, and however often, they stay where they are.
LEMMA ObeyAllFacts ==
    ASSUME NEW f, f \in [DOMAIN f -> Mob], NEW orders \in Seq(Orders)
    PROVE  Told(f, ObeyAll(f, orders))
<1> DEFINE N == Len(orders)
           X == {g \in [DOMAIN f -> Mob] : Told(f, g)}
           F == [z \in (1 .. N) \X X |-> Obey(z[2], orders[z[1]])]
<1>1. N \in Nat
  OBVIOUS
<1>2. f \in X
  BY DEF Told, KnowsFoe
<1>3. \A n \in 1 .. N, g \in X : Obey(g, orders[n]) \in X
  <2> SUFFICES ASSUME NEW n \in 1 .. N, NEW g \in X PROVE Obey(g, orders[n]) \in X
    OBVIOUS
  <2>1. orders[n] \in Orders /\ Told(f, g)
    OBVIOUS
  <2>2. Told(f, Obey(g, orders[n]))
    BY <2>1, ObeyFacts
  <2> QED
    BY <2>2 DEF Told
<1> HIDE DEF N
<1>4. F \in StepRules(N, X)
  <2> HIDE DEF X
  <2> QED
    BY <1>3 DEF StepRules
<1>5. PICK h : Follows(h, N, X, f, F)
  <2> HIDE DEF X, F
  <2> QED
    BY <1>1, <1>2, <1>4, StepsExist
<1>6. \A n \in 1 .. N : h[n] = Obey(h[n - 1], orders[n])
  <2> HIDE DEF X
  <2>1. \A n \in 1 .. N : n - 1 \in 0 .. N
    BY <1>1
  <2>2. h \in [0 .. N -> X] /\ \A n \in 1 .. N : h[n] = F[<<n, h[n - 1]>>]
    BY <1>5 DEF Follows
  <2> QED
    BY <2>1, <2>2
<1>7. h = [n \in 0 .. N |-> IF n = 0 THEN f ELSE Obey(h[n - 1], orders[n])]
  <2> HIDE DEF X, F
  <2> QED
    BY <1>1, <1>5, <1>6 DEF Follows
<1>8. PICK g : g = Obeying(f, orders)
  OBVIOUS
<1>9. g = [n \in 0 .. N |-> IF n = 0 THEN f ELSE Obey(g[n - 1], orders[n])]
  BY <1>7, <1>8, Zenon DEF Obeying, N
<1>10. N \in {n \in 0 .. N : g[n] \in X}
  <2> DEFINE T == {n \in 0 .. N : g[n] \in X}
  <2> HIDE DEF X
  <2>1. 0 \in T
    BY <1>1, <1>2, <1>9
  <2>2. \A n \in 1 .. N : n - 1 \in T => n \in T
    <3> SUFFICES ASSUME NEW n \in 1 .. N, g[n - 1] \in X PROVE g[n] \in X
      OBVIOUS
    <3>1. g[n] = Obey(g[n - 1], orders[n])
      BY <1>1, <1>9
    <3> QED
      BY <1>3, <3>1
  <2> HIDE DEF T
  <2>3. 0 .. N \subseteq T
    BY <1>1, <2>1, <2>2, StepByStep
  <2>4. N \in T
    BY <1>1, <2>3
  <2> QED
    BY <2>4 DEF T
<1>11. Told(f, g[N])
  BY <1>10
<1> QED
  BY <1>8, <1>11 DEF N, ObeyAll

-----------------------------------------------------------------------------
(* Changes of a context *)

LEMMA GoodFacts ==
    ASSUME NEW x \in Good
    PROVE  /\ x = [mobs |-> x.mobs, standing |-> x.standing, part |-> x.part, count |-> x.count]
           /\ x.mobs \in [DOMAIN x.mobs -> Mob] /\ DOMAIN x.mobs \subseteq Mobs
           /\ x.standing \in SUBSET (Areas \X Mobs)
           /\ x.part \in 0 .. Len(Tables) /\ x.count \in Nat
           /\ OfTable(x) /\ Counted(x) /\ Hunts(x) /\ Stood(x)
<1>1. x \in MobContexts
  BY DEF Good
<1>2. x.mobs \in MobMaps
  BY <1>1 DEF MobContexts
<1> QED
  BY <1>1, <1>2, MobMapsAre DEF Good, MobContexts

LEMMA GoodMade ==
    ASSUME NEW f, f \in [DOMAIN f -> Mob], DOMAIN f \subseteq Mobs, NEW S \in SUBSET (Areas \X Mobs),
           NEW p \in 0 .. Len(Tables), NEW c \in Nat, NEW x,
           x = [mobs |-> f, standing |-> S, part |-> p, count |-> c],
           OfTable(x), Counted(x), Hunts(x), Stood(x)
    PROVE  x \in Good
<1>1. f \in MobMaps
  BY MobMapsAre
<1> QED
  BY <1>1 DEF Good, MobContexts

\* A mob of a dungeon that was started: the part is one of the parts.
LEMMA PartOfMob ==
    ASSUME NEW x \in Good, NEW m \in DOMAIN x.mobs
    PROVE  x.part \in DOMAIN Tables /\ x.part > 0 /\ Goal[x.part] \in Nat /\ m \in Mobs
           /\ x.mobs[m] \in Mob
<1>1. x.part \in 0 .. Len(Tables) /\ OfTable(x) /\ DOMAIN x.mobs \subseteq Mobs
      /\ x.mobs \in [DOMAIN x.mobs -> Mob]
  BY GoodFacts
<1>2. x.part # 0
  BY <1>1 DEF OfTable
<1>3. Tables \in Seq(Seq(Mobs)) /\ Goal \in [DOMAIN Tables -> Nat]
  BY MobsAssumption
<1>4. x.part \in DOMAIN Tables
  BY <1>1, <1>2, <1>3
<1> QED
  BY <1>1, <1>2, <1>3, <1>4

LEMMA TalkedTo ==
    ASSUME NEW x \in Good, NEW g, Told(x.mobs, g)
    PROVE  [x EXCEPT !.mobs = g] \in Good /\ Lives(x, [x EXCEPT !.mobs = g])
<1>1. /\ x = [mobs |-> x.mobs, standing |-> x.standing, part |-> x.part, count |-> x.count]
      /\ DOMAIN x.mobs \subseteq Mobs /\ x.standing \in SUBSET (Areas \X Mobs)
      /\ x.part \in 0 .. Len(Tables) /\ x.count \in Nat
      /\ OfTable(x) /\ Counted(x) /\ Hunts(x) /\ Stood(x)
  BY GoodFacts
<1>2. g \in [DOMAIN x.mobs -> Mob] /\ DOMAIN g = DOMAIN x.mobs
  BY DEF Told
<1>3. PICK y : y = [x EXCEPT !.mobs = g]
  OBVIOUS
<1>4. y = [mobs |-> g, standing |-> x.standing, part |-> x.part, count |-> x.count]
  BY <1>1, <1>3
<1>5. OfTable(y) /\ Counted(y) /\ Stood(y)
  BY <1>1, <1>2, <1>4 DEF OfTable, Counted, Stood, Told
<1>8. Hunts(y)
  BY <1>1, <1>2, <1>4 DEF Hunts, Told, KnowsFoe
<1>6. y \in Good
  BY <1>1, <1>2, <1>4, <1>5, <1>8, GoodMade
<1>7. Lives(x, y)
  BY <1>2, <1>4 DEF Lives, Told
<1> QED
  BY <1>3, <1>6, <1>7

LEMMA MobsAndStanding ==
    ASSUME NEW x \in Good, NEW f, NEW S,
           NEW y, y = [x EXCEPT !.mobs = f, !.standing = S]
    PROVE  y = [mobs |-> f, standing |-> S, part |-> x.part, count |-> x.count]
<1>1. PICK M, T, p, c : x = [mobs |-> M, standing |-> T, part |-> p, count |-> c]
  BY GoodFacts
<1> QED
  BY <1>1

\* One mob changes its place, or comes, or goes.
LEMMA PlaceChanged ==
    ASSUME NEW x \in Good, NEW m \in DOMAIN x.mobs,
           NEW f \in [DOMAIN x.mobs -> Mob], NEW S \in SUBSET (Areas \X Mobs),
           \A l \in DOMAIN x.mobs \ {m} :
              f[l].spawned = x.mobs[l].spawned /\ f[l].at = x.mobs[l].at,
           \A l \in DOMAIN x.mobs : KnowsFoe(l, x.mobs[l], f[l]),
           \A a, l : l # m => (<<a, l>> \in S <=> <<a, l>> \in x.standing),
           PlayersOnly => \A a : <<a, m>> \in S => f[m].spawned /\ f[m].at = a,
           PlayersOnly /\ Warpers = {} /\ f[m].spawned => <<f[m].at, m>> \in S,
           NEW y, y = [mobs |-> f, standing |-> S, part |-> x.part, count |-> x.count]
    PROVE  y \in Good
<1>1. /\ x = [mobs |-> x.mobs, standing |-> x.standing, part |-> x.part, count |-> x.count]
      /\ DOMAIN x.mobs \subseteq Mobs /\ x.part \in 0 .. Len(Tables) /\ x.count \in Nat
      /\ OfTable(x) /\ Counted(x) /\ Hunts(x) /\ Stood(x)
  BY GoodFacts
<1>2. OfTable(y) /\ Counted(y)
  BY <1>1 DEF OfTable, Counted
<1>6. Hunts(y)
  BY <1>1 DEF Hunts, KnowsFoe
<1>3. ASSUME PlayersOnly
      PROVE  \A a, l : <<a, l>> \in S => l \in DOMAIN f /\ f[l].spawned /\ f[l].at = a
  <2> SUFFICES ASSUME NEW a, NEW l, <<a, l>> \in S PROVE l \in DOMAIN f /\ f[l].spawned /\ f[l].at = a
    OBVIOUS
  <2>1. CASE l = m
    BY <1>3, <2>1
  <2>2. CASE l # m
    <3>1. <<a, l>> \in x.standing
      BY <2>2
    <3>2. l \in DOMAIN x.mobs /\ x.mobs[l].spawned /\ x.mobs[l].at = a
      BY <1>1, <1>3, <3>1 DEF Stood
    <3> QED
      BY <2>2, <3>2
  <2> QED
    BY <2>1, <2>2
<1>4. ASSUME PlayersOnly, Warpers = {}, NEW l \in DOMAIN f, f[l].spawned PROVE <<f[l].at, l>> \in S
  <2>1. CASE l = m
    BY <1>4, <2>1
  <2>2. CASE l # m
    <3>1. <<x.mobs[l].at, l>> \in x.standing
      BY <1>1, <1>4, <2>2 DEF Stood
    <3> QED
      BY <2>2, <3>1
  <2> QED
    BY <2>1, <2>2
<1>5. Stood(y)
  BY <1>3, <1>4 DEF Stood
<1> QED
  BY <1>1, <1>2, <1>5, <1>6, GoodMade

LEMMA MobSpawnFacts ==
    ASSUME NEW x \in Good, NEW m \in DOMAIN x.mobs, NEW k \in Areas
    PROVE  /\ SpawnMob(x, m, k) \in Good /\ Lives(x, SpawnMob(x, m, k))
           /\ DOMAIN SpawnMob(x, m, k).mobs = DOMAIN x.mobs
<1>1. CASE x.mobs[m].spawned
  <2>1. SpawnMob(x, m, k) = x
    BY <1>1 DEF SpawnMob
  <2> QED
    BY <2>1 DEF Lives
<1>2. CASE ~x.mobs[m].spawned
  <2>1. /\ x.mobs \in [DOMAIN x.mobs -> Mob] /\ DOMAIN x.mobs \subseteq Mobs
        /\ x.standing \in SUBSET (Areas \X Mobs) /\ Stood(x)
        /\ x = [mobs |-> x.mobs, standing |-> x.standing, part |-> x.part, count |-> x.count]
    BY GoodFacts
  <2>2. PICK u : u = Arisen(x.mobs[m], k)
    OBVIOUS
  <2>3. u \in Mob /\ u.spawned /\ u.at = k /\ u.foe = Nowhere
    BY <2>1, <2>2, ArisenFacts
  <2>4. PICK f : f = [x.mobs EXCEPT ![m] = u]
    OBVIOUS
  <2>5. f \in [DOMAIN x.mobs -> Mob] /\ DOMAIN f = DOMAIN x.mobs /\ f[m] = u
        /\ \A l \in DOMAIN x.mobs \ {m} : f[l] = x.mobs[l]
    BY <2>1, <2>3, <2>4
  <2>6. PICK g : g = ObeyAll(f, OnSpawn[m])
    OBVIOUS
  <2>7. OnSpawn[m] \in Seq(Orders)
    BY <2>1, MobsAssumption
  <2>8. Told(f, g)
    BY <2>5, <2>6, <2>7, ObeyAllFacts
  <2>9. g \in [DOMAIN x.mobs -> Mob] /\ g[m].spawned /\ g[m].at = k
        /\ \A l \in DOMAIN x.mobs \ {m} : g[l].spawned = x.mobs[l].spawned /\ g[l].at = x.mobs[l].at
    BY <2>3, <2>5, <2>8 DEF Told
  <2>19. \A l \in DOMAIN x.mobs : KnowsFoe(l, x.mobs[l], g[l])
    BY <2>3, <2>5, <2>8 DEF Told, KnowsFoe
  <2>10. PICK S : S = x.standing \union {<<k, m>>}
    OBVIOUS
  <2>11. S \in SUBSET (Areas \X Mobs) /\ <<k, m>> \in S
    BY <2>1, <2>10
  <2>12. \A a, l : l # m => (<<a, l>> \in S <=> <<a, l>> \in x.standing)
    BY <2>10
  <2>13. PlayersOnly => \A a : <<a, m>> \in S => a = k
    <3>1. PlayersOnly => \A a : <<a, m>> \notin x.standing
      BY <1>2, <2>1 DEF Stood
    <3> QED
      BY <2>10, <3>1
  <2>14. SpawnMob(x, m, k) = [x EXCEPT !.mobs = g, !.standing = S]
    BY <1>2, <2>1, <2>2, <2>4, <2>6, <2>10 DEF SpawnMob
  <2>15. PICK y : y = [x EXCEPT !.mobs = g, !.standing = S]
    OBVIOUS
  <2>16. y = [mobs |-> g, standing |-> S, part |-> x.part, count |-> x.count]
    BY <2>15, MobsAndStanding
  <2>17. y \in Good
    BY <2>9, <2>11, <2>12, <2>13, <2>16, <2>19, PlaceChanged
  <2>18. Lives(x, y)
    BY <2>9, <2>16 DEF Lives
  <2> QED
    BY <2>9, <2>14, <2>15, <2>16, <2>17, <2>18
<1> QED
  BY <1>1, <1>2

\* The context of a part that has just begun.
Begun(part) == {x \in Good : x.part = part /\ x.count = 0 /\ DOMAIN x.mobs = ToSet(Tables[part])}

LEMMA TableFacts ==
    ASSUME NEW part \in DOMAIN Tables
    PROVE  /\ Tables[part] \in Seq(Mobs) /\ ToSet(Tables[part]) \subseteq Mobs
           /\ ToSet(Tables[part]) \intersect Minions = {}
           /\ part \in 0 .. Len(Tables) /\ part > 0 /\ Goal[part] \in Nat
           /\ \A n \in 1 .. Len(Tables[part]) : Tables[part][n] \in ToSet(Tables[part])
<1>1. Tables \in Seq(Seq(Mobs)) /\ Goal \in [DOMAIN Tables -> Nat]
      /\ \A k \in DOMAIN Tables : ToSet(Tables[k]) \intersect Minions = {}
  BY MobsAssumption
<1>2. Tables[part] \in Seq(Mobs) /\ part \in 1 .. Len(Tables)
  BY <1>1
<1>3. ToSet(Tables[part]) \subseteq Mobs
  BY <1>2 DEF ToSet
<1>4. \A n \in 1 .. Len(Tables[part]) : Tables[part][n] \in ToSet(Tables[part])
  BY <1>2 DEF ToSet
<1> QED
  BY <1>1, <1>2, <1>3, <1>4

LEMMA EmptyTableFacts ==
    ASSUME NEW part \in DOMAIN Tables
    PROVE  EmptyTable(part) \in Begun(part)
<1>1. /\ ToSet(Tables[part]) \subseteq Mobs
      /\ part \in 0 .. Len(Tables) /\ part > 0 /\ Goal[part] \in Nat
  BY TableFacts
<1>2. PICK f : f = [m \in ToSet(Tables[part]) |-> Fresh(m)]
  OBVIOUS
<1>3. f \in [DOMAIN f -> Mob] /\ DOMAIN f = ToSet(Tables[part]) /\ \A m \in DOMAIN f : ~f[m].spawned /\ f[m].foe = Nowhere
  BY <1>1, <1>2, FreshFacts
<1>4. PICK x : x = EmptyTable(part)
  OBVIOUS
<1>5. x = [mobs |-> f, standing |-> {}, part |-> part, count |-> 0]
  BY <1>2, <1>4 DEF EmptyTable
<1>6. OfTable(x) /\ Counted(x) /\ Hunts(x) /\ Stood(x)
  BY <1>1, <1>3, <1>5 DEF OfTable, Counted, Hunts, Stood
<1>7. x \in Good
  <2>1. {} \in SUBSET (Areas \X Mobs) /\ 0 \in Nat
    OBVIOUS
  <2> QED
    BY <1>1, <1>3, <1>5, <1>6, <2>1, GoodMade
<1> QED
  BY <1>3, <1>4, <1>5, <1>7 DEF Begun

\* Whichever mobs arrive with a table, and whatever their coming triggers.
LEMMA SetMobTableFacts ==
    ASSUME NEW part \in DOMAIN Tables, NEW at \in Somewhere
    PROVE  SetMobTable(part, at) \in Begun(part)
<1> DEFINE N == Len(Tables[part])
           X == Begun(part)
           a == EmptyTable(part)
           F == [z \in (1 .. N) \X X |-> Arriving(z[2], Tables[part][z[1]], at)]
<1>1. N \in Nat
  BY TableFacts
<1>2. a \in X
  BY EmptyTableFacts
<1>3. \A n \in 1 .. N, x \in X : Arriving(x, Tables[part][n], at) \in X
  <2> SUFFICES ASSUME NEW n \in 1 .. N, NEW x \in X PROVE Arriving(x, Tables[part][n], at) \in X
    OBVIOUS
  <2>1. PICK m : m = Tables[part][n]
    OBVIOUS
  <2>2. x \in Good /\ m \in DOMAIN x.mobs /\ m \in Mobs
    BY <2>1, TableFacts DEF Begun
  <2>3. CASE m \in Default
    <3>1. at[m] \in Areas
      BY <2>3 DEF Somewhere
    <3>2. PICK y : y = SpawnMob(x, m, at[m])
      OBVIOUS
    <3>3. y \in Good /\ Lives(x, y) /\ DOMAIN y.mobs = DOMAIN x.mobs
      BY <2>2, <3>1, <3>2, MobSpawnFacts
    <3>4. y \in X
      BY <3>3 DEF Begun, Lives
    <3> QED
      BY <2>1, <2>3, <3>2, <3>4 DEF Arriving
  <2>4. CASE m \notin Default
    BY <2>1, <2>4 DEF Arriving
  <2> QED
    BY <2>3, <2>4
<1> HIDE DEF N, X, a
<1>4. F \in StepRules(N, X)
  BY <1>3 DEF StepRules
<1>5. PICK h : Follows(h, N, X, a, F)
  <2> HIDE DEF F
  <2> QED
    BY <1>1, <1>2, <1>4, StepsExist
<1>6. \A n \in 1 .. N : h[n] = Arriving(h[n - 1], Tables[part][n], at)
  <2>1. \A n \in 1 .. N : n - 1 \in 0 .. N
    BY <1>1
  <2>2. h \in [0 .. N -> X] /\ \A n \in 1 .. N : h[n] = F[<<n, h[n - 1]>>]
    BY <1>5 DEF Follows
  <2> QED
    BY <2>1, <2>2
<1>7. h = [n \in 0 .. N |-> IF n = 0 THEN a ELSE Arriving(h[n - 1], Tables[part][n], at)]
  <2> HIDE DEF F
  <2> QED
    BY <1>1, <1>5, <1>6 DEF Follows
<1>8. PICK g : g = Arrivals(part, at)
  OBVIOUS
<1>9. g = [n \in 0 .. N |-> IF n = 0 THEN a ELSE Arriving(g[n - 1], Tables[part][n], at)]
  BY <1>7, <1>8, Zenon DEF Arrivals, N, a
<1>10. N \in {n \in 0 .. N : g[n] \in X}
  <2> DEFINE T == {n \in 0 .. N : g[n] \in X}
  <2>1. 0 \in T
    BY <1>1, <1>2, <1>9
  <2>2. \A n \in 1 .. N : n - 1 \in T => n \in T
    <3> SUFFICES ASSUME NEW n \in 1 .. N, g[n - 1] \in X PROVE g[n] \in X
      OBVIOUS
    <3>1. g[n] = Arriving(g[n - 1], Tables[part][n], at)
      BY <1>1, <1>9
    <3> QED
      BY <1>3, <3>1
  <2> HIDE DEF T
  <2>3. 0 .. N \subseteq T
    BY <1>1, <2>1, <2>2, StepByStep
  <2>4. N \in T
    BY <1>1, <2>3
  <2> QED
    BY <2>4 DEF T
<1>11. g[N] \in X
  BY <1>10
<1> QED
  BY <1>8, <1>11 DEF N, X, SetMobTable

-----------------------------------------------------------------------------
(* Deaths *)

\* What a death counts for, and which part it leads to.
LEMMA CountDeathFacts ==
    ASSUME NEW x \in Good, x.part \in DOMAIN Tables, NEW m, NEW at \in Somewhere
    PROVE  /\ CountDeath(x, m, at) \in Good
           /\ \/ /\ CountDeath(x, m, at).part = x.part /\ CountDeath(x, m, at).mobs = x.mobs
                 /\ CountDeath(x, m, at).count =
                       IF m \in Asked /\ x.count < Goal[x.part] THEN x.count + 1 ELSE x.count
              \/ EndsPart(x, CountDeath(x, m, at), m)
<1>1. /\ x = [mobs |-> x.mobs, standing |-> x.standing, part |-> x.part, count |-> x.count]
      /\ x.mobs \in [DOMAIN x.mobs -> Mob] /\ DOMAIN x.mobs \subseteq Mobs
      /\ x.standing \in SUBSET (Areas \X Mobs) /\ x.count \in Nat
      /\ OfTable(x) /\ Counted(x) /\ Hunts(x) /\ Stood(x)
  BY GoodFacts
<1>2. /\ x.part \in 0 .. Len(Tables) /\ x.part > 0 /\ Goal[x.part] \in Nat /\ Len(Tables) \in Nat
      /\ x.count <= Goal[x.part]
      /\ x.part < Len(Tables) /\ Goal[x.part] > 0 => x.count < Goal[x.part]
  <2>1. Tables \in Seq(Seq(Mobs))
    BY MobsAssumption
  <2>2. x.part \in 0 .. Len(Tables) /\ x.part > 0 /\ Goal[x.part] \in Nat
    BY TableFacts
  <2> QED
    BY <1>1, <2>1, <2>2 DEF Counted
<1>3. PICK c : c = IF m \in Asked /\ x.count < Goal[x.part] THEN x.count + 1 ELSE x.count
  OBVIOUS
<1>4. c \in Nat /\ c <= Goal[x.part]
  BY <1>1, <1>2, <1>3
<1>5. PICK y : y = [mobs |-> x.mobs, standing |-> x.standing, part |-> x.part, count |-> c]
  OBVIOUS
<1>6. y = IF m \in Asked /\ x.count < Goal[x.part] THEN [x EXCEPT !.count = @ + 1] ELSE x
  BY <1>1, <1>3, <1>5
<1>7. CountDeath(x, m, at) = IF Goal[x.part] > 0 THEN StartNextPatternPart(y, at) ELSE y
  BY <1>6 DEF CountDeath
<1>8. StartNextPatternPart(y, at) =
        IF c >= Goal[x.part] /\ x.part < Len(Tables) THEN SetMobTable(x.part + 1, at) ELSE y
  BY <1>2, <1>5 DEF StartNextPatternPart, IsPatternPartCompleted
<1>9. CASE Goal[x.part] > 0 /\ c >= Goal[x.part] /\ x.part < Len(Tables)
  <2>1. PICK z : z = SetMobTable(x.part + 1, at)
    OBVIOUS
  <2>2. x.part + 1 \in DOMAIN Tables
    <3>1. Tables \in Seq(Seq(Mobs))
      BY MobsAssumption
    <3> QED
      BY <1>2, <1>9, <3>1
  <2>3. z \in Good /\ z.part = x.part + 1 /\ z.count = 0 /\ DOMAIN z.mobs = ToSet(Tables[x.part + 1])
    BY <2>1, <2>2, SetMobTableFacts DEF Begun
  <2>4. m \in Asked /\ x.count + 1 = Goal[x.part]
    BY <1>1, <1>2, <1>3, <1>9
  <2>5. EndsPart(x, z, m)
    BY <1>9, <2>3, <2>4 DEF EndsPart
  <2> QED
    BY <1>7, <1>8, <1>9, <2>1, <2>3, <2>5
<1>10. CASE ~(Goal[x.part] > 0 /\ c >= Goal[x.part] /\ x.part < Len(Tables))
  <2>1. CountDeath(x, m, at) = y
    BY <1>7, <1>8, <1>10
  <2>2. OfTable(y) /\ Hunts(y) /\ Stood(y)
    BY <1>1, <1>5 DEF OfTable, Hunts, Stood
  <2>3. Counted(y)
    BY <1>2, <1>4, <1>5, <1>10 DEF Counted
  <2>4. y \in Good
    BY <1>1, <1>2, <1>4, <1>5, <2>2, <2>3, GoodMade
  <2> QED
    BY <1>3, <1>5, <2>1, <2>4
<1> QED
  BY <1>9, <1>10

LEMMA DespawnFacts ==
    ASSUME NEW x \in Good, NEW m \in DOMAIN x.mobs, NEW at \in Somewhere
    PROVE  /\ Despawn(x, m, at) \in Good
           /\ ~x.mobs[m].spawned => Despawn(x, m, at) = x
           /\ x.mobs[m].spawned => MobDies(x, Despawn(x, m, at), m)
<1>1. /\ x = [mobs |-> x.mobs, standing |-> x.standing, part |-> x.part, count |-> x.count]
      /\ x.mobs \in [DOMAIN x.mobs -> Mob] /\ DOMAIN x.mobs \subseteq Mobs
      /\ x.standing \in SUBSET (Areas \X Mobs) /\ Stood(x)
  BY GoodFacts
<1>2. x.part \in DOMAIN Tables /\ m \in Mobs
  BY PartOfMob
<1>3. CASE ~x.mobs[m].spawned
  <2>1. Despawn(x, m, at) = x
    BY <1>3 DEF Despawn
  <2> QED
    BY <1>3, <2>1
<1>4. CASE x.mobs[m].spawned
  <2>1. PICK linked : linked =
           [l \in DOMAIN x.mobs |->
                     IF x.mobs[m].pattern /\ l \in x.mobs[m].links /\ Alive(x.mobs[l])
                     THEN DespawnEvent(x.mobs[l], 0) ELSE x.mobs[l]]
    OBVIOUS
  <2>2. linked \in [DOMAIN x.mobs -> Mob]
        /\ \A l \in DOMAIN x.mobs :
              /\ linked[l].spawned = x.mobs[l].spawned /\ linked[l].at = x.mobs[l].at
              /\ linked[l].foe = x.mobs[l].foe
    BY <1>1, <2>1, Delays, EventsFacts
  <2>3. PICK u : u = [linked[m] EXCEPT !.spawned = FALSE, !.dead = TRUE, !.links = {}]
    OBVIOUS
  <2>4. u \in Mob /\ ~u.spawned /\ u.foe = linked[m].foe
    <3>1. linked[m] \in Mob
      BY <2>2
    <3> QED
      BY <2>3, <3>1 DEF Mob
  <2>5. PICK gone : gone = [linked EXCEPT ![m] = u]
    OBVIOUS
  <2>6. /\ gone \in [DOMAIN x.mobs -> Mob] /\ DOMAIN gone = DOMAIN x.mobs /\ ~gone[m].spawned
        /\ \A l \in DOMAIN x.mobs \ {m} :
              gone[l].spawned = x.mobs[l].spawned /\ gone[l].at = x.mobs[l].at
        /\ \A l \in DOMAIN x.mobs : gone[l].foe = x.mobs[l].foe
    BY <2>2, <2>4, <2>5
  <2>7. PICK g : g = ObeyAll(gone, OnKill[m])
    OBVIOUS
  <2>8. Told(gone, g)
    <3>1. OnKill[m] \in Seq(Orders)
      BY <1>2, MobsAssumption
    <3> QED
      BY <2>6, <2>7, <3>1, ObeyAllFacts
  <2>9. /\ g \in [DOMAIN x.mobs -> Mob] /\ ~g[m].spawned
        /\ \A l \in DOMAIN x.mobs \ {m} : g[l].spawned = x.mobs[l].spawned /\ g[l].at = x.mobs[l].at
    BY <2>6, <2>8 DEF Told
  <2>21. \A l \in DOMAIN x.mobs : KnowsFoe(l, x.mobs[l], g[l])
    BY <2>6, <2>8 DEF Told, KnowsFoe
  <2>10. PICK S : S = x.standing \ {<<x.mobs[m].at, m>>}
    OBVIOUS
  <2>11. S \in SUBSET (Areas \X Mobs)
    BY <1>1, <2>10
  <2>12. \A a, l : l # m => (<<a, l>> \in S <=> <<a, l>> \in x.standing)
    BY <2>10
  <2>13. PlayersOnly => \A a : <<a, m>> \notin S
    BY <1>1, <2>10 DEF Stood
  <2>14. PICK y : y = [x EXCEPT !.mobs = g, !.standing = S]
    OBVIOUS
  <2>15. y = [mobs |-> g, standing |-> S, part |-> x.part, count |-> x.count]
    BY <2>14, MobsAndStanding
  <2>16. y \in Good /\ y.mobs = g /\ y.part = x.part /\ y.count = x.count
    BY <2>9, <2>11, <2>12, <2>13, <2>15, <2>21, PlaceChanged
  <2>17. Despawn(x, m, at) = CountDeath(y, m, at)
    <3>1. gone = [linked EXCEPT ![m] = [@ EXCEPT !.spawned = FALSE, !.dead = TRUE, !.links = {}]]
      BY <2>2, <2>3, <2>5
    <3> QED
      BY <1>4, <2>1, <2>7, <2>10, <2>14, <3>1 DEF Despawn
  <2>18. PICK z : z = CountDeath(y, m, at)
    OBVIOUS
  <2>19. /\ z \in Good
         /\ \/ /\ z.part = y.part /\ z.mobs = y.mobs
               /\ z.count = IF m \in Asked /\ y.count < Goal[y.part] THEN y.count + 1 ELSE y.count
            \/ EndsPart(y, z, m)
    BY <1>2, <2>16, <2>18, CountDeathFacts
  <2>20. DiesInPart(x, z, m) \/ EndsPart(x, z, m)
    <3>1. CASE EndsPart(y, z, m)
      BY <2>16, <3>1 DEF EndsPart
    <3>2. CASE ~EndsPart(y, z, m)
      BY <2>9, <2>16, <2>19, <3>2 DEF DiesInPart
    <3> QED
      BY <3>1, <3>2
  <2> QED
    BY <1>4, <2>17, <2>18, <2>19, <2>20 DEF MobDies
<1> QED
  BY <1>3, <1>4

-----------------------------------------------------------------------------
(* What an update does to one mob *)

\* Nobody dies from x to y, or one mob does.
Goes(x, y) == Lives(x, y) \/ \E m \in Mobs : MobDies(x, y, m)

LEMMA LivesOn ==
    ASSUME NEW x, NEW y, NEW z, Lives(x, y), Lives(y, z)
    PROVE  Lives(x, z)
BY DEF Lives

LEMMA OneTold ==
    ASSUME NEW x \in Good, NEW m \in DOMAIN x.mobs, NEW r \in Mob,
           r.spawned = x.mobs[m].spawned, r.at = x.mobs[m].at, KnowsFoe(m, x.mobs[m], r),
           NEW g, g = [x.mobs EXCEPT ![m] = r],
           NEW y, y = [x EXCEPT !.mobs = g]
    PROVE  y \in Good /\ Lives(x, y) /\ Told(x.mobs, g) /\ y.mobs = g
<1>1. x.mobs \in [DOMAIN x.mobs -> Mob]
      /\ x = [mobs |-> x.mobs, standing |-> x.standing, part |-> x.part, count |-> x.count]
  BY GoodFacts
<1>2. Told(x.mobs, g)
  BY <1>1 DEF Told, KnowsFoe
<1>3. y \in Good /\ Lives(x, y)
  BY <1>2, TalkedTo
<1>4. y.mobs = g
  BY <1>1
<1> QED
  BY <1>2, <1>3, <1>4

\* The chunks once mob m has come into chunk k, wherever it was.
WithIn(x, m, k) == (x.standing \ {<<x.mobs[m].at, m>>}) \union {<<k, m>>}

LEMMA PutInChunk ==
    ASSUME NEW x \in Good, NEW m \in DOMAIN x.mobs, NEW k \in Areas,
           NEW f \in [DOMAIN x.mobs -> Mob], f[m].spawned, f[m].at = k, KnowsFoe(m, x.mobs[m], f[m]),
           \A l \in DOMAIN x.mobs \ {m} : f[l] = x.mobs[l],
           NEW S, S = WithIn(x, m, k),
           NEW y, y = [mobs |-> f, standing |-> S, part |-> x.part, count |-> x.count]
    PROVE  y \in Good /\ Lives(x, y) /\ DOMAIN y.mobs = DOMAIN x.mobs
<1>1. /\ x = [mobs |-> x.mobs, standing |-> x.standing, part |-> x.part, count |-> x.count]
      /\ x.mobs \in [DOMAIN x.mobs -> Mob] /\ DOMAIN x.mobs \subseteq Mobs
      /\ x.standing \in SUBSET (Areas \X Mobs) /\ Stood(x)
  BY GoodFacts
<1>2. /\ S \in SUBSET (Areas \X Mobs) /\ <<k, m>> \in S
      /\ \A a, l : l # m => (<<a, l>> \in S <=> <<a, l>> \in x.standing)
  BY <1>1 DEF WithIn
<1>3. PlayersOnly => \A a : <<a, m>> \in S => a = k
  BY <1>1 DEF Stood, WithIn
<1>4. \A l \in DOMAIN x.mobs \ {m} : f[l].spawned = x.mobs[l].spawned /\ f[l].at = x.mobs[l].at
  OBVIOUS
<1>6. \A l \in DOMAIN x.mobs : KnowsFoe(l, x.mobs[l], f[l])
  BY DEF KnowsFoe
<1>5. y \in Good
  BY <1>2, <1>3, <1>4, <1>6, PlaceChanged
<1> QED
  BY <1>1, <1>5 DEF Lives

LEMMA MovedFacts ==
    ASSUME NEW x \in Good, NEW m \in DOMAIN x.mobs, NEW k \in Areas
    PROVE  /\ Moved(x, m, k) \in Good /\ Lives(x, Moved(x, m, k))
           /\ DOMAIN Moved(x, m, k).mobs = DOMAIN x.mobs
<1>1. CASE Alive(x.mobs[m])
  <2>1. x.mobs[m] \in Mob /\ x.mobs[m].spawned
    BY <1>1, PartOfMob DEF Alive
  <2>2. PICK r : r = [x.mobs[m] EXCEPT !.at = k]
    OBVIOUS
  <2>3. r \in Mob /\ r.spawned /\ r.at = k /\ KnowsFoe(m, x.mobs[m], r)
    BY <2>1, <2>2 DEF Mob, KnowsFoe
  <2>4. PICK y : y = Moved(x, m, k)
    OBVIOUS
  <2>5. PICK f, S : /\ f = [x.mobs EXCEPT ![m] = r]
                    /\ S = WithIn(x, m, k)
    OBVIOUS
  <2>6. y = [mobs |-> f, standing |-> S, part |-> x.part, count |-> x.count]
    <3>1. y = [x EXCEPT !.mobs = f, !.standing = S]
      BY <1>1, <2>2, <2>4, <2>5 DEF Moved, WithIn
    <3> QED
      BY <3>1, MobsAndStanding
  <2>7. f \in [DOMAIN x.mobs -> Mob] /\ f[m].spawned /\ f[m].at = k /\ KnowsFoe(m, x.mobs[m], f[m])
        /\ \A l \in DOMAIN x.mobs \ {m} : f[l] = x.mobs[l]
    BY <2>3, <2>5, GoodFacts
  <2>8. y \in Good /\ Lives(x, y) /\ DOMAIN y.mobs = DOMAIN x.mobs
    BY <2>5, <2>6, <2>7, PutInChunk
  <2> QED
    BY <2>4, <2>8
<1>2. CASE ~Alive(x.mobs[m])
  BY <1>2 DEF Moved, Lives
<1> QED
  BY <1>1, <1>2

LEMMA RespawnFacts ==
    ASSUME NEW x \in Good, NEW m \in DOMAIN x.mobs, NEW k \in Areas
    PROVE  /\ Respawn(x, m, k) \in Good /\ Lives(x, Respawn(x, m, k))
           /\ DOMAIN Respawn(x, m, k).mobs = DOMAIN x.mobs
<1>1. x.mobs[m] \in Mob
  BY PartOfMob
<1>2. PICK u : u = Arisen(x.mobs[m], k)
  OBVIOUS
<1>3. u \in Mob /\ u.spawned /\ u.at = k /\ u.foe = Nowhere
  BY <1>1, <1>2, ArisenFacts
<1>4. PICK r : r = [u EXCEPT !.pattern = FALSE, !.links = {}]
  OBVIOUS
<1>5. r \in Mob /\ r.spawned /\ r.at = k /\ KnowsFoe(m, x.mobs[m], r)
  BY <1>3, <1>4 DEF Mob, KnowsFoe
<1>6. PICK y : y = Respawn(x, m, k)
  OBVIOUS
<1>7. PICK f, S : /\ f = [x.mobs EXCEPT ![m] = r]
                  /\ S = WithIn(x, m, k)
  OBVIOUS
<1>8. y = [mobs |-> f, standing |-> S, part |-> x.part, count |-> x.count]
  <2>1. y = [x EXCEPT !.mobs = f, !.standing = S]
    BY <1>2, <1>4, <1>6, <1>7 DEF Respawn, WithIn
  <2> QED
    BY <2>1, MobsAndStanding
<1>9. f \in [DOMAIN x.mobs -> Mob] /\ f[m].spawned /\ f[m].at = k /\ KnowsFoe(m, x.mobs[m], f[m])
      /\ \A l \in DOMAIN x.mobs \ {m} : f[l] = x.mobs[l]
  BY <1>5, <1>7, GoodFacts
<1>10. y \in Good /\ Lives(x, y) /\ DOMAIN y.mobs = DOMAIN x.mobs
  BY <1>7, <1>8, <1>9, PutInChunk
<1> QED
  BY <1>6, <1>10

LEMMA CreatedFacts ==
    ASSUME NEW x \in Good, NEW m \in DOMAIN x.mobs, NEW y \in Created(x, m)
    PROVE  y \in Good /\ Lives(x, y)
<1>1. /\ x = [mobs |-> x.mobs, standing |-> x.standing, part |-> x.part, count |-> x.count]
      /\ x.mobs \in [DOMAIN x.mobs -> Mob] /\ DOMAIN x.mobs \subseteq Mobs
      /\ x.standing \in SUBSET (Areas \X Mobs) /\ x.part \in 0 .. Len(Tables) /\ x.count \in Nat
      /\ OfTable(x) /\ Counted(x) /\ Hunts(x) /\ Stood(x)
  BY GoodFacts
<1>2. PICK n \in Minions \ DOMAIN x.mobs :
         y = [x EXCEPT !.mobs = [l \in DOMAIN x.mobs \union {n} |->
                            IF l = n THEN SpawnEvent(Fresh(n), 0)
                            ELSE IF l = m THEN [x.mobs[m] EXCEPT !.links = @ \union {n}]
                            ELSE x.mobs[l]]]
  BY DEF Created
<1>3. n \in Mobs
  BY DEF Mobs
<1>4. PICK u : u = SpawnEvent(Fresh(n), 0)
  OBVIOUS
<1>5. u \in Mob /\ ~u.spawned /\ u.foe = Nowhere
  <2>1. PICK v : v = Fresh(n)
    OBVIOUS
  <2>2. v \in Mob /\ ~v.spawned /\ v.foe = Nowhere
    BY <1>3, <2>1, FreshFacts
  <2>3. 0 \in 0 .. MaxDelay /\ u = SpawnEvent(v, 0)
    BY <1>4, <2>1, Delays
  <2> QED
    BY <2>2, <2>3, EventsFacts
<1>6. PICK r : r = [x.mobs[m] EXCEPT !.links = @ \union {n}]
  OBVIOUS
<1>7. r \in Mob /\ r.spawned = x.mobs[m].spawned /\ r.at = x.mobs[m].at /\ r.foe = x.mobs[m].foe
  BY <1>1, <1>3, <1>6 DEF Mob
<1>8. PICK f : f = [l \in DOMAIN x.mobs \union {n} |-> IF l = n THEN u ELSE IF l = m THEN r ELSE x.mobs[l]]
  OBVIOUS
<1>9. /\ f \in [DOMAIN f -> Mob] /\ DOMAIN f = DOMAIN x.mobs \union {n} /\ DOMAIN f \subseteq Mobs
      /\ ~f[n].spawned /\ f[n].foe = Nowhere
      /\ \A l \in DOMAIN x.mobs :
            f[l].spawned = x.mobs[l].spawned /\ f[l].at = x.mobs[l].at /\ f[l].foe = x.mobs[l].foe
  BY <1>1, <1>2, <1>3, <1>5, <1>7, <1>8
<1>10. y = [mobs |-> f, standing |-> x.standing, part |-> x.part, count |-> x.count]
  BY <1>1, <1>2, <1>4, <1>6, <1>8
<1>11. OfTable(y)
  <2>1. x.part # 0
    BY <1>1 DEF OfTable
  <2> QED
    BY <1>1, <1>9, <1>10, <2>1 DEF OfTable
<1>12. Counted(y)
  BY <1>1, <1>10 DEF Counted
<1>13. Stood(y)
  BY <1>1, <1>9, <1>10 DEF Stood
<1>16. Hunts(y)
  BY <1>1, <1>9, <1>10 DEF Hunts
<1>14. y \in Good
  BY <1>1, <1>9, <1>10, <1>11, <1>12, <1>13, <1>16, GoodMade
<1>15. Lives(x, y)
  BY <1>9, <1>10 DEF Lives
<1> QED
  BY <1>14, <1>15

\* Mobs that are told to go are there until they do.
LEMMA SomeDismissed ==
    ASSUME NEW f, f \in [DOMAIN f -> Mob], NEW S,
           NEW g, g = [l \in DOMAIN f |-> IF l \in S THEN DespawnEvent(f[l], 1) ELSE f[l]]
    PROVE  Told(f, g)
<1>1. ASSUME NEW l \in DOMAIN f
      PROVE  g[l] \in Mob /\ g[l].spawned = f[l].spawned /\ g[l].at = f[l].at /\ KnowsFoe(l, f[l], g[l])
  <2>1. PICK r, u : r = f[l] /\ u = DespawnEvent(f[l], 1)
    OBVIOUS
  <2>2. r \in Mob /\ 1 \in 0 .. MaxDelay
    BY <2>1, Delays
  <2>3. u \in Mob /\ u.spawned = r.spawned /\ u.at = r.at /\ u.foe = r.foe
    BY <2>1, <2>2, EventsFacts
  <2>4. g[l] = u \/ g[l] = r
    BY <2>1
  <2>5. g[l] \in Mob /\ g[l].spawned = r.spawned /\ g[l].at = r.at /\ g[l].foe = r.foe
    BY <2>2, <2>3, <2>4
  <2> QED
    BY <2>1, <2>5 DEF KnowsFoe
<1>2. g \in [DOMAIN f -> Mob]
  BY <1>1
<1> QED
  BY <1>1, <1>2 DEF Told

LEMMA LinksDismissedFacts ==
    ASSUME NEW x \in Good, NEW m \in DOMAIN x.mobs
    PROVE  LinksDismissed(x, m) \in Good /\ Lives(x, LinksDismissed(x, m))
<1>1. x.mobs \in [DOMAIN x.mobs -> Mob]
  BY GoodFacts
<1>2. PICK g : g = [l \in DOMAIN x.mobs |-> IF l \in x.mobs[m].links THEN DespawnEvent(x.mobs[l], 1)
                                            ELSE x.mobs[l]]
  OBVIOUS
<1>3. Told(x.mobs, g)
  BY <1>1, <1>2, SomeDismissed
<1>4. LinksDismissed(x, m) = [x EXCEPT !.mobs = g]
  BY <1>2 DEF LinksDismissed
<1> QED
  BY <1>3, <1>4, TalkedTo

LEMMA WarpedSelfFacts ==
    ASSUME NEW x \in Good, NEW m \in DOMAIN x.mobs, NEW k \in Areas, m \in Warpers
    PROVE  WarpedSelf(x, m, k) \in Good /\ Lives(x, WarpedSelf(x, m, k))
<1>1. /\ x = [mobs |-> x.mobs, standing |-> x.standing, part |-> x.part, count |-> x.count]
      /\ x.mobs \in [DOMAIN x.mobs -> Mob] /\ x.standing \in SUBSET (Areas \X Mobs) /\ Stood(x)
  BY GoodFacts
<1>2. PICK r : r = [x.mobs[m] EXCEPT !.at = k]
  OBVIOUS
<1>3. r \in Mob /\ r.spawned = x.mobs[m].spawned /\ r.foe = x.mobs[m].foe
  BY <1>1, <1>2 DEF Mob
<1>4. PICK f : f = [x.mobs EXCEPT ![m] = r]
  OBVIOUS
<1>5. f \in [DOMAIN x.mobs -> Mob] /\ f[m] = r /\ \A l \in DOMAIN x.mobs \ {m} : f[l] = x.mobs[l]
  BY <1>1, <1>3, <1>4
<1>6. PICK S : S = x.standing \ {<<x.mobs[m].at, m>>}
  OBVIOUS
<1>7. /\ S \in SUBSET (Areas \X Mobs)
      /\ \A a, l : l # m => (<<a, l>> \in S <=> <<a, l>> \in x.standing)
  BY <1>1, <1>6
<1>8. PlayersOnly => \A a : <<a, m>> \notin S
  BY <1>1, <1>6 DEF Stood
<1>9. PICK y : y = [x EXCEPT !.mobs = f, !.standing = S]
  OBVIOUS
<1>10. y = [mobs |-> f, standing |-> S, part |-> x.part, count |-> x.count]
  BY <1>9, MobsAndStanding
<1>14. \A l \in DOMAIN x.mobs : KnowsFoe(l, x.mobs[l], f[l])
  BY <1>3, <1>5 DEF KnowsFoe
<1>11. y \in Good
  BY <1>5, <1>7, <1>8, <1>10, <1>14, PlaceChanged
<1>12. Lives(x, y)
  BY <1>1, <1>3, <1>5, <1>10 DEF Lives
<1>13. WarpedSelf(x, m, k) = y
  BY <1>2, <1>4, <1>6, <1>9 DEF WarpedSelf
<1> QED
  BY <1>11, <1>12, <1>13

\* Who warps a mob has it in its aggro, so that not only players are warped.
LEMMA WarpedTargetFacts ==
    ASSUME NEW x \in Good, NEW m \in DOMAIN x.mobs, m \in TargetWarpers, NEW k \in Areas,
           NEW t \in DOMAIN x.mobs, t = x.mobs[m].foe
    PROVE  WarpedTarget(x, t, k) \in Good /\ Lives(x, WarpedTarget(x, t, k))
<1>1. /\ x = [mobs |-> x.mobs, standing |-> x.standing, part |-> x.part, count |-> x.count]
      /\ x.mobs \in [DOMAIN x.mobs -> Mob] /\ DOMAIN x.mobs \subseteq Mobs
      /\ x.standing \in SUBSET (Areas \X Mobs) /\ Hunts(x)
  BY GoodFacts
<1>2. ~PlayersOnly
  <2>1. t # Nowhere
    BY <1>1, MobsAssumption
  <2>2. t \in Foes(m)
    BY <1>1, <2>1 DEF Hunts
  <2> QED
    BY <2>2 DEF PlayersOnly
<1>3. PICK r : r = [x.mobs[t] EXCEPT !.at = k]
  OBVIOUS
<1>4. r \in Mob /\ r.spawned = x.mobs[t].spawned /\ r.foe = x.mobs[t].foe
  BY <1>1, <1>3 DEF Mob
<1>5. PICK f : f = [x.mobs EXCEPT ![t] = r]
  OBVIOUS
<1>6. f \in [DOMAIN x.mobs -> Mob] /\ f[t] = r /\ \A l \in DOMAIN x.mobs \ {t} : f[l] = x.mobs[l]
  BY <1>1, <1>4, <1>5
<1>7. PICK S : S = (x.standing \ {<<x.mobs[t].at, t>>}) \union {<<k, t>>}
  OBVIOUS
<1>8. /\ S \in SUBSET (Areas \X Mobs)
      /\ \A a, l : l # t => (<<a, l>> \in S <=> <<a, l>> \in x.standing)
  BY <1>1, <1>7
<1>9. \A l \in DOMAIN x.mobs : KnowsFoe(l, x.mobs[l], f[l])
  BY <1>4, <1>6 DEF KnowsFoe
<1>10. PICK y : y = [x EXCEPT !.mobs = f, !.standing = S]
  OBVIOUS
<1>11. y = [mobs |-> f, standing |-> S, part |-> x.part, count |-> x.count]
  BY <1>10, MobsAndStanding
<1>12. y \in Good
  BY <1>2, <1>6, <1>8, <1>9, <1>11, PlaceChanged
<1>13. Lives(x, y)
  BY <1>1, <1>4, <1>6, <1>11 DEF Lives
<1>14. WarpedTarget(x, t, k) = y
  BY <1>3, <1>5, <1>7, <1>10 DEF WarpedTarget
<1> QED
  BY <1>12, <1>13, <1>14

LEMMA PatternActionsFacts ==
    ASSUME NEW x \in Good, NEW m \in DOMAIN x.mobs, NEW k \in Areas, NEW y \in PatternActions(x, m, k)
    PROVE  y \in Good /\ Lives(x, y)
<1>1. x.mobs \in [DOMAIN x.mobs -> Mob]
  BY GoodFacts
<1>2. CASE y \in Created(x, m)
  BY <1>2, CreatedFacts
<1>3. CASE y = LinksDismissed(x, m)
  BY <1>3, LinksDismissedFacts
<1>4. CASE y = [x EXCEPT !.mobs[m] = RespawnEvent(@, 1)]
  <2>1. PICK r : r = RespawnEvent(x.mobs[m], 1)
    OBVIOUS
  <2>2. r \in Mob /\ r.spawned = x.mobs[m].spawned /\ r.at = x.mobs[m].at /\ KnowsFoe(m, x.mobs[m], r)
    BY <1>1, <2>1, Delays, EventsFacts DEF KnowsFoe
  <2>3. PICK g : g = [x.mobs EXCEPT ![m] = r]
    OBVIOUS
  <2>4. y = [x EXCEPT !.mobs = g]
    BY <1>4, <2>1, <2>3
  <2> QED
    BY <2>2, <2>3, <2>4, OneTold
<1>5. ASSUME NEW l \in DOMAIN x.mobs, y = [x EXCEPT !.mobs[l] = DespawnEvent(@, 1)]
      PROVE  y \in Good /\ Lives(x, y)
  <2>1. PICK r : r = DespawnEvent(x.mobs[l], 1)
    OBVIOUS
  <2>2. r \in Mob /\ r.spawned = x.mobs[l].spawned /\ r.at = x.mobs[l].at /\ KnowsFoe(l, x.mobs[l], r)
    BY <1>1, <2>1, Delays, EventsFacts DEF KnowsFoe
  <2>3. PICK g : g = [x.mobs EXCEPT ![l] = r]
    OBVIOUS
  <2>4. y = [x EXCEPT !.mobs = g]
    BY <1>5, <2>1, <2>3
  <2> QED
    BY <2>2, <2>3, <2>4, OneTold
<1>6. CASE m \in Warpers /\ y = WarpedSelf(x, m, k)
  BY <1>6, WarpedSelfFacts
<1>7. \/ y \in Created(x, m) \/ y = LinksDismissed(x, m)
      \/ y = [x EXCEPT !.mobs[m] = RespawnEvent(@, 1)]
      \/ \E l \in DOMAIN x.mobs : y = [x EXCEPT !.mobs[l] = DespawnEvent(@, 1)]
      \/ m \in Warpers /\ y = WarpedSelf(x, m, k)
      \/ m \in TargetWarpers /\ \E t \in DOMAIN x.mobs : t = x.mobs[m].foe /\ y = WarpedTarget(x, t, k)
  BY Zenon DEF PatternActions
<1>8. CASE m \in TargetWarpers /\ \E t \in DOMAIN x.mobs : t = x.mobs[m].foe /\ y = WarpedTarget(x, t, k)
  BY <1>8, WarpedTargetFacts
<1> QED
  BY <1>2, <1>3, <1>4, <1>5, <1>6, <1>7, <1>8

\* The aggro after the pattern, and the other mob that is attacked.
LEMMA AlertFacts ==
    ASSUME NEW x \in Good, NEW m \in DOMAIN x.mobs, NEW y \in Alert(x, m)
    PROVE  y \in Good /\ Lives(x, y)
<1>1. x.mobs[m] \in Mob /\ m \in Mobs /\ DOMAIN x.mobs \subseteq Mobs
  BY PartOfMob, GoodFacts
<1>2. CASE y = x
  BY <1>2 DEF Lives
<1>3. ASSUME NEW f \in Prey(x, m) \union {Nowhere}, y = [x EXCEPT !.mobs[m].foe = f]
      PROVE  y \in Good /\ Lives(x, y)
  <2>1. f \in Mobs \union {Nowhere} /\ f \in Foes(m) \union {Nowhere}
    BY <1>1 DEF Prey
  <2>2. PICK r : r = [x.mobs[m] EXCEPT !.foe = f]
    OBVIOUS
  <2>3. r \in Mob /\ r.spawned = x.mobs[m].spawned /\ r.at = x.mobs[m].at /\ r.foe = f
    BY <1>1, <2>1, <2>2 DEF Mob
  <2>4. KnowsFoe(m, x.mobs[m], r)
    BY <2>1, <2>3 DEF KnowsFoe
  <2>5. PICK g : g = [x.mobs EXCEPT ![m] = r]
    OBVIOUS
  <2>6. y = [x EXCEPT !.mobs = g]
    BY <1>3, <2>2, <2>5
  <2> QED
    BY <2>3, <2>4, <2>5, <2>6, OneTold
<1> QED
  BY <1>2, <1>3 DEF Alert

LEMMA WoundedFacts ==
    ASSUME NEW r \in Mob, NEW m \in Mobs, NEW v \in Wounded(r, m)
    PROVE  v \in Mob /\ v.spawned = r.spawned /\ v.at = r.at /\ v.foe \in {r.foe, m}
<1>1. ASSUME NEW u \in Angered(r, m)
      PROVE  u \in Mob /\ u.spawned = r.spawned /\ u.at = r.at /\ u.foe \in {r.foe, m}
  <2>1. u = r \/ u = [r EXCEPT !.foe = m]
    BY DEF Angered
  <2> QED
    BY <2>1 DEF Mob
<1>2. ASSUME NEW u \in Angered(r, m), NEW delay \in HitDelays, v = DespawnEvent([u EXCEPT !.hp = FALSE], delay)
      PROVE  v \in Mob /\ v.spawned = r.spawned /\ v.at = r.at /\ v.foe \in {r.foe, m}
  <2>1. PICK w : w = [u EXCEPT !.hp = FALSE]
    OBVIOUS
  <2>2. w \in Mob /\ w.spawned = u.spawned /\ w.at = u.at /\ w.foe = u.foe
    BY <1>1, <2>1 DEF Mob
  <2>3. delay \in 0 .. MaxDelay
    BY Delays
  <2>4. PICK d : d = DespawnEvent(w, delay)
    OBVIOUS
  <2>5. d \in Mob /\ d.spawned = w.spawned /\ d.at = w.at /\ d.foe = w.foe
    BY <2>2, <2>3, <2>4, EventsFacts
  <2> QED
    BY <1>1, <1>2, <2>1, <2>2, <2>4, <2>5
<1>3. v \in Angered(r, m) \/ \E u \in Angered(r, m), delay \in HitDelays :
                                 v = DespawnEvent([u EXCEPT !.hp = FALSE], delay)
  BY DEF Wounded
<1> QED
  BY <1>1, <1>2, <1>3

LEMMA AttacksFacts ==
    ASSUME NEW x \in Good, NEW m \in DOMAIN x.mobs, NEW y \in Attacks(x, m)
    PROVE  y \in Good /\ Lives(x, y)
<1>1. m \in Mobs
  BY PartOfMob
<1>2. CASE y = x
  BY <1>2 DEF Lives
<1>3. ASSUME NEW f \in Prey(x, m), NEW r \in Wounded(x.mobs[f], m), y = [x EXCEPT !.mobs[f] = r]
      PROVE  y \in Good /\ Lives(x, y)
  <2>1. f \in DOMAIN x.mobs /\ f \in Foes(m)
    BY DEF Prey
  <2>2. x.mobs[f] \in Mob /\ f \in Mobs
    BY <2>1, PartOfMob
  <2>3. r \in Mob /\ r.spawned = x.mobs[f].spawned /\ r.at = x.mobs[f].at /\ r.foe \in {x.mobs[f].foe, m}
    BY <1>1, <2>2, WoundedFacts
  <2>4. m \in Foes(f)
    BY <1>1, <2>1, <2>2 DEF Foes
  <2>5. KnowsFoe(f, x.mobs[f], r)
    BY <2>3, <2>4 DEF KnowsFoe
  <2>6. PICK g : g = [x.mobs EXCEPT ![f] = r]
    OBVIOUS
  <2>7. y = [x EXCEPT !.mobs = g]
    BY <1>3, <2>6
  <2> QED
    BY <2>1, <2>3, <2>5, <2>6, <2>7, OneTold
<1>4. y = x \/ \E f \in Prey(x, m) : \E r \in Wounded(x.mobs[f], m) : y = [x EXCEPT !.mobs[f] = r]
  BY Zenon DEF Attacks
<1> QED
  BY <1>2, <1>3, <1>4

-----------------------------------------------------------------------------
(* Steps *)

LEMMA WaitsGoes ==
    ASSUME context \in Good, NEW m \in DOMAIN context.mobs, UpdateWaits(m)
    PROVE  context' \in Good /\ Lives(context, context')
<1>1. PICK k \in Areas : context' = Moved(context, m, k)
  BY DEF UpdateWaits
<1> QED
  BY <1>1, MovedFacts

LEMMA SpawnsGoes ==
    ASSUME context \in Good, NEW m \in DOMAIN context.mobs, UpdateSpawns(m)
    PROVE  context' \in Good /\ Lives(context, context')
<1>1. PICK k \in Areas :
         context' = SpawnMob([context EXCEPT !.mobs[m].toSpawn = Never], m, k)
  BY DEF UpdateSpawns
<1>2. context.mobs[m] \in Mob
  BY PartOfMob
<1>3. PICK r : r = [context.mobs[m] EXCEPT !.toSpawn = Never]
  OBVIOUS
<1>4. r \in Mob /\ r.spawned = context.mobs[m].spawned /\ r.at = context.mobs[m].at
      /\ KnowsFoe(m, context.mobs[m], r)
  BY <1>2, <1>3, Delays DEF Mob, KnowsFoe
<1>5. PICK g : g = [context.mobs EXCEPT ![m] = r]
  OBVIOUS
<1>6. PICK x : x = [context EXCEPT !.mobs = g]
  OBVIOUS
<1>7. x \in Good /\ Lives(context, x) /\ Told(context.mobs, g) /\ x.mobs = g
  BY <1>4, <1>5, <1>6, OneTold
<1>8. [context EXCEPT !.mobs[m].toSpawn = Never] = x
  BY <1>3, <1>5, <1>6
<1>9. m \in DOMAIN x.mobs
  BY <1>7 DEF Told
<1>10. context' \in Good /\ Lives(x, context')
  BY <1>1, <1>7, <1>8, <1>9, MobSpawnFacts
<1> QED
  BY <1>7, <1>10, LivesOn

\* A mob that is to die is told so first; the death is that of the mob it was.
LEMMA ToldThenDespawned ==
    ASSUME context \in Good, NEW m \in DOMAIN context.mobs, NEW at \in Somewhere,
           NEW x \in Good, Lives(context, x), Told(context.mobs, x.mobs),
           NEW y, y = Despawn(x, m, at)
    PROVE  y \in Good /\ Goes(context, y)
<1>1. m \in DOMAIN x.mobs /\ DOMAIN x.mobs = DOMAIN context.mobs
      /\ \A l \in DOMAIN x.mobs : x.mobs[l].spawned = context.mobs[l].spawned
  BY DEF Told
<1>2. /\ y \in Good
      /\ ~x.mobs[m].spawned => y = x
      /\ x.mobs[m].spawned => MobDies(x, y, m)
  BY <1>1, DespawnFacts
<1>3. CASE ~x.mobs[m].spawned
  BY <1>2, <1>3 DEF Goes
<1>4. CASE x.mobs[m].spawned
  <2>1. x.part = context.part /\ x.count = context.count
    BY DEF Lives
  <2>2. MobDies(context, y, m)
    <3>1. CASE DiesInPart(x, y, m)
      BY <1>1, <1>4, <2>1, <3>1 DEF MobDies, DiesInPart
    <3>2. CASE EndsPart(x, y, m)
      BY <1>1, <1>4, <2>1, <3>2 DEF MobDies, EndsPart
    <3> QED
      BY <1>2, <1>4, <3>1, <3>2 DEF MobDies
  <2>3. m \in Mobs
    BY PartOfMob
  <2> QED
    BY <1>2, <2>2, <2>3 DEF Goes
<1> QED
  BY <1>3, <1>4

LEMMA DespawnsGoes ==
    ASSUME context \in Good, NEW m \in DOMAIN context.mobs, UpdateDespawns(m)
    PROVE  context' \in Good /\ Goes(context, context')
<1>1. context.mobs[m] \in Mob /\ m \in Mobs
  BY PartOfMob
<1>2. PICK n : n = IF context.mobs[m].spawned THEN Interval[m] ELSE 0
  OBVIOUS
<1>3. n \in 0 .. MaxDelay
  BY <1>1, <1>2, Delays
<1>4. PICK at \in Somewhere :
         context' = Despawn([context EXCEPT !.mobs[m].toDespawn = Never, !.mobs[m].next = n], m, at)
  BY <1>2 DEF UpdateDespawns
<1>5. PICK r : r = [context.mobs[m] EXCEPT !.toDespawn = Never, !.next = n]
  OBVIOUS
<1>6. r \in Mob /\ r.spawned = context.mobs[m].spawned /\ r.at = context.mobs[m].at
      /\ KnowsFoe(m, context.mobs[m], r)
  BY <1>1, <1>3, <1>5, Delays DEF Mob, KnowsFoe
<1>7. PICK g : g = [context.mobs EXCEPT ![m] = r]
  OBVIOUS
<1>8. PICK x : x = [context EXCEPT !.mobs = g]
  OBVIOUS
<1>9. [context EXCEPT !.mobs[m].toDespawn = Never, !.mobs[m].next = n] = x
  BY <1>5, <1>7, <1>8, GoodFacts
<1>10. x \in Good /\ Lives(context, x) /\ Told(context.mobs, x.mobs)
  BY <1>6, <1>7, <1>8, OneTold
<1> QED
  BY <1>4, <1>9, <1>10, ToldThenDespawned

LEMMA ReturnsGoes ==
    ASSUME context \in Good, NEW m \in DOMAIN context.mobs, UpdateReturns(m)
    PROVE  context' \in Good /\ Lives(context, context')
<1> DEFINE r == context.mobs[m]
<1>1. r \in Mob /\ m \in Mobs /\ Interval[m] \in 0 .. MaxDelay
  BY PartOfMob, Delays
<1>2. PICK c : c = IF r.left > 0 THEN r.left - 1 ELSE 0
  OBVIOUS
<1>3. c \in Nat
  BY <1>1, <1>2 DEF Mob
<1>4. PICK u, v : u = [r EXCEPT !.toRespawn = Never, !.foe = Nowhere, !.left = c] /\ v = [r EXCEPT !.toRespawn = Never]
  OBVIOUS
<1>5. u \in Mob /\ u.spawned = r.spawned /\ u.at = r.at /\ v \in Mob /\ v.spawned = r.spawned /\ v.at = r.at
      /\ u.foe = Nowhere /\ v.foe = r.foe
  BY <1>1, <1>3, <1>4, Delays DEF Mob
<1>6. PICK w : w = IF CanRespawn(m, r) THEN SpawnEvent(u, Interval[m]) ELSE v
  OBVIOUS
<1>7. w \in Mob /\ w.spawned = r.spawned /\ w.at = r.at /\ KnowsFoe(m, r, w)
  BY <1>1, <1>5, <1>6, EventsFacts DEF KnowsFoe
<1>8. PICK g : g = [context.mobs EXCEPT ![m] = w]
  OBVIOUS
<1>9. context' = [context EXCEPT !.mobs = g]
  BY <1>2, <1>4, <1>6, <1>8 DEF UpdateReturns
<1> QED
  BY <1>7, <1>8, <1>9, OneTold

LEMMA LivesGoes ==
    ASSUME context \in Good, NEW m \in DOMAIN context.mobs, UpdateLives(m)
    PROVE  context' \in Good /\ Lives(context, context')
<1> DEFINE Came(k) == IF context.mobs[m].toRespawn = 0 THEN Respawn(context, m, k) ELSE Moved(context, m, k)
<1>0. PICK k \in Areas, wait \in {0, 1} :
         \E y \in {Came(k)} \union (IF Came(k).mobs[m].pattern THEN PatternActions(Came(k), m, k) ELSE {}) :
            \E z \in Alert(y, m) : \E w \in Attacks(z, m) : context' = [w EXCEPT !.mobs[m].next = wait]
  BY Zenon DEF UpdateLives
<1>1. PICK x, y, z, w :
         /\ x = Came(k)
         /\ y = x \/ y \in PatternActions(x, m, k)
         /\ z \in Alert(y, m) /\ w \in Attacks(z, m)
         /\ context' = [w EXCEPT !.mobs[m].next = wait]
  <2> HIDE DEF Came
  <2>1. PICK y \in {Came(k)} \union (IF Came(k).mobs[m].pattern THEN PatternActions(Came(k), m, k) ELSE {}) :
            \E z \in Alert(y, m) : \E w \in Attacks(z, m) : context' = [w EXCEPT !.mobs[m].next = wait]
    BY <1>0, Zenon
  <2>2. PICK z \in Alert(y, m) : \E w \in Attacks(z, m) : context' = [w EXCEPT !.mobs[m].next = wait]
    BY <2>1
  <2>3. PICK w \in Attacks(z, m) : context' = [w EXCEPT !.mobs[m].next = wait]
    BY <2>2
  <2>4. y = Came(k) \/ y \in PatternActions(Came(k), m, k)
    BY <2>1
  <2> QED
    BY <2>3, <2>4, Zenon
<1>2. x \in Good /\ Lives(context, x) /\ DOMAIN x.mobs = DOMAIN context.mobs
  BY <1>1, RespawnFacts, MovedFacts
<1>3. y \in Good /\ Lives(x, y)
  <2>1. CASE y = x
    BY <1>2, <2>1 DEF Lives
  <2>2. CASE y \in PatternActions(x, m, k)
    BY <1>2, <2>2, PatternActionsFacts
  <2> QED
    BY <1>1, <2>1, <2>2
<1>4. m \in DOMAIN y.mobs
  BY <1>2, <1>3 DEF Lives
<1>5. z \in Good /\ Lives(y, z)
  BY <1>1, <1>3, <1>4, AlertFacts
<1>6. m \in DOMAIN z.mobs
  BY <1>4, <1>5 DEF Lives
<1>7. w \in Good /\ Lives(z, w)
  BY <1>1, <1>5, <1>6, AttacksFacts
<1>8. m \in DOMAIN w.mobs
  BY <1>6, <1>7 DEF Lives
<1>9. w.mobs[m] \in Mob /\ wait \in 0 .. MaxDelay
  BY <1>1, <1>7, <1>8, PartOfMob, Delays
<1>10. PICK r : r = [w.mobs[m] EXCEPT !.next = wait]
  OBVIOUS
<1>11. r \in Mob /\ r.spawned = w.mobs[m].spawned /\ r.at = w.mobs[m].at /\ KnowsFoe(m, w.mobs[m], r)
  BY <1>9, <1>10 DEF Mob, KnowsFoe
<1>12. PICK g : g = [w.mobs EXCEPT ![m] = r]
  OBVIOUS
<1>13. context' = [w EXCEPT !.mobs = g]
  BY <1>1, <1>10, <1>12
<1>14. context' \in Good /\ Lives(w, context')
  BY <1>7, <1>8, <1>11, <1>12, <1>13, OneTold
<1> QED
  BY <1>2, <1>3, <1>5, <1>7, <1>14, LivesOn

LEMMA TickGoes ==
    ASSUME context \in Good, MobsTick
    PROVE  context' \in Good /\ Lives(context, context') /\ DOMAIN context'.mobs = DOMAIN context.mobs
<1>1. context.mobs \in [DOMAIN context.mobs -> Mob]
      /\ context = [mobs |-> context.mobs, standing |-> context.standing, part |-> context.part,
                    count |-> context.count]
  BY GoodFacts
<1>2. PICK g : g = [m \in DOMAIN context.mobs |->
          [context.mobs[m] EXCEPT !.next = Elapsed(context.mobs[m].next),
                                  !.toSpawn = Elapsed(context.mobs[m].toSpawn),
                                  !.toDespawn = Elapsed(context.mobs[m].toDespawn),
                                  !.toRespawn = Elapsed(context.mobs[m].toRespawn)]]
  OBVIOUS
<1>3. /\ \A t \in Timers : Elapsed(t) \in Timers
      /\ \A n \in 0 .. MaxDelay : Elapsed(n) \in 0 .. MaxDelay
  BY MobsAssumption DEF Timers, Never, Elapsed
<1>4. ASSUME NEW r \in Mob
      PROVE  LET q == [r EXCEPT !.next = Elapsed(r.next), !.toSpawn = Elapsed(r.toSpawn),
                                !.toDespawn = Elapsed(r.toDespawn), !.toRespawn = Elapsed(r.toRespawn)]
             IN  q \in Mob /\ q.spawned = r.spawned /\ q.at = r.at /\ q.foe = r.foe
  BY <1>3 DEF Mob
<1>5. Told(context.mobs, g)
  BY <1>1, <1>2, <1>4 DEF Told, KnowsFoe
<1>6. context' = [context EXCEPT !.mobs = g]
  BY <1>2 DEF MobsTick
<1>7. context' \in Good /\ Lives(context, context')
  BY <1>5, <1>6, TalkedTo
<1>8. DOMAIN context'.mobs = DOMAIN context.mobs
  BY <1>1, <1>2, <1>6
<1> QED
  BY <1>7, <1>8

LEMMA StartGoes ==
    ASSUME context \in Good, Start
    PROVE  context' \in Good /\ state \in {"opened", "over"} /\ state' = "running"
<1>0. PICK at \in Somewhere : \E x :
         /\ x = StartNextPatternPart([context EXCEPT !.part = 0], at)
         /\ context' = [x EXCEPT !.mobs = [m \in DOMAIN x.mobs |->
                          IF m \in StartKill THEN DespawnEvent(x.mobs[m], 1) ELSE x.mobs[m]]]
  BY DEF Start
<1>1. PICK x :
         /\ x = StartNextPatternPart([context EXCEPT !.part = 0], at)
         /\ context' = [x EXCEPT !.mobs = [m \in DOMAIN x.mobs |->
                          IF m \in StartKill THEN DespawnEvent(x.mobs[m], 1) ELSE x.mobs[m]]]
  BY <1>0
<1>2. Tables \in Seq(Seq(Mobs)) /\ Len(Tables) > 0
  BY MobsAssumption
<1>3. 1 \in DOMAIN Tables
  BY <1>2
<1>4. [context EXCEPT !.part = 0].part = 0
  BY GoodFacts
<1>5. x = SetMobTable(1, at)
  <2>1. PICK y : y = [context EXCEPT !.part = 0]
    OBVIOUS
  <2>2. y.part = 0
    BY <1>4, <2>1
  <2>3. IsPatternPartCompleted(y) /\ y.part < Len(Tables) /\ y.part + 1 = 1
    BY <1>2, <2>2 DEF IsPatternPartCompleted
  <2> QED
    BY <1>1, <2>1, <2>3 DEF StartNextPatternPart
<1>6. x \in Good
  BY <1>3, <1>5, SetMobTableFacts DEF Begun
<1>7. PICK g : g = [m \in DOMAIN x.mobs |-> IF m \in StartKill THEN DespawnEvent(x.mobs[m], 1) ELSE x.mobs[m]]
  OBVIOUS
<1>8. Told(x.mobs, g)
  BY <1>6, <1>7, GoodFacts, SomeDismissed
<1>9. context' = [x EXCEPT !.mobs = g]
  BY <1>1, <1>7
<1> QED
  BY <1>6, <1>8, <1>9, TalkedTo DEF Start

LEMMA HitGoes ==
    ASSUME context \in Good, NEW m \in DOMAIN context.mobs, Hit(m)
    PROVE  context' \in Good /\ Lives(context, context')
<1>1. PICK delay \in HitDelays :
         context' = [context EXCEPT !.mobs[m] = DespawnEvent([context.mobs[m] EXCEPT !.hp = FALSE], delay)]
  BY DEF Hit
<1>2. context.mobs[m] \in Mob /\ delay \in 0 .. MaxDelay
  BY PartOfMob, Delays
<1>3. PICK u : u = [context.mobs[m] EXCEPT !.hp = FALSE]
  OBVIOUS
<1>4. u \in Mob /\ u.spawned = context.mobs[m].spawned /\ u.at = context.mobs[m].at /\ u.foe = context.mobs[m].foe
  BY <1>2, <1>3 DEF Mob
<1>5. PICK r : r = DespawnEvent(u, delay)
  OBVIOUS
<1>6. r \in Mob /\ r.spawned = context.mobs[m].spawned /\ r.at = context.mobs[m].at
      /\ KnowsFoe(m, context.mobs[m], r)
  BY <1>2, <1>4, <1>5, EventsFacts DEF KnowsFoe
<1>7. PICK g : g = [context.mobs EXCEPT ![m] = r]
  OBVIOUS
<1>8. context' = [context EXCEPT !.mobs = g]
  BY <1>1, <1>3, <1>5, <1>7
<1> QED
  BY <1>6, <1>7, <1>8, OneTold

LEMMA BossGoes ==
    ASSUME context \in Good, NEW m \in DOMAIN context.mobs, AttackBoss(m)
    PROVE  context' \in Good /\ Goes(context, context')
<1>1. PICK at \in Somewhere : context' = Despawn([context EXCEPT !.mobs[m].permanent = TRUE], m, at)
  BY DEF AttackBoss
<1>2. PICK r : r = [context.mobs[m] EXCEPT !.permanent = TRUE]
  OBVIOUS
<1>3. r \in Mob /\ r.spawned = context.mobs[m].spawned /\ r.at = context.mobs[m].at
      /\ KnowsFoe(m, context.mobs[m], r)
  BY <1>2, PartOfMob, PermanentFacts DEF KnowsFoe
<1>4. PICK g : g = [context.mobs EXCEPT ![m] = r]
  OBVIOUS
<1>5. PICK x : x = [context EXCEPT !.mobs = g]
  OBVIOUS
<1>6. [context EXCEPT !.mobs[m].permanent = TRUE] = x
  BY <1>2, <1>4, <1>5
<1>7. x \in Good /\ Lives(context, x) /\ Told(context.mobs, x.mobs)
  BY <1>3, <1>4, <1>5, OneTold
<1> QED
  BY <1>1, <1>6, <1>7, ToldThenDespawned

LEMMA NpcGoes ==
    ASSUME context \in Good, NpcTriggers
    PROVE  context' \in Good /\ Lives(context, context')
<1>1. PICK g : g = ObeyAll(context.mobs, NpcOrders)
  OBVIOUS
<1>2. Told(context.mobs, g)
  BY <1>1, GoodFacts, MobsAssumption, ObeyAllFacts
<1>3. context' = [context EXCEPT !.mobs = g]
  BY <1>1 DEF NpcTriggers
<1> QED
  BY <1>2, <1>3, TalkedTo

-----------------------------------------------------------------------------
(* The invariant *)

\* A step that is not a start leads nobody to death, or one mob.
LEMMA StepGoes ==
    ASSUME MobsInv, [MobsNext]_mobVars
    PROVE  /\ context' \in Good
           /\ Goes(context, context') \/ (state \in {"opened", "over"} /\ state' = "running")
<1> USE DEF MobsInv
<1>1. CASE MobsTick
  BY <1>1, TickGoes DEF Goes
<1>2. CASE Update
  <2>1. PICK m \in todo :
           UpdateWaits(m) \/ UpdateSpawns(m) \/ UpdateDespawns(m) \/ UpdateReturns(m) \/ UpdateLives(m)
    BY <1>2 DEF Update
  <2>2. m \in DOMAIN context.mobs
    BY <2>1
  <2> QED
    BY <2>1, <2>2, WaitsGoes, SpawnsGoes, DespawnsGoes, ReturnsGoes, LivesGoes DEF Goes
<1>3. CASE Start
  BY <1>3, StartGoes
<1>4. CASE Switch
  BY <1>4 DEF Switch, Goes, Lives
<1>5. CASE MobRequests
  <2>1. PICK m \in DOMAIN context.mobs : Hit(m) \/ AttackBoss(m)
    BY <1>5 DEF MobRequests
  <2> QED
    BY <2>1, HitGoes, BossGoes DEF Goes
<1>6. CASE NpcTriggers
  BY <1>6, NpcGoes DEF Goes
<1>7. CASE UNCHANGED mobVars
  BY <1>7 DEF mobVars, Goes, Lives
<1> QED
  BY <1>1, <1>2, <1>3, <1>4, <1>5, <1>6, <1>7 DEF MobsNext

\* As long as the part goes on, no mob is lost from it.
LEMMA PartKeepsMobs ==
    ASSUME NEW x \in Good, NEW y, Goes(x, y), y.part = x.part
    PROVE  DOMAIN x.mobs \subseteq DOMAIN y.mobs
<1>1. CASE Lives(x, y)
  BY <1>1 DEF Lives
<1>2. ASSUME NEW m, MobDies(x, y, m) PROVE DOMAIN x.mobs \subseteq DOMAIN y.mobs
  <2>1. x.part \in Int
    BY GoodFacts
  <2>2. ~EndsPart(x, y, m)
    BY <2>1 DEF EndsPart
  <2> QED
    BY <1>2, <2>2 DEF MobDies, DiesInPart
<1> QED
  BY <1>1, <1>2 DEF Goes

LEMMA MobsInvStep ==
    ASSUME MobsInv, [MobsNext]_mobVars
    PROVE  MobsInv'
<1>1. context' \in Good
  BY StepGoes
<1>2. todo \subseteq DOMAIN context.mobs /\ state \in {"opened", "running", "paused", "over"}
  BY DEF MobsInv
<1>3. todo' \subseteq DOMAIN context'.mobs
  <2>1. CASE MobsTick
    <3>1. context \in Good
      BY DEF MobsInv
    <3>2. DOMAIN context'.mobs = DOMAIN context.mobs
      BY <2>1, <3>1, TickGoes
    <3> QED
      BY <2>1, <3>2 DEF MobsTick
  <2>2. CASE Update
    <3>1. PICK m \in todo : Updated(m)
      BY <2>2 DEF Update
    <3>2. CASE context'.part = context.part
      <4>1. state' = state
        BY <2>2 DEF Update
      <4>2. Goes(context, context')
        <5>1. PICK l \in todo :
           UpdateWaits(l) \/ UpdateSpawns(l) \/ UpdateDespawns(l) \/ UpdateReturns(l) \/ UpdateLives(l)
          BY <2>2 DEF Update
        <5>2. l \in DOMAIN context.mobs
          BY <1>2, <5>1
        <5> QED
          BY <5>1, <5>2, WaitsGoes, SpawnsGoes, DespawnsGoes, ReturnsGoes, LivesGoes DEF Goes, MobsInv
      <4>3. DOMAIN context.mobs \subseteq DOMAIN context'.mobs
        BY <3>2, <4>2, PartKeepsMobs DEF MobsInv
      <4> QED
        BY <1>2, <3>1, <3>2, <4>3 DEF Updated
    <3>3. CASE context'.part # context.part
      BY <3>1, <3>3 DEF Updated
    <3> QED
      BY <3>2, <3>3
  <2>3. CASE Start \/ Switch \/ MobRequests \/ NpcTriggers
    <3>1. todo' = {}
      BY <2>3 DEF Start, Switch, MobRequests, Hit, AttackBoss, NpcTriggers
    <3> QED
      BY <3>1
  <2>4. CASE UNCHANGED mobVars
    BY <1>2, <2>4 DEF mobVars
  <2> QED
    BY <2>1, <2>2, <2>3, <2>4 DEF MobsNext
<1>4. state' \in {"opened", "running", "paused", "over"}
  BY <1>2 DEF MobsNext, MobsTick, Update, Start, Switch, MobRequests, Hit, AttackBoss, NpcTriggers, mobVars
<1> QED
  BY <1>1, <1>3, <1>4 DEF MobsInv

LEMMA MobsInvInit ==
    ASSUME MobsInit
    PROVE  MobsInv
<1>1. PICK f : f = [m \in {} |-> Nowhere]
  OBVIOUS
<1>2. f \in [DOMAIN f -> Mob] /\ DOMAIN f = {} /\ DOMAIN f \subseteq Mobs
  BY <1>1
<1>3. context = [mobs |-> f, standing |-> {}, part |-> 0, count |-> 0]
  BY <1>1 DEF MobsInit
<1>4. {} \in SUBSET (Areas \X Mobs) /\ 0 \in 0 .. Len(Tables) /\ 0 \in Nat
  BY MobsAssumption
<1>5. OfTable(context) /\ Counted(context) /\ Hunts(context) /\ Stood(context)
  BY <1>2, <1>3 DEF OfTable, Counted, Hunts, Stood
<1>6. context \in Good
  BY <1>2, <1>3, <1>4, <1>5, GoodMade
<1> QED
  BY <1>6 DEF MobsInit, MobsInv

-----------------------------------------------------------------------------
(* Theorems *)

\* The inductive invariant: the context is good, whatever the requests, triggers,
\* patterns and orders of updates.
THEOREM MobsInvariant == MobsSpec => []MobsInv
<1>1. MobsInit => MobsInv
  BY MobsInvInit
<1>2. MobsInv /\ [MobsNext]_mobVars => MobsInv'
  BY MobsInvStep
<1> QED
  BY <1>1, <1>2, PTL DEF MobsSpec

\* A dungeon's part never exceeds the parts it has, no death is counted beyond the
\* number the part asks for, and the mobs are what RTWorldSetMobTable, the triggers
\* and the patterns can make of them.
THEOREM MobsTypesAlways == MobsSpec => []MobsTypeOK
<1>1. MobsInv => MobsTypeOK
  <2> SUFFICES ASSUME MobsInv PROVE MobsTypeOK
    OBVIOUS
  <2>1. /\ context.mobs \in [DOMAIN context.mobs -> Mob] /\ DOMAIN context.mobs \subseteq Mobs
        /\ context.standing \in SUBSET (Areas \X Mobs)
        /\ context.part \in 0 .. Len(Tables) /\ context.count \in Nat /\ Counted(context)
    BY GoodFacts DEF MobsInv
  <2>2. context.part = 0 \/ context.count \in 0 .. Goal[context.part]
    <3> SUFFICES ASSUME context.part # 0 PROVE context.count \in 0 .. Goal[context.part]
      OBVIOUS
    <3>1. context.part \in DOMAIN Tables /\ context.part > 0
      BY <2>1, MobsAssumption
    <3>2. Goal[context.part] \in Nat
      BY <3>1, TableFacts
    <3> QED
      BY <2>1, <3>1, <3>2 DEF Counted
  <2> QED
    BY <2>1, <2>2 DEF MobsInv, MobsTypeOK
<1> QED
  BY <1>1, MobsInvariant, PTL

\* The chunks hold no mob that is not spawned or stands elsewhere: a player sees no
\* mob that is not there.
NoPhantoms ==
    context.standing \subseteq {<<context.mobs[m].at, m>> :
                                  m \in {n \in DOMAIN context.mobs : context.mobs[n].spawned}}

\* RTWorldSpawnMob, RTWorldRespawnMob, RTWorldDespawnMob, the moves, WARP_SELF and the
\* change of the mob table leave no mob in a chunk it is not in, as long as no mob
\* that has WARP_TARGET is after mobs or has mobs after it: it would warp the first
\* of its aggro also when that is gone.
THEOREM NoPhantomMobs ==
    ASSUME PlayersOnly
    PROVE  MobsSpec => []NoPhantoms
<1>1. MobsInv => NoPhantoms
  <2> SUFFICES ASSUME MobsInv PROVE NoPhantoms
    OBVIOUS
  <2>1. context.standing \in SUBSET (Areas \X Mobs) /\ Stood(context)
    BY GoodFacts DEF MobsInv
  <2> SUFFICES ASSUME NEW e \in context.standing
               PROVE  e \in {<<context.mobs[m].at, m>> :
                                m \in {n \in DOMAIN context.mobs : context.mobs[n].spawned}}
    BY DEF NoPhantoms
  <2>2. PICK a \in Areas, m \in Mobs : e = <<a, m>>
    BY <2>1
  <2>3. m \in DOMAIN context.mobs /\ context.mobs[m].spawned /\ context.mobs[m].at = a
    BY <2>1, <2>2 DEF Stood
  <2> QED
    BY <2>2, <2>3
<1> QED
  BY <1>1, MobsInvariant, PTL

\* If moreover no pattern has WARP_SELF, every mob that is spawned stands in the one chunk its
\* movement names, and no other does: the assertions of RTWorldChunkInsert and
\* RTWorldChunkRemove hold at its next spawn, move or death.
THEOREM MobsStandInChunks ==
    ASSUME PlayersOnly, Warpers = {}
    PROVE  MobsSpec => []MobsInChunks
<1>1. MobsInv /\ NoPhantoms => MobsInChunks
  <2> SUFFICES ASSUME MobsInv, NoPhantoms PROVE MobsInChunks
    OBVIOUS
  <2>1. Stood(context)
    BY GoodFacts DEF MobsInv
  <2>2. \A m \in DOMAIN context.mobs :
           context.mobs[m].spawned => <<context.mobs[m].at, m>> \in context.standing
    BY <2>1 DEF Stood
  <2> QED
    BY <2>2 DEF NoPhantoms, MobsInChunks
<1> QED
  BY <1>1, MobsInvariant, NoPhantomMobs, PTL

\* No mob is in the tables of two parts.
TablesApart ==
    \A j, k \in DOMAIN Tables : j # k => ToSet(Tables[j]) \intersect ToSet(Tables[k]) = {}

LEMMA NobodyDied ==
    ASSUME context \in Good, Lives(context, context')
    PROVE  Died = {}
BY DEF Died, Lives

LEMMA OneDied ==
    ASSUME context \in Good, NEW m \in DOMAIN context.mobs, context.mobs[m].spawned,
           DiesInPart(context, context', m)
    PROVE  Died = {m}
<1>1. m \in Died
  BY DEF Died, DiesInPart
<1>2. ASSUME NEW l \in Died PROVE l = m
  <2>1. l \in DOMAIN context.mobs /\ context.mobs[l].spawned /\ (l \in DOMAIN context'.mobs => ~context'.mobs[l].spawned)
    BY <1>2 DEF Died
  <2> QED
    BY <2>1 DEF DiesInPart
<1> QED
  BY <1>1, <1>2

LEMMA CountedOnce ==
    ASSUME MobsInv, context.part > 0, TablesApart, Goes(context, context')
    PROVE  DeathsCounted
<1>1. /\ context \in Good /\ context.part \in 0 .. Len(Tables) /\ context.count \in Nat
      /\ Counted(context) /\ OfTable(context)
  BY GoodFacts DEF MobsInv
<1>2. context.part \in DOMAIN Tables
  BY <1>1, MobsAssumption
<1>3. Goal[context.part] \in Nat /\ context.count <= Goal[context.part]
  BY <1>1, <1>2, TableFacts DEF Counted
<1>4. CASE Lives(context, context')
  <2>1. Died \intersect Asked = {}
    BY <1>1, <1>4, NobodyDied
  <2>2. Cardinality(Died \intersect Asked) = 0
    BY <2>1, FS_EmptySet
  <2>3. context'.part = context.part /\ context'.count = context.count
    BY <1>4 DEF Lives
  <2> QED
    BY <1>1, <1>3, <2>2, <2>3 DEF DeathsCounted
<1>5. ASSUME NEW m, m \in DOMAIN context.mobs, context.mobs[m].spawned,
             DiesInPart(context, context', m)
      PROVE  DeathsCounted
  <2>1. Died = {m}
    BY <1>1, <1>5, OneDied
  <2>2. Cardinality(Died \intersect Asked) = IF m \in Asked THEN 1 ELSE 0
    <3>1. CASE m \in Asked
      <4>1. Died \intersect Asked = {m}
        BY <2>1, <3>1
      <4> QED
        BY <3>1, <4>1, FS_Singleton
    <3>2. CASE m \notin Asked
      <4>1. Died \intersect Asked = {}
        BY <2>1, <3>2
      <4> QED
        BY <3>2, <4>1, FS_EmptySet
    <3> QED
      BY <3>1, <3>2
  <2>3. /\ context'.part = context.part
        /\ context'.count = IF m \in Asked /\ context.count < Goal[context.part]
                            THEN context.count + 1 ELSE context.count
    BY <1>5 DEF DiesInPart
  <2> QED
    BY <1>1, <1>3, <2>2, <2>3 DEF DeathsCounted
<1>6. ASSUME NEW m, m \in DOMAIN context.mobs, context.mobs[m].spawned,
             EndsPart(context, context', m)
      PROVE  DeathsCounted
  <2>1. /\ m \in Asked /\ context.count + 1 = Goal[context.part] /\ context.part < Len(Tables)
        /\ context'.part = context.part + 1 /\ context'.count = 0
        /\ DOMAIN context'.mobs = ToSet(Tables[context'.part])
    BY <1>6 DEF EndsPart
  <2>2. context'.part \in DOMAIN Tables /\ context'.part # context.part
    BY <1>1, <2>1, MobsAssumption
  <2>3. m \notin ToSet(Tables[context'.part])
    <3>1. m \in ToSet(Tables[context.part]) \/ m \in Minions
      BY <1>1, <1>6 DEF OfTable
    <3>2. ToSet(Tables[context.part]) \intersect ToSet(Tables[context'.part]) = {}
      BY <1>2, <2>2 DEF TablesApart
    <3>3. ToSet(Tables[context'.part]) \intersect Minions = {}
      BY <2>2, TableFacts
    <3> QED
      BY <3>1, <3>2, <3>3
  <2>4. m \in Died
    BY <1>6, <2>1, <2>3 DEF Died
  <2> QED
    BY <2>1, <2>4 DEF DeathsCounted
<1> QED
  BY <1>4, <1>5, <1>6 DEF Goes, MobDies

\* Where no mob is in two tables, a death counts once and for the part it happens in,
\* whoever caused it, and a part is over only with the death it missed
\* (RTWorldDespawnMob, RTWorldIncrementQuestMobCounter, RTDungeonStartNextPatternPart).
THEOREM DeathsCountOnce ==
    ASSUME TablesApart
    PROVE  MobsSpec => DeathsCount
<1>1. MobsInv /\ [MobsNext]_mobVars => [DeathsCounted]_mobVars
  <2> SUFFICES ASSUME MobsInv, [MobsNext]_mobVars, context.part > 0,
                      ~(state \in {"opened", "over"} /\ state' = "running")
               PROVE  DeathsCounted
    BY DEF DeathsCounted
  <2>1. Goes(context, context')
    BY StepGoes
  <2> QED
    BY <2>1, CountedOnce
<1> QED
  BY <1>1, MobsInvariant, PTL DEF MobsSpec, DeathsCount
=============================================================================
