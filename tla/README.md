# Verification of Breaklee

Breaklee is a server emulator for an online role-playing game, written in C. This directory
holds TLA+ models of its core, the TLC configurations that check them on small instances, and
proofs, checked by TLAPS, of the invariants that matter most.

    tlc -config MCPartySizes.cfg MCPartySizes  # one run of the table below
    tlapm PartySvrProofs.tla                   # all proofs of a module

## 1. The system

Seven kinds of process form a cluster. Each is one single-threaded event loop over libuv
(`NetLib/Server.c`): a packet handler, a timer tick or a connection callback runs to its end
before the next one starts. There are no threads and no locks, so **a handler is an atomic
step**, and everything hard comes from the interleaving of handlers of different processes and
from the packets between them.

| process | state it keeps | talks to |
|---|---|---|
| MasterSvr | node registry, world list | every other process; forwards all IPC packets |
| MasterDBAgent | none but its database handle | world, login and auction servers |
| LoginSvr | client sessions, authentication state | clients, MasterSvr, WorldSvr |
| WorldSvr (several) | clients, `RTRuntime` (worlds, characters, mobs, items), a replica of the parties | clients, PartySvr, LoginSvr, MasterDBAgent |
| PartySvr | the parties, the invitations, who is online where | WorldSvr |
| ChatSvr, AuctionSvr | client sessions | clients, MasterDBAgent |

**The bus.** Every process opens one TCP connection to MasterSvr and addresses packets to a node
(`IPCSocketUnicast`) or to every node of a type (`IPCSocketBroadcast`). MasterSvr forwards each
packet as it arrives (`NetLib/IPCSocket.c`, `_IPCSocketOnReceived`). Between two nodes packets
keep their order; packets of different senders interleave; a packet for a node that is not
registered is dropped. A reply finds its client by `TargetConnectionID`, a number that is never
reused (`NetLib/Socket.c:199`); when the client is gone the handler gets a null connection.

**Memory.** Entities live in fixed pools of blocks (`CoreLib/MemoryPool.c`). A block number is
the identity of what is in it and is reused, lowest first, as soon as it is released.
`CoreLib/Dictionary.c` maps keys to block numbers. Most invariants of this program relate a pool
to the dictionaries that index it.

### Components, their operations and what makes them correct

| component | operations | correct when |
|---|---|---|
| party server (`PartySvr`, `RuntimeLib/PartyManager.c`) | connect, disconnect, invite, its acknowledgement, cancel, confirm, leave, change leader, data, relay, timer | members and dictionary agree; nobody is in two parties; the limit holds; every change is announced |
| party replicas (`WorldSvr/OnParty.c`) | client requests, 14 packets from the party server | each pool converges to the party server's; no stale link or ID is used |
| dictionary, pools (`CoreLib`) | insert, look up, remove, iterate; reserve, fetch, release | they are a finite map and a set of handles |
| bus (`NetLib/IPCSocket.c`, `MasterSvr`) | connect, register, route, lose a node, reconnect | order is kept, nothing is delivered to the wrong node |
| login and hand-over (`*/OnVerifyLinks.c`, `LoginSvr/OnAuthenticate.c`) | authenticate, verify links, request, response | what is counted of an account is what there is, nobody is locked out, and a session is moved, not copied |
| character synchronisation (`WorldSvr/OnWorldDBSync.c`, `MasterDBAgent/OnDBSync.c`) | mark dirty, tick, save, load, unload | no update is lost between unload and the next load |
| inventories (`RuntimeLib/Inventory.c`, `Equipment.c`, `Warehouse.c`) | insert, remove, move, swap, stack | items are neither lost nor duplicated, no two share a slot |
| worlds (`RuntimeLib/World*.c`) | spawn, despawn, move, open and destroy a context | an entity is in the one chunk its movement names, and in no chunk of a context that is gone |
| dungeons and warps (`RuntimeLib/Dungeon.c`, `Warp.c`, `WorldSvr/OnDungeon.c`) | enter, start, parts, pause, resume, end, fail, exit, close | a dungeon lasts as long as it is played or has time, and its players are somewhere at its end |
| mobs (`RuntimeLib/Mob.c`, `MobPattern.c`) | spawn, die, respawn, triggers, link mobs, patterns | deaths count once; who is to return does; nobody stands in two chunks |
| quests (`RuntimeLib/Quest.c`, `WorldSvr/OnQuest.c`) | begin, follow, count, clear, cancel, delete, restore, for a character and for a party | kills count for every quest that asks; nothing is paid, given or taken twice |
| buffs, skills, masteries, crafting, auction | see PROJECT.json | life cycles without a stuck or doubled state |
| data, scripts, parsers, formatting | load at start | not modelled: no state beyond loading |

`PROJECT.json` lists every component with its status, and under `hazards` each thing that is
hard to test, at its line.

## 2. What is modelled

### PartySvr.tla: the party server

One action per W2P packet handler and one for the timer.

| variable | code |
|---|---|
| `party` | `PartyManager->PartyPool` (None: the block is free) |
| `charToParty` | `PartyManager->CharacterToPartyEntity` |
| `invite`, `charToInvite` | `PartyInvitationPool`, `CharacterToPartyInvite` |
| `charToWorld` | `Context->CharacterToWorldServer` |
| `status` | running, or the way the process died |
| `sent` | the packets the last step gave to the IPC socket, in order |

`sent` is what a step *says*; no action reads it, and the runs leave it out of the state
identity (`VIEW Unsent`). It is there for the action properties and for the composition.

Any packet may arrive with any character in it, because the world servers forward what clients
say without comparing it to party state. Two things are modelled as the code does them although
they look odd: the timer examines the same invitation in every round of its loop
(`DictionaryKeyIteratorNext` advances the key, never the value), and running out of blocks is a
null dereference (`MemoryPoolReserveNext` is not checked). A process that dies keeps its last
state; `Next` is then disabled, which is why deadlock is not checked.

Handlers that test a record the type of which is always NORMAL on this server lose that test.
Level, name and dungeon of a member, and timestamps, are abstracted: an invitation may be found
expired at any tick.

### PartyRoster.tla: what the party service promises

The abstract specification: one variable, the party of each character, and four steps: found,
join, leave, disband. `PartySvr` implements it under `memberOf <- charToParty`
(`RosterSpec`), checked by TLC and proved.

### PartySystem.tla: party server, world servers and clients

Extends PartySvr with the connections of clients, the queues `up` and `down` between each world
server and the party server (the two legs through MasterSvr are one FIFO), and on each world
server the replica of the pool (`replica`), its dictionary (`mapped`), the `PartyID` of each
loaded character (`avatar`) and `health`. `Serve` takes a packet to the party server's handler
and appends what it `sent` to the queues; `Receive` runs the world server's handler, `OnP2W`.
`MobDies` models the single place outside the party code that trusts `Character->PartyID`.

Left out: packets a world server only translates for its clients; solo dungeon parties (another
pool, never sent to the party server); loss of the connection to MasterSvr, a case the source
itself leaves open (first comment of `PartySvr/main.c`). Loading a character is one step, and a
character is loaded on one world server at a time, which the hand-over is there to ensure.

### ItemContainers.tla, CharacterItems.tla: the items of a character

`ItemContainers` has the containers as operators on values: inventory, equipment, warehouse and
vehicle inventory are sets of items (the code scans for a slot and nothing reads the order of the
array), the temporary inventory is a sequence, because the insertion into it depends on its order.
`CharacterItems` is the state machine: `data` (`Character->Data`), `locks`, `ground`, `status`,
`reply` (the result field of the last response) and `marked` (the sections of `SyncMask` the last
handler set).

| action | handler |
|---|---|
| `MoveItem`, `SwapItem`, `Drop`, `Sort`, `MoveList`, `Split`, `Merge` | `WorldSvr/OnInventory.c`, `OnWarehouse.c` (sorting) |
| `PushEquipment`, `LockEquipment` | `WorldSvr/OnInventory.c` |
| `Deposit`, `Withdraw` | `WorldSvr/OnWarehouse.c` |
| `Loot` | `WorldSvr/OnLoot.c`, `RTCharacterLootItem` |
| `UseLottery`, `Extract` | `RTItemLotto`, `WorldSvr/OnExtractItem.c` |

One handler is one action; what can go wrong is what one handler leaves behind for the next and
what it fails to undo. Three things are modelled as the code does them although they look odd: a
move into the warehouse pays from the purse first and from the deposit when the purse is empty;
the count of a quest item has no limit and carries into its index; a loot takes the item from the
ground whether it fits or not.

An options word is a number of units, or an index and a number of units for quest items. Requests
come from a client in step with the server: it names places of the containers it is shown, two
different ones, and stacks of legal size. Money is counted in fees of 1000 Alz; amounts stay below
250 fees, where the tax of a deposit is the minimum. Left out: item kinds whose options layout the
source marks as unknown (EVENT_S, FONT_S), looting currency, dungeon and group looting, the
protection time of a dropped item, and how `SyncMask` gathers until the next save.

### CharacterSync.tla: loading and saving characters

Two world servers, the master server between them and the database agent. A section of a
character's data is a version number; `memory` is what a world server has loaded, with the
`SyncMask` as the set `dirty`; `db` is the database; `toMaster` and `fromDB` are the packets on
their way; `client` is the connection to each world server, `links` the hand-over requests.

| action | handler |
|---|---|
| `Connect`, `LogIn`, `OnAuthenticate`, `VerifyLinks`, `OnVerifyLinks`, `Disconnect` | `WorldSvr/ClientSocket.c`, `OnVerifyLinks.c` |
| `GetCharacters`, `OnGetCharacterList`, `Initialize`, `OnGetCharacter` | `WorldSvr/OnGetCharacters.c`, `OnInitialize.c` |
| `Touch`, `AddForceGem`, `SyncTimer`, `OnSync`, `Deinitialize` | `WorldSvr/OnWorldDBSync.c`, `OnDeinitialize.c`, `RuntimeLib/Account.c` |
| `Forward` with `DBAuthenticate`, `DBGetCharacterList`, `DBGetCharacter`, `DBSync` | `MasterSvr` forwarding and the handlers of `MasterDBAgent` |

A call of the database may fail (`MaxFailures` times). The mask is cleared when the packet is
sent, and what failed is marked again by the answer, if the character is still there. `Orderly`
says that the game client waits for its character before it asks again and goes back to the
character list before a hand-over; the run that refutes an assertion drops it. `newest` and
`lost` are history variables that only the properties read.

### CharacterLayout.tla: the sections of a save and of a load

A DBSYNC packet is a list of sections with arrays and no separators, written by one hand-written
list (`ServerSyncCharacter`) and read by another (`MasterDBAgent/OnDBSync.c`); a load passes four
more (columns, bindings, packet, reader). The module has these lists as sequences, with the element
type each side uses for an array (`SavedTypeOf`, `TakenTypeOf`, `OwnType`), and runs one save and one
load over them, for the lengths and masks of `MCCharacterLayout`: what each section
becomes when the reader's cursor is where the writer did not put it.

### Sessions.tla: log-in, hand-over and who is online

The sessions of accounts over the login server, the world servers, the database agent and the
master server. `conn` has the connections of each server by number, `toMaster` and `fromMaster` the
packets on either leg (the master server forwards those of one sender in order; those of two
senders interleave), `info` the connections the master server counts per account and kind of node,
`online` the flag of the authentication database that makes the login server refuse a second
log-in. `mistyped` is a history that only `SessionsAccounted` reads.

| action | code |
|---|---|
| `Connect`, `Authenticate`, `MistypedPassword`, `HangUp`, `NoticeEnd`, `Timeout`, `Close` | `NetLib/Socket.c`, `LoginSvr/OnAuthenticate.c`, `OnDisconnect.c`, `main.c`, `*/ClientSocket.c` |
| `LoginVerifyLinks`, `OnLoginLink`, `OnDatabaseAuthenticate`, `OnAuthenticate`, `OnLinkAnswer` | log-in: `*/OnVerifyLinks.c`, `MasterDBAgent/OnAuthenticate.c` |
| `WorldVerifyLinks`, `OnWorldRequest`, `OnWorldResponse`, `OnWorldReturn` | between world servers and back: `*/OnVerifyLinks.c` |
| `MasterStep` with `OnClientConnect`, `OnClientDisconnect`; `OnSetOnline` | `MasterSvr/OnClientInfo.c`, `LoginSvr/OnClientInfo.c` |

The number and key a game client was told stand for the connection: a connection that is closing
is still found by them. The timer of the login server may fire at any time. The game client is in
step: it authenticates once per connection, obeys a refusal (`ACCOUNT_STATUS`; the server only
states it), and sends VERIFY_LINKS for a connection it has opened. A client that sends AUTHENTICATE
twice would be counted twice and lock its account. Left out: the login server's flags up to
AUTHORIZED, RSA, captcha, world list, the loss of connections between servers.

### DungeonWorlds.tla: world contexts, warps and dungeons

The world contexts of one world server. `info` is `Character->Data.Info` (saved), `chunk` the
chunk a character's movement names, `standing` the characters the chunks hold, `instances` the
contexts of parties with their dungeon, `parties` the replica (with parties of one the world
server makes itself), `joining` the characters the party server has not answered for.

| action | code |
|---|---|
| `Load`, `PartyServerAnswers`, `Disconnect`, `Deinitialize` | `WorldSvr/OnInitialize.c`, `OnParty.c`, `ClientSocket.c`, `OnDeinitialize.c` |
| `Move`, `Leave`, `WarpByPattern`, `Die`, `Revive`, `EnterDungeon`, `ExitDungeon` | `RTWorldChunkUpdate`, the cases of `RTRuntimeWarpCharacter`, `RTRuntimeOpenDungeon`, `RTRuntimeCloseDungeon` |
| `StartDungeon`, `CompletePart`, `EndDungeon`, `Pause`, `Resume`, `Tick` | `WorldSvr/OnDungeon.c`, `RuntimeLib/Dungeon.c` |
| `CreateParty`, `LeaveParty`, `DestroyParty` | the party server's packets (see PartySvr) |

Times are relative to now. Where the code asserts or dereferences null the action is disabled:
the process stops there, which deadlock and the properties about assertions are about. Left out:
entry items and fees, gates, dungeon timers, immunity controls, rewards.

### MobTables.tla, DungeonMobs.tla: the mobs of a dungeon

`MobTables` has the data of the mobs of a dungeon, `DungeonMobs` one context: `context` has the
mobs, who stands in which chunk, the part and the deaths counted in it; `todo` the mobs still to
be updated in this round, in an order nobody fixes; `state` the dungeon's. `Update` is
`RTMobUpdate`: a mob waits, spawns, despawns, returns or lives, in that order of the code's early
returns, and living it may take an action of its pattern (`PatternActions`). Between rounds come
hits, ATTACK_BOSS_MOB, quest triggers, pauses and restarts. The operators `SpawnMob`, `Despawn`,
`SetMobTable` are whole functions of `World.c`, with the triggers they pull. Of a mob's aggro the
model has `foe`, the mob that is first in it, if one is: mobs attack mobs (`Enemies`), and
WARP_TARGET warps the first of the aggro. When a foe comes and goes (`Alert`, `Angered`) is left
open where it depends on distances, on damage and on the characters in the aggro. The replacement of
all mobs in the middle of an iteration leaves the iterator in a dictionary it was not made for:
who is still updated in that round is a nondeterministic choice (`Updated`). Left out: characters
in the aggro, skills, drops, buffs, patrols, scripts, dungeon timers and more than one pattern action per
update.

### QuestTables.tla, CharacterQuests.tla, PartyQuests.tla: quests

`QuestTables` has the data of quests and what both kinds of log do with it. A counter of a slot is a
byte (`CounterRange`, 256 in the code) and what is stored loses what does not fit (`Stored`); what a quest
asks for is an Int32. `CharacterQuests` is the
log of one character: `slots` with their order, for they are found by a scan and removed by moving
what is behind them, the three sets of flags, the quest items in the `bag` and a `drop` on the
ground. `PartyQuests` is the log a party shares: `log`, the `chest` of the party, and for each member
the `request` on its way, made from what the member saw then. `since`, `paid`, `kills` and `taken`
are histories that only the properties read.

| action | code |
|---|---|
| `QuestBegin`, `QuestAction`, `QuestClear`, `QuestCancel`, `QuestDelete`, `QuestRestore`, `QuestDungeonEnd` | `WorldSvr/OnQuest.c`, `OnDungeon.c`, `RuntimeLib/Quest.c` |
| `KillMob`, `LootItem`, `Discard` | `RuntimeLib/World.c`, `Drop.c`, `Loot.c` |
| `Send`, then `Handle`: `PartyQuestBegin`, `PartyQuestAction`, `PartyQuestClose`, `PartyQuestLootItem` | `WorldSvr/OnQuest.c`, `RuntimeLib/Quest.c` |
| `KillInDungeon` | `RuntimeLib/World.c`, `Quest.c` |

The client of a character is in step: it begins and deletes no quest it has and names each slot of
the inventory once (`QUEST_BEGIN` would accept a quest that is in the log, and pay it from each
place). The requests of a party's members were in step when they were sent. Left out: conditions on
level and rank and distances to NPCs, which only refuse; rank-up quests; rewards other than items.

## 3. What is checked

| run | instance | shows |
|---|---|---|
| `party_server` | 3 characters, 1 world server, 2 party blocks, 2 invitation blocks; parties of at most 3, or at most 2 | `TypeOK`, `RosterConsistent`, `InvitesIndexed`; `LifecycleAnnounced`; `DestroyNamesMembers`; refinement of PartyRoster |
| `party_server_assert` | parties of 3 | *violated*: `assert(Party)` in the timer |
| `party_system` | three cases: 2 characters, 2 world servers with one connection each, 1 party block, 5 moves, clients and timer act while fewer than 2 packets are on their way; 2 persons with one account, 2 connections to the login server and 1 to a world server; 1 person, 1 connection to the login server and to each of 2 world servers | `TypesOK`; `PoolsConverge`, `LifecycleInTurn`; `SessionsAccounted`, `NobodyLockedOut` |
| `party_system_create` | the parties of `party_system` | *violated*: an assertion on the world servers |
| `items_storage` | one player with two weapons, a bike and a potion, 2 inventory, 3 equipment, 2 warehouse and 1 vehicle slot, 1 item on the ground, amounts up to 2; another with rings and ring slots that may be locked | `ItemsTypeOK`, `SlotsDistinct`, `ItemsConserved`, `RefusedChangesNothing`, `ChangesAreMarked`, `OnlyFeesVanish`, `PushKeepsOrder` |
| `items_stacks` | 3 slots; stacks and quest items, or a lottery item and one to extract; lists of 2 moves | `StacksLegal`, `ItemsConserved`, `LotteryKeepsTemporary` |
| `items_swap` | as `items_storage` | *violated*: the static backups of a swap |
| `character_data` | 2 world servers, 1 character, 1 section and the account's record, 2 changes each, 2 connections, 2 requests on their way, 1 failure; and one save and load for each of 469 cases | `TypesOK`; `NoChangeForgotten`, `LoadsNewest`, `ChangesSaved`; `ListsAgree` |
| `character_created_twice` | as `character_data`, a client that does not wait | *violated*: an assertion of the world manager |
| `world_server` | seven cases: 2 players in a party and 1 dungeon; 1 player, 2 dungeons and 1 context; 2 players whose party changes; 4 mobs in a dungeon of two parts; 2 quests of a character, 2 places, 2 slots; 2 quests of a party of two, 2 places, 2 slots; the parties of `party_system` with 4 moves and one packet on its way | `TypesOK`; `NoGhosts`, `NobodyInDestroyed`, `NoEarlyTimeout`, `SoloRunsOut`; `MobsInChunks`, `DeathsCount`, `MobsComeBack`; `KillsCounted`, `PartyKillsCounted`, `PaidOnce`, `RefusedClearKeeps`, `StepsOnce`; `EndedPartiesForgotten` |
| `world_dungeons_full` | 2 players in a party, 1 dungeon, 1 context | *violated*: the assertion of RTWorldChunkRemove |
| `party_quest_reward` | the quests of a party of two | *violated*: the assertion that the slot for a reward is empty |

Several modules EXTEND or INSTANCE others to check several instances in one run: a variable that
never changes (`limit`, `player`, `subject`, `case`) says which instance a behaviour is of. The
cases do not mix, and a run costs what its cases cost.

**Bounds.** Three characters are needed for an inviter, an invited and an outsider, and to tell
a party of two that loses a member (destroyed) from one of three (kept). Two party blocks let
two parties exist at once and a third founder meet the full pool. The server's own state is
finite, so no other bound is needed there. In `PartySystem` the one party block makes every
founding reuse the number just released, the case `LifecycleInTurn` is about; `MaxMoves` bounds
characters loaded plus requests made, enough for a party to be founded, ended and founded again
on the two servers; `MaxInFlight` bounds the packets on their way when a client or the timer
acts (what a handler sends in answer is not bounded). Characters are interchangeable, and so are the
world servers of `party_system`, each with its connection (symmetry); the case
`replicas` of `world_server`, which is there for liveness, uses neither symmetry nor the view.

For the items, two inventory slots and three equipment slots are the fewest in which a left weapon
leaves, the right one moves up and the inventory is full or not; two warehouse slots let a sort
exchange items. Two units per stack and a count of two bits (`CountModulus` 4) make full stacks and
an overflowing count reachable. Three ring slots are needed for one before, between and after a
locked one. Three slots of temporary inventory allow a gap in the middle.

For the sessions, one account shared by two persons is the least with a refusal; the second
connection to the login server is the second person's, and the one to a world server lets a
hand-over be under way meanwhile (`OneAway`). The second case gives each server one connection and
the person (`OnTour`) a way from the login server to a world server, to the other or back, with an
end at any point.

For the characters, two changes of a section are needed for one that is saved and one that comes
while the answer is on its way, one failure for a bit that comes back, two connections for a load
after an unload, on the same world server or on the other. For the dungeons, two players are a
party one member of which leaves the other behind; two chunks let a step be wrong; a mission of
two ticks, one tick of a pause and one of bonus tell a timeout that comes too early from one that
does not. Only the solo case has pauses, which the code grants to parties of one. The mobs are one
that returns for ever, one that is only called, a boss that comes twice and a link mob; the orders
let them kill, call, revive and delete each other; delays and intervals of 0 and 1 make every order
of two events. The mob that is only called is after the one that returns, so that mobs attack mobs and
one dies with a foe. For the quests, two in the log tell the slots apart when one is removed; one that asks
for both species and one that asks for one of them share a kill; two units of a ware need two slots
or a stack; the ware a party's quest lends is the reward of its other quest, so that both want the
party's slots. No quest asks for more than two, so that a counter of three values (`CounterRange` 3)
holds what is asked, as a byte does for 255, and one count too many wraps.

**Fairness.** `SpecSystem` assumes weak fairness of `Receive(w)` only: the event loop of a world
server that is up keeps reading its socket. Nothing is assumed of clients, of the timer or of
the party server. `EndedPartiesForgotten` needs no more. `CharacterSync` assumes of each world
server, weakly, that what has arrived is handled (`Serve`: the event loops and the database agent's
synchronous handler), that the timer of a changed character comes due (`SyncTimer`, the 10 ms tick
of `WorldSvr/main.c`), and that a connection being closed is closed. `DungeonWorlds` assumes the
world server's update (`Tick`), `DungeonMobs` the same timer (`MobsTick`) and that it reaches every mob
of a round (`Update`). `MCWorldServer` assumes these three of the cases they are about. Nothing is
assumed of players.

**Properties.**
- `RosterConsistent`: dictionary and member lists describe the same membership, no duplicates,
  within the limit, after every sequence of packets.
- `InvitesIndexed`: invitation blocks and keys are in bijection: four handlers release them.
- `LifecycleAnnounced`: parties appear and disappear exactly with a CREATE_PARTY or
  DESTROY_PARTY to all world servers; there is no other way for a replica to learn of it.
- `DestroyNamesMembers`: a DESTROY_PARTY names those it unlinks, but for the one who left.
- `PoolsConverge`: what a replica has, plus what is on its way, is what the party server has.
- `LifecycleInTurn`: no packet meets its block in the wrong state though numbers are reused.
- `EndedPartiesForgotten`: every replica that stays up drops a party that ended.
- `SlotsDistinct`: no two items of a container share a slot, after every sequence of handlers.
- `ItemsConserved`: no handler makes or destroys units. Excepted are those that turn an item into
  others, a refused swap and a refused loot, and quest items whose count overflows.
- `RefusedChangesNothing`: what is refused is undone, even after a weapon had moved up. A list of
  moves stops half-way and keeps what it did; a swap is the subject of a finding.
- `ChangesAreMarked`: what changed is marked for the next save. Excepted are the list of moves that
  stops half-way and the temporary inventory, which only the lottery marks.
- `OnlyFeesVanish`: purse and deposit together lose exactly the fees.
- `StacksLegal`: the limits of stacks, and of the array the lottery and the extraction fill.
- `LotteryKeepsTemporary`: a prize never replaces an item, although the temporary inventory may be
  out of the order its insertion assumes (`RuntimeLib/Inventory.h:33`).
- `PushKeepsOrder`: a push passes over locked slots and keeps the order of the others.
- `NoChangeForgotten`: each section of a loaded character is what the database will hold, is
  marked, or will be marked by the notice of its failure.
- `LoadsNewest`: a load finds what was there when the character was last unloaded, on whichever
  world server, unless a save is known to have failed.
- `ChangesSaved`: every change reaches the database in the end, or its save failed after unloading.
- `ListsAgree`, in three parts of `CharacterLayout`: `SavedIntact`, `LoadedIntact`: what is written
  is what is read, section by section, except behind the disagreements the properties name (the
  event pass's mission pages, the size of the costume slots on a save, the diamond arrays' lengths and the
  size of the diamond mastery slots on a load, `OnInitialize.c:315`), and except for what no load carries
  (the extended style, the gift box's rewards, three sections) or takes from another row (the warp
  services): those are defects of the code, kept in the model. `UnsavedStaysMarked`: what the database refused is marked
  again; transcendence, preset and the extended achievements are the exceptions, again defects.
- `SessionsAccounted`: for an account with which no password was mistyped, what the master server has
  counted, plus the notices on their way, is the connections there are, per kind of server; the last
  word the login server will hear is the master server's; and of two connections of one person that
  have the account, one is a login connection that an answer on its way will end.
- `NobodyLockedOut`: when all packets are handled, an account without connections is offline,
  mistyped passwords or not.
- `NoGhosts`: the chunks hold loaded characters only, each the one its movement names.
- `NobodyInDestroyed`: the context of a party is not destroyed around a player. It does not hold
  when a member leaves the party while inside, as nobody looks for it then; the case in which
  parties change has no exits for that reason.
- `NoEarlyTimeout`, `SoloRunsOut`: a dungeon that times out was played for its whole time, pauses
  not counted, and one that is not paused comes to an end.
- `MobsInChunks`: a mob stands in the chunk its movement names while it is spawned, in none
  otherwise. Two actions of patterns break it: WARP_SELF, which removes the mob from its chunk and
  inserts it nowhere (`MobPattern.c:164-179`), and WARP_TARGET on a mob, which moves the first of the
  aggro whether it is there or not (`MobPattern.c:141-158`): a mob that has died since its aggro was last
  looked through (`Mob.c:708`) is put into a chunk again. After the first, the mob's next step, respawn or
  death fails `assert(ArrayContainsElement(...))` (`WorldChunk.c:279`); the second fails it at once. The
  run has no boss with the first (`Warpers` is empty), and its boss with the second has no mob for a foe.
  With `Warpers = {b1}` in `MCWorldServer.cfg` TLC finds the first, with `Bosses = {b1, m2}`,
  `TargetWarpers = {m2}` and `Asked = {m2, b1}` the second. In `ServerData` twenty mobs have a pattern with
  WARP_SELF; seven have one with WARP_TARGET, none of which is after mobs or has mobs after it.
- `DeathsCount`: each death counts once, for the part it happens in, whatever caused it.
- `MobsComeBack`: a mob without end returns, as long as the dungeon runs and nobody deletes it.
- `KillsCounted`: each counter of each quest is what was killed since the quest was begun, up to what
  it asks for, whatever was begun, cleared and cancelled in the slots around it. A quest must not ask for
  more than a counter holds (`CountersSuffice`): above 255 the counter wraps to 0 (`Quest.c:520`, 944) and
  the quest is never complete. Nothing in `ServerDataLoader.c` compares the two.
  `PartyKillsCounted` says so of the quests of a party, whichever member killed.
- `PaidOnce`: no quest is paid twice, however it is begun, cancelled, deleted and restored.
- `RefusedClearKeeps`: a completion that is refused keeps the log and pays nothing. It may take items
  all the same (`Quest.c:370`), but then all that was asked for and nothing before that was there.
- `StepsOnce`: two members who act on the quest they share never take or get the item of a step twice.

**Findings.** (1) An invitation outlives its party, so the next tick of the party server fails
`assert(Party)` (`PartySvr/main.c:67`; the TODO at `PartyManager.c:84` knows the cause). (2) A
leaver is unlinked on its own world server only, so every other world server fails
`assert(!DictionaryLookup(...))` (`PartyManager.c:70`) when that player founds a party again.
Assertions are active unless NDEBUG is defined; a release build dereferences the null party, or
overwrites the link, instead. (3) The move inside a swap overwrites the static backups of the swap,
so that a refused swap restores a state without the item set aside (`OnInventory.c:12` holds the
sharing safe). (4) Nothing marks a GET_CHARACTER under way: a client that asks again before the
answer has its character created twice, and `assert(!DictionaryLookup(...))`
(`WorldManager.c:396`) fails. (5) A warp into a dungeon takes the character from its chunk before
it knows whether a context is free; refused, the character is nowhere, and its next warp or the end
of its connection fails `assert(ArrayContainsElement(...))` (`WorldChunk.c:279`).
(6) Two members act on the quest they share: a loot into the slot that the other has named for the
reward of the quest it closes is handled first, and `assert(!ItemSlot->Item.Serial)` (`Quest.c:797`)
fails, one line before the same test would refuse.

Met while modelling, without a run: of the mobs, the two actions of patterns under `MobsInChunks`
above; of the sessions, `Online` is set by a notice that comes after the answer, so that two persons who authenticate at once are both let in; an account is offline while its
session is between two world servers with its notice still to come, and a second log-in is let in; a
log-in the database agent answers when the connection to the world server is gone leaves the login
connection to its timer; the connection of a mistyped password is uncounted without having been
counted (`LoginSvr/ClientSocket.c:34`), so that the owner may be shown offline. Of the parties,
DESTROY_PARTY leaves `Character->PartyID`, so that the next kill of a mob fails `assert(Party)`
(`World.c:525`); the loop of a push may put an item back into the first slot, and `assert(Success)`
(`OnInventory.c:223`) fails; an extraction that finds the temporary inventory full aborts
(`Inventory.c:130`); the party of one of a player whose connection was lost in a dungeon stays, and
its next warp into a dungeon dereferences null (`Runtime.c:494`). Of the quests: the counters of items
are two apart, so that a quest for one species and two wares counts behind the array (`Quest.c`,
RTCharacterUpdateQuestItemCounter); an item counter is the number picked up last, and no loss of an
item resets it, so that a ware may never be left behind again; `QUEST_CLEAR` marks the inventory only
if it pays an item, and what was handed over is there again after a login; `QUEST_DUNGEON_END`
succeeds for a dungeon that is not active (`Dungeon.c:200`); `PARTY_QUEST_BEGIN` of an occupied place
is announced as begun, and `PARTY_QUEST_CLOSE` as closed when it was refused after the items were
taken; a party's quest with a related quest can never begin.

## 4. What is proved

`PartySvrProofs.tla`, from `SizeAssumption` and `NoneAssumption` alone: for any finite
set of characters, any set of world servers, any pool size and any member limit of at least two.

| theorem | statement |
|---|---|
| `TypeCorrect` | `Spec => []TypeOK` |
| `RosterCorrect` | `Spec => []RosterConsistent` |
| `InvitesCorrect` | `Spec => []InvitesIndexed` |
| `ServerImplementsRoster` | `Spec => RosterSpec` |

The inductive invariant is `IInv`: types of the four tables, `RosterConsistent` and
`InvitesIndexed`. Neither half is inductive alone in its parts: removing a member keeps
`DictionaryListed` only because `MembersWellFormed` says it was listed once, and adding one keeps
`ListedInDictionary` only because the dictionary said it was listed nowhere.

The argument goes through *kinds of step*. Five kinds change the party tables (`Refresh`,
`Found`, `Join`, `Depart`, `Disband`), three the invitation tables (`Record`, `Redescribe`,
`Release`). One lemma per table shows each kind inductive (`RosterStepInductive`,
`InviteStepInductive`); one lemma per handler shows which kinds it consists of
(`ConnectStep` ... `TickStep`). The refinement reuses the classification: each kind is a step of
PartyRoster or a stutter (`RosterStepRefines`), where counting members of the abstract party
needs that the list has no duplicates (`CharsCount`).

Its last part proves the two action properties about what the server sends, from the same
assumptions and the same invariant:

| theorem | statement |
|---|---|
| `LifecycleAlwaysAnnounced` | `Spec => LifecycleAnnounced` |
| `DestroyAlwaysNamesMembers` | `Spec => DestroyNamesMembers` |

Every step is of one of four kinds (`Announces`): it founds and ends nothing and sends notes only
(`Silent`), stops the server (`Dies`), founds one party and says so once (`FoundsOne`), or ends one
and says so once with the members it had but for at most one (`EndsOne`). One lemma per handler
(`ConnectAnnounces` ... `TickAnnounces`) says which. The lists that are sent are known by the
elements of the member lists, which is where `MembersWellFormed` is needed again, and the note to each
invited of a tick by its position modulo the notes of one.

`PartySystemProofs.tla` proves of the composition, from the assumptions of the party server,
`HomeAssumption` and `BoundAssumption`, for any number of world servers, connections and packets on
their way:

| theorem | statement |
|---|---|
| `SystemTypesAlways` | `SpecSystem => []SystemTypeOK` |
| `SystemRosterCorrect` | `SpecSystem => []RosterConsistent` |
| `SystemImplementsRoster` | `SpecSystem => RosterSpec` |
| `ReplicasConverge` | `SpecSystem => []PoolsConverge` |
| `LifecycleAlwaysInTurn` | `SpecSystem => []LifecycleInTurn` |

The inductive invariant is `SysInv`: `IInv` of the party server, the types, and `InTurn`. A queue is
read as a *path* from one set of parties to another (`Path`, `LeadsTo`), each packet a turn: a
CREATE_PARTY adds a block that was not there, a DESTROY_PARTY removes one that was, any other packet
changes nothing. `InTurn` says that what is on its way to a running world server leads from the
parties it holds to those the party server has. Neither property is inductive without it: that the
first packet is in turn says nothing of the second, which is first after the next step. Receiving
takes the first packet from a path (`HeadLeads`); a step of the party server adds one at its end
(`PathsJoin`), and what it adds is in turn because each handler announces at most one founding or end
(`Announces`, above). Of the notes of a step a world server gets those addressed to it, in their order
(`Outgoing`); that this numbering by rank leaves none out is `NthExists`. `PoolsConverge` reads the
parties at the end of the path from the last packet about each block (`Foreseen`), `LifecycleInTurn`
those at its start. A world server that failed an assertion has no part in the invariant any more: the
packets for it are dropped.

`DungeonProofs.tla`, of `DungeonWorlds` from `DungeonAssumption` alone:

| theorem | statement |
|---|---|
| `NoGhostsAlways` | `Spec => [](TypeOK /\ NoGhosts)` |
| `NobodyInDestroyedAlways` | if there is one dungeon and the parties do not change, `Spec => []NobodyInDestroyed` |

`NoGhosts` is inductive together with the types. One lemma per action shows that what it leaves in
the chunks is named by a movement: `Left` removes the pair a character's movement names, and by
`NoGhosts` that is its only one. `NobodyInDestroyed` needs much more, the conjunction `Kept`: the
parties are those of the start and those of one belong to one player (`PartiesKept`); a character
with a party's ID is in that party (`PartyKnown`); a context's world is its dungeon (`OneWorldEach`);
a party's character in a dungeon's world is in its party's context (`InsideTheirs`); a member inside
knows the ID of its party (`MembersInside`); who stands in a party's context is a member inside it
(`InstancesHold`). The exit of a dungeon is the step that uses them all, for it destroys a context
exactly if nobody who could stand in it is left.

The same module proves of `DungeonMobs`, from `MobsAssumption`, for any tables of mobs, triggers, patterns
and delays:

| theorem | statement |
|---|---|
| `MobsTypesAlways` | `MobsSpec => []MobsTypeOK` |
| `NoPhantomMobs` | if `PlayersOnly`, `MobsSpec => []NoPhantoms` |
| `MobsStandInChunks` | if `PlayersOnly` and no boss warps itself, `MobsSpec => []MobsInChunks` |
| `DeathsCountOnce` | if no mob is in two tables, `MobsSpec => DeathsCount` |

The inductive invariant is `MobsInv`: the context is `Good`, and who is still to be updated in this
round exists. Good is stated of a context and not of the state, for one update passes through many
contexts: a mob dies, its triggers spawn and delete others, its death ends the part, and the table of
the next part is put in its place while the update of the dead mob still goes on. It has four parts:
the mobs are of the part's table or created by patterns (`OfTable`); a part that has a next one has
not yet its deaths (`Counted`); the chunks hold spawned mobs at their place (`Stood`); foes are foes
(`Hunts`). One lemma per
operator shows that it leads from a good context to a good one and says how (`MobSpawnFacts`,
`SetMobTableFacts`, `CountDeathFacts`, `DespawnFacts`, `PatternActionsFacts`): nobody dies (`Lives`), or one
mob dies in the part or ends it (`MobDies`); `StepGoes` says so of every action but the dungeon's start.
`DeathsCountOnce` is read off that classification.

All hypotheses are needed. WARP_SELF takes a mob from its chunk and puts it nowhere, so that with a
boss in `Warpers` not every spawned mob stands somewhere; `NoPhantomMobs` says what
remains: nobody stands in a chunk who is gone or elsewhere. That in turn needs `PlayersOnly`: no mob that
warps its target is after mobs or attacked by them (`Foes`), for WARP_TARGET puts a foe that is gone
into a chunk; the data has to see to it, and the repository's does. Why
`PlayersOnly` suffices is the fourth part of a good context, `Hunts`: the foe of a mob is one of its `Foes`,
which every way into an aggro keeps (`AlertFacts`, `WoundedFacts`, `AttacksFacts`). And a mob that is also in the table of the next part is
there again after the death that ended the part, so that who died cannot be told from the mobs.

`SessionsProofs.tla`, from `SessionsAssumption`, which the runs check of their constants: any players,
finitely many accounts and world servers, any number of connections, passwords mistyped or not.

| theorem | statement |
|---|---|
| `SessionsTyped` | `SessionsSpec => []SessionsTypeOK` |
| `AccountedAlways` | `SessionsSpec => []SessionsAccounted` |
| `NobodyLockedOutEver` | `SessionsSpec => []NobodyLockedOut` |

The inductive invariant is `Inv`, of three parts, each inductive given the ones before it.

`Core` is about sessions. A *token* is a packet on which a connection will get an account, or its
forerunner: the five packets of the two hand-overs. While one is on its way its connection has no
account, its player holds no other but the login connection the token comes from (`Fresh`), and no
other token names it (`Clashes`). A player holds one connection to a server (`OneEach`) and plays on
one world server (`OneVerified`); with a connection to the login server besides, that one was just
handed to him or its answer is on the way (`LoginToo`). This is what `Moves` says of two connections.
That handlers go by number and key, and find a connection that is closing, is why `Fresh` speaks of
connections that are closed as well.

`Counting` is about the master server's count. That the sums agree is not inductive: the master
server forgets an account when its counts come down to zero or less, and a count below zero would be
forgotten with it, if a disconnect could overtake its connect. So `Balance` also says that the notices of connects on their
way can be matched (`Matched`): each with a disconnect further back in the queue of the same server, or
with a connection that is there, none twice. From it follows what is needed: the count of an account with which no
password was mistyped is never below zero, and forgetting one at zero changes nothing (`BalReset`). One lemma says what each kind of step does to a
balance (`BalConnect`, `BalDisconnect`, `BalUncounted`, `BalTake`); the last, in which a whole queue
moves up by one place, is the longest (`MovedMatch`). For an account with which a password was mistyped
the sum is only an upper bound, and that suffices for `NobodyLockedOut`.

`Agreed` is about the login server: the last word on its way about an account, or its flag if there
is none, is what the master server knows (`LastWord`).

`QuestsProofs.tla` begins with lemmas about the operators both kinds of quest log are built from, from
`QuestAssumption`: the place a slot's removal moves the others to (`RemoveAtMoves`), the counters
after a kill (`CountKillCounts`, `KillsBounded`), the steps of a quest (`StepFacts`), an item put
into an inventory (`PutInTyped`). Those of the counters, and the two theorems they lead to, also use
`CountersSuffice` (no quest asks for more deaths than a counter holds). That, and in `QuestAssumption` that the
counter of the last item is one of the slot, is for the data of the quests to see to: the code does not. Of the quests of a character it proves:

| theorem | statement |
|---|---|
| `PaidOnceAlways` | `QuestSpec => []PaidOnce` |
| `KillsCountedAlways` | `QuestSpec => []KillsCounted` |

The inductive invariant is `LogInv`. That no quest is paid twice rests on where a paid quest is: it
is finished, and not one of the deleted, which alone may be restored (`PaidFinished`); and a quest
in the log is one to be paid (`LogUnfinished`). That the counters are right needs that a quest is in
the log once (`LogDistinct`), so that what `RTCharacterRemoveQuestSlot` moves is the slot of another
quest, and that a quest that is not in the log has no kills yet (`OthersFresh`).

Of the quests of a party, in the same module:

| theorem | statement |
|---|---|
| `PartyQuestTypesAlways` | `PartyQuestSpec => []PartyQuestTypeOK` |
| `StepsOnceAlways` | `PartyQuestSpec => []StepsOnce` |
| `PartyKillsCountedAlways` | `PartyQuestSpec => []PartyKillsCounted` |

The inductive invariant is `PartyInv`. What is not behind the step a quest stands at was never taken
(`StepsAhead`), and a step is asked for only while there is one behind it (`StepsAskedFor`): without
that the last step would be taken and not left, and could be taken again.

`CharacterSyncProofs.tla`, from `SyncAssumption`, for any number of world servers, characters,
sections, connections and failing calls:

| theorem | statement |
|---|---|
| `SyncTypesAlways` | `Spec => []SyncTypeOK` |
| `ChangesRemembered` | if `Orderly`, `Spec => []NoChangeForgotten` |
| `LoadedAsLeft` | if `Orderly`, `Spec => LoadsNewest` |
| `CreatedOnceOrderly` | if `Orderly`, `Spec => []CreatedOnce` |

`Orderly` is needed, and is a fact about the game client, not about the servers: without it the run
`character_created_twice` finds a character created twice: no handler of the world server prevents it.

The inductive invariant is `SyncInv`. What the handlers rely on and none of them checks is that one
place at a time may act for the account: a connection that is verified, an authentication on its way
(request or answer), or a hand-over on its way (a packet to the master server or one in `links`).
`OneToken` says there is one such place, `SavesFirst` that a save still on its way comes from the
world server that has the right to play or goes before the request that passes it on, `SavesInOne`
that saves are never on their way from two world servers at once. So a character is in memory only
where its account is played (`LoadedLive`), and a load asks the database after the saves made before
it and is answered while nobody changes anything (`GetsAsked`): a request lies behind those saves, an
answer behind the notices of what failed, with the data the database still holds. `IdsKnown` says that
no packet bears the number of a connection that is yet to come, which is how an answer for a closed
one is dropped.

On that rest the three parts about the data. What is in memory is the newest version
(`LoadedNewest`), unless a section was lost when a save failed after the character had left
(`FailureKnown`). Of a character that is nowhere in memory the database will hold the newest version
once the saves on their way are handled (`SavedNewest`). Of one in memory every section is marked,
will be held by the database as it is, or is named by a notice of failure still to come
(`Remembered`), which is `NoChangeForgotten`. None of the three is inductive alone: a load turns
`SavedNewest` into `LoadedNewest`, leaving does the reverse, and a save that is answered moves a
section between the three cases of `Remembered`. One lemma per action and part shows it kept.

`CharacterItemsProofs.tla`, for any kinds of items, stack sizes, slots, prizes and bounds:

| theorem | statement |
|---|---|
| `ItemsTypedAlways` | `Spec => []ItemsTypeOK` |
| `SlotsDistinctAlways` | `Spec => []SlotsDistinct` |
| `StacksLegalAlways` | `Spec => []StacksLegal` |
| `RefusalUndone` | `Spec => RefusedChangesNothing` |
| `ChangesMarked` | `Spec => ChangesAreMarked` |

They rest on what the code takes from outside and never checks (`InitAssumption`): a character as the
database sends it has its items in distinct slots of their containers and its stackable items in
stacks of legal size, and what the tables of prizes and extractions name is a legal stack. Nothing is
assumed of the options word of an item that does not stack, nor of the count of a quest item.

The inductive invariant is `ItemsInv`, and its part about one container is `WellStored`: legal items
in slots of the container, no two in one. It has to be stated of all four containers at once, and of
the temporary inventory with the size of its array (`WellFilled`), for a stack that is moved from one
into another is legal there only because it was legal where it came from: `CanStack` compares with
the limit in the inventory alone, and an item of a stackable kind may lie anywhere. One lemma per
operator shows that it keeps `WellStored` (`SetSlotStored`, `Cleared`, `Replaced`, `SortedStored`) or
`WellFilled` (`TakenFilled`, `PutFilled`, `MovedFilled`, `MoveSlotFacts`), and one per handler that it ends
in `Good`: the invariant, `Undone` and `AllMarked`. `RoomMade` shows that the move inside a swap is
never refused, since the item set aside has left room for it; only the way back can fail.

The loops are recursive functions (`PushRounds`, `MoveSteps`, `InsertScan`, `ExtractSteps`), of which
the definition itself does not say that they exist: `StepsExist` shows it, for steps that stay within
a set, and `StepByStep` then carries the set through the rounds. That the sort finds a free slot
for every item it is told to place is `NthExists` with the library's pigeonhole theorem.

`CountingProofs.tla` has what these modules share. Induction over numbers is done as a least
counterexample: `LeastNumber`, that every set of numbers with an element has a least one, follows
from the library's facts about well-founded relations, which take sets, where its induction rules
take an operator and cannot be used. From it come `StepByStep` and `StepsExist`, of functions defined
step by step, `BelowGrows`, of how many elements of a set lie below a number, and `NthExists`, that a
set of n numbers has an element of each rank up to n.

Only model-checked: liveness (everything under fairness: `EndedPartiesForgotten`, `ChangesSaved`,
`SoloRunsOut`, `MobsComeBack`), `NoEarlyTimeout`, the layout of the characters' data (`ListsAgree`), and
`PushKeepsOrder`. What folds over a packet of several actions,
over all items or over all slots computes for every input (`RefusedClearKeeps`, `ItemsConserved`,
`LotteryKeepsTemporary`) would need induction over data, which is out of the provers' reach.
`OnlyFeesVanish` holds on its run and not for all constants: a quest item of no units, put onto
another one in the warehouse, pays the fee and changes nothing there. The violation runs stay with
TLC, which finds their counterexamples.

## 5. Plan

In this order. The runs are kept to a dozen: a new component joins the run of one it is close to.

1. The gates, timers and immunity controls of dungeons, and their entry items, in `DungeonMobs`.
2. `Auction`: register, search, buy and cancel between world server and MasterDBAgent.
3. LoginSvr's flags up to AUTHORIZED in `Sessions`; the party server's view of who is online
   (`OnConnect.c:50`).
4. `IPCBus`: registration, routing, node loss and reconnection at MasterSvr; then restarts of
   party and world servers in PartySystem.
5. `Dictionary`, `KeyIterator`: bucket chains in growing buffers refine a finite map; what the
   iterator visits when entries are removed on the way (proved).
6. `Buff`, masteries, and the handlers that spend an item and grant another.
7. Proofs: `PushKeepsOrder` for every suit of slots.

## 6. Not modelled, and why

Data files, their parsers and loaders, scripts, logging, packet formatting and encryption hold
no protocol state. Path finding, damage and upgrade tables are arithmetic on data. The database
is seen through the requests MasterDBAgent makes of it. Liveness and everything that needs
`ENABLED` is beyond the proof system and stays with TLC.
