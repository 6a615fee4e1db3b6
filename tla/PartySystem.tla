------------------------------ MODULE PartySystem ------------------------------
(***************************************************************************)
(* The party service as a whole: the party server of PartySvr, the world   *)
(* servers (WorldSvr/OnParty.c) with the replica of the party pool each of *)
(* them keeps, and the clients connected to them.  Packets travel through  *)
(* the master server, which forwards them in order between any two nodes,  *)
(* so there is one FIFO queue from each world server and one to it.        *)
(*                                                                         *)
(* Abstractions.  A packet that a world server only translates for its     *)
(* clients (PARTY_DATA, PARTY_LEAVE, timeouts, broadcasts) is left out of  *)
(* the queues.  Loading a character from the database is one step, and a   *)
(* character is loaded on one world server at a time.  A node that fails   *)
(* stays down, and no connection to the master server is lost: the source  *)
(* itself leaves that case open (PartySvr/main.c, first comment).  Parties *)
(* of solo dungeons, which live in a pool of their own, are left out.      *)
(***************************************************************************)
EXTENDS PartySvr

CONSTANTS
    Conn,        \* connection IDs; NextConnectionID never repeats one
    Home,        \* the world server each connection is made to
    MaxMoves,    \* bound: characters loaded and party requests made, together
    MaxInFlight  \* bound: packets on their way when a client or the timer acts

ASSUME HomeAssumption == Home \in [Conn -> World]
ASSUME BoundAssumption == MaxMoves \in Nat /\ MaxInFlight \in Nat \ {0}

VARIABLES
    up,       \* W2P packets of each world server on their way
    down,     \* P2W packets on their way to each world server
    opened,   \* the connections made so far
    client,   \* Client->CharacterIndex of each connection, None when closed
    avatar,   \* per world server: PartyID of each loaded character, None if not loaded
    replica,  \* per world server: PartyManager->PartyPool
    mapped,   \* per world server: PartyManager->CharacterToPartyEntity
    health,   \* per world server: "running", or how it died
    moves     \* counts what MaxMoves bounds

worlds == <<replica, mapped, health>>
server == <<party, charToParty, invite, charToInvite, charToWorld, status, sent>>
allVars == <<server, up, down, opened, client, avatar, worlds, moves>>

NullID == 0

InitSystem ==
    /\ Init
    /\ up = [w \in World |-> <<>>]
    /\ down = [w \in World |-> <<>>]
    /\ opened = {}
    /\ client = [k \in Conn |-> None]
    /\ avatar = [w \in World |-> [c \in Character |-> None]]
    /\ replica = [w \in World |-> [p \in PartyIndex |-> None]]
    /\ mapped = [w \in World |-> [c \in Character |-> None]]
    /\ health = [w \in World |-> "running"]
    /\ moves = 0

-----------------------------------------------------------------------------
(* Clients.                                                                 *)

Send(w, m) == up' = [up EXCEPT ![w] = Append(@, m)]
Running(w) == health[w] = "running"
InFlight == MapThenSumSet(LAMBDA w : Len(up[w]) + (IF Running(w) THEN Len(down[w]) ELSE 0), World)
HasRoom == InFlight < MaxInFlight

Playing(k) == client[k] # None /\ avatar[Home[k]][client[k]] # None

\* C2S INITIALIZE on connection k, up to the W2P CLIENT_CONNECT it ends with.  A
\* connection that returned to the character list may load another character.
Enter(k, c) ==
    LET w == Home[k] IN
    /\ Running(w) /\ HasRoom
    /\ k \notin opened \/ (client[k] # None /\ ~Playing(k))
    /\ \A v \in World : avatar[v][c] = None
    /\ opened' = opened \cup {k}
    /\ client' = [client EXCEPT ![k] = c]
    /\ avatar' = [avatar EXCEPT ![w][c] = NullID]
    /\ Send(w, [type |-> "CLIENT_CONNECT", conn |-> k, char |-> c])
    /\ moves < MaxMoves /\ moves' = moves + 1
    /\ UNCHANGED <<server, down, worlds>>

\* C2S DEINITIALIZE: the character is unloaded, the connection keeps its index and
\* the party server hears nothing.
Deinitialize(k) ==
    /\ Running(Home[k])
    /\ Playing(k)
    /\ avatar' = [avatar EXCEPT ![Home[k]][client[k]] = None]
    /\ UNCHANGED <<server, up, down, opened, client, worlds, moves>>

Disconnect(k) ==
    LET w == Home[k] IN
    /\ Running(w) /\ HasRoom
    /\ client[k] # None
    /\ client' = [client EXCEPT ![k] = None]
    /\ avatar' = [avatar EXCEPT ![w][client[k]] = None]
    /\ Send(w, [type |-> "CLIENT_DISCONNECT", char |-> client[k]])
    /\ UNCHANGED <<server, down, opened, worlds, moves>>

\* The leader check of PARTY_CHANGE_LEADER reads the replica.
Leads(k, p) ==
    LET w == Home[k] IN
    /\ mapped[w][client[k]] = p
    /\ replica[w][p] # None
    /\ replica[w][p].leader = client[k]

Requested(k) ==
    LET src == [char |-> client[k], world |-> Home[k]] IN
    { [type |-> "PARTY_INVITE", source |-> src, target |-> tgt] : tgt \in Located }
    \cup { [type |-> "PARTY_INVITE_CONFIRM", conn |-> k, char |-> client[k],
            inviter |-> d, accept |-> yes] : d \in Character, yes \in BOOLEAN }
    \cup { [type |-> "PARTY_INVITE_CANCEL", char |-> client[k], target |-> d] : d \in Character }
    \cup { [type |-> "PARTY_LEAVE", conn |-> k, char |-> client[k]] }
    \cup { [type |-> "PARTY_CHANGE_LEADER", id |-> p, char |-> d] :
             p \in {q \in PartyIndex : Leads(k, q)}, d \in Character }

Request(k) ==
    LET w == Home[k] IN
    /\ Running(w) /\ HasRoom
    /\ moves < MaxMoves
    /\ Playing(k)
    /\ \E m \in Requested(k) : Send(w, m)
    /\ moves' = moves + 1
    /\ UNCHANGED <<server, down, opened, client, avatar, worlds>>

-----------------------------------------------------------------------------
(* The party server takes the next packet of a world server.               *)

Lifecycle == {"CREATE_PARTY", "DESTROY_PARTY"}

\* What a world server does more with than to tell its clients.
Effective == {"CREATE_PARTY", "DESTROY_PARTY", "PARTY_INFO", "PARTY_INVITE",
              "PARTY_INVITE_CONFIRM", "PARTY_LEAVE_ACK", "PARTY_CHANGE_LEADER", "CLIENT_CONNECT"}

\* The packets of a step that are for world server v; the master server drops what
\* is for a node it has lost.
Passing(v) == {i \in DOMAIN sent' : sent'[i].type \in Effective /\ v \in sent'[i].to /\ Running(v)}

Outgoing(v) ==
    [n \in 1 .. Cardinality(Passing(v)) |->
        sent'[CHOOSE i \in Passing(v) : Cardinality({j \in Passing(v) : j < i}) = n - 1]]

\* Fault: packets overtake each other.
DispatchUnordered(k) ==
    down' = [v \in World |->
                   [i \in DOMAIN Outgoing(v) |-> [packet |-> Outgoing(v)[i], conn |-> k]] \o down[v]]

\* The server's packets join the queues, the answers under connection k.
Dispatch(k) ==
    down' = [v \in World |-> down[v] \o
                   [i \in DOMAIN Outgoing(v) |-> [packet |-> Outgoing(v)[i], conn |-> k]]]

Ignore == sent' = <<>> /\ UNCHANGED <<party, charToParty, invite, charToInvite, charToWorld, status>>

Handle(w, m) ==
    \/ m.type = "CLIENT_CONNECT" /\ ClientConnect(w, m.char)
    \/ m.type = "CLIENT_DISCONNECT" /\ ClientDisconnect(m.char)
    \/ m.type = "CLIENT_DISCONNECT" /\ charToWorld[m.char] = None /\ Ignore
    \/ m.type = "PARTY_INVITE" /\ PartyInvite(w, m.source, m.target)
    \/ m.type = "PARTY_INVITE_ACK" /\ InviteAck(m.source, m.target, m.success)
    \/ m.type = "PARTY_INVITE_CONFIRM" /\ ConfirmUnknown(w, m.char, m.inviter)
    \/ m.type = "PARTY_INVITE_CONFIRM" /\ m.accept /\ ConfirmAccept(w, m.char, m.inviter, w)
    \/ m.type = "PARTY_INVITE_CONFIRM" /\ ~m.accept /\ ConfirmDecline(w, m.char, m.inviter, w)
    \/ m.type = "PARTY_INVITE_CANCEL" /\ InviteCancel(w, m.char, m.target, w)
    \/ /\ m.type = "PARTY_INVITE_CANCEL"
       /\ ~HasInvite(m.target) \/ GetPartyByCharacter(m.char) = None
       /\ Ignore
    \/ m.type = "PARTY_LEAVE" /\ Leave(w, m.char)
    \/ m.type = "PARTY_CHANGE_LEADER" /\ ChangeLeader(w, m.id, m.char)

Serve(w) ==
    /\ status = "running"
    /\ up[w] # <<>>
    /\ LET m == Head(up[w]) IN
         /\ Handle(w, m)
         /\ Dispatch(IF "conn" \in DOMAIN m THEN m.conn ELSE None)
    /\ up' = [up EXCEPT ![w] = Tail(@)]
    /\ UNCHANGED <<opened, client, avatar, worlds, moves>>

ServerTick ==
    /\ status = "running"
    /\ HasRoom
    /\ Tick
    /\ Dispatch(None)
    /\ UNCHANGED <<up, opened, client, avatar, worlds, moves>>

-----------------------------------------------------------------------------
(* A world server takes the next packet of the party server.               *)

WorldDies(w, how) ==
    /\ health' = [health EXCEPT ![w] = how]
    /\ UNCHANGED <<up, avatar, replica, mapped>>

\* The loaded characters among S take party ID p.
Adopt(w, S, p) ==
    avatar' = [avatar EXCEPT ![w] = [c \in Character |->
                  IF c \in S /\ avatar[w][c] # None THEN p ELSE avatar[w][c]]]

\* A block that is taken keeps the party it has, and that party's members adopt its ID.
OnCreateParty(w, p, rec) ==
    LET fresh == replica[w][p] = None
        kept == IF fresh THEN rec ELSE replica[w][p]
        linked == {c \in Chars(rec) : mapped[w][c] # None} IN
    \/ /\ fresh /\ linked # {}
       /\ WorldDies(w, "assert(!DictionaryLookup)")
    \/ /\ ~(fresh /\ linked # {})
       /\ replica' = [replica EXCEPT ![w][p] = kept]
       /\ mapped' = IF fresh THEN [mapped EXCEPT ![w] =
                        [c \in Character |-> IF c \in Chars(rec) THEN p ELSE mapped[w][c]]]
                             ELSE mapped
       /\ Adopt(w, Chars(kept), p)
       /\ UNCHANGED <<up, health>>

\* Fault: the members are unlinked and the block stays reserved.
OnDestroyPartyLeaking(w, p, rec) ==
    /\ mapped' = [mapped EXCEPT ![w] =
                     [c \in Character |-> IF c \in Chars(rec) THEN None ELSE mapped[w][c]]]
    /\ UNCHANGED <<up, avatar, replica, health>>

\* The members named by the packet are unlinked; no loaded character forgets its ID.
OnDestroyParty(w, p, rec) ==
    /\ replica' = [replica EXCEPT ![w][p] = None]
    /\ mapped' = [mapped EXCEPT ![w] = [c \in Character |->
                     IF replica[w][p] # None /\ c \in Chars(rec) THEN None ELSE mapped[w][c]]]
    /\ UNCHANGED <<up, avatar, health>>

\* The record is replaced and the dictionary is not.
OnPartyInfo(w, p, rec) ==
    /\ replica' = [replica EXCEPT ![w][p] = IF @ = None THEN None ELSE rec]
    /\ UNCHANGED <<up, avatar, mapped, health>>

OnChangeLeader(w, p, c) ==
    /\ replica' = IF replica[w][p] # None /\ c \in Chars(replica[w][p])
                    THEN [replica EXCEPT ![w][p].leader = c] ELSE replica
    /\ UNCHANGED <<up, avatar, mapped, health>>

\* RTPartyManagerRemoveMember on the replica, for the character that connection k
\* has loaded by now.  A link to a released block is a null dereference.
OnLeaveAck(w, k, ok) ==
    LET c == client[k]
        p == mapped[w][c]
        lost == p # None /\ replica[w][p] = None
        place == IF p = None \/ lost THEN {} ELSE Slot(replica[w][p], c) IN
    \/ /\ ~(Playing(k) /\ ok)
       /\ UNCHANGED <<up, avatar, worlds>>
    \/ /\ Playing(k) /\ ok
       /\ \/ /\ \E i \in place : replica' = [replica EXCEPT ![w][p] = WithoutSlot(@, i)]
             /\ mapped' = [mapped EXCEPT ![w][c] = None]
          \/ /\ place = {}
             /\ UNCHANGED <<replica, mapped>>
       /\ avatar' = IF lost THEN avatar ELSE [avatar EXCEPT ![w][c] = NullID]
       /\ health' = IF lost THEN [health EXCEPT ![w] = "null dereference"] ELSE health
       /\ UNCHANGED up

OnConfirm(w, k, c, ok, p) ==
    LET told == \E j \in Conn : Home[j] = w /\ client[j] = c IN
    /\ avatar' = IF told /\ Playing(k) /\ ok
                   THEN [avatar EXCEPT ![w][client[k]] = p] ELSE avatar
    /\ UNCHANGED <<up, worlds>>

\* Character is not checked: it is NULL when the client left the world meanwhile.
OnConnectReply(w, k, p) ==
    \/ client[k] = None /\ UNCHANGED <<up, avatar, worlds>>
    \/ client[k] # None /\ ~Playing(k) /\ WorldDies(w, "null dereference")
    \/ /\ Playing(k)
       /\ avatar' = [avatar EXCEPT ![w][client[k]] = IF p = None THEN NullID ELSE p]
       /\ UNCHANGED <<up, worlds>>

\* The invitation is shown if its target plays here; the party server learns which.
OnInvite(w, src, tgt) ==
    LET shown == \E j \in Conn : Home[j] = w /\ client[j] = tgt.char /\ Playing(j) IN
    /\ Send(w, [type |-> "PARTY_INVITE_ACK", source |-> src, success |-> shown,
                target |-> IF shown THEN [tgt EXCEPT !.world = w] ELSE tgt])
    /\ UNCHANGED <<avatar, worlds>>

OnP2W(w, k, m) ==
    \/ m.type = "CREATE_PARTY" /\ OnCreateParty(w, m.id, m.party)
    \/ m.type = "DESTROY_PARTY" /\ OnDestroyParty(w, m.id, m.party)
    \/ m.type = "PARTY_INFO" /\ OnPartyInfo(w, m.id, m.party)
    \/ m.type = "PARTY_CHANGE_LEADER" /\ OnChangeLeader(w, m.id, m.char)
    \/ m.type = "PARTY_LEAVE_ACK" /\ OnLeaveAck(w, k, m.result)
    \/ m.type = "PARTY_INVITE_CONFIRM" /\ OnConfirm(w, k, m.char, m.success, m.id)
    \/ m.type = "CLIENT_CONNECT" /\ OnConnectReply(w, k, m.id)
    \/ m.type = "PARTY_INVITE" /\ OnInvite(w, m.source, m.target)

Receive(w) ==
    /\ Running(w)
    /\ down[w] # <<>>
    /\ OnP2W(w, Head(down[w]).conn, Head(down[w]).packet)
    /\ down' = [down EXCEPT ![w] = Tail(@)]
    /\ UNCHANGED <<server, opened, client, moves>>

\* A mob dies whose drop belongs to c: RTWorldDespawnMob asserts that the party c
\* belongs to by its PartyID exists in the replica.
MobDies(w, c) ==
    /\ Running(w)
    /\ avatar[w][c] \in PartyIndex
    /\ replica[w][avatar[w][c]] = None
    /\ WorldDies(w, "assert(Party)")
    /\ UNCHANGED <<server, down, opened, client, moves>>

-----------------------------------------------------------------------------
NextSystem ==
    \/ \E k \in Conn : (\E c \in Character : Enter(k, c)) \/ Deinitialize(k) \/ Disconnect(k) \/ Request(k)
    \/ \E w \in World : Serve(w) \/ Receive(w) \/ \E c \in Character : MobDies(w, c)
    \/ ServerTick

\* The event loops keep reading their sockets; nothing else is sure to happen.
SpecSystem == InitSystem /\ [][NextSystem]_allVars /\ \A w \in World : WF_allVars(Receive(w))

-----------------------------------------------------------------------------
(* Properties.                                                              *)

\* Packets from world server w: those of a client name its connection, and an
\* invitation bears the index of the world server it comes from.
FromWorld(w) ==
    [type : {"CLIENT_CONNECT", "PARTY_LEAVE"}, conn : Conn, char : Character]
    \cup [type : {"PARTY_INVITE_CONFIRM"}, conn : Conn, char : Character,
          inviter : Character, accept : BOOLEAN]
    \cup [type : {"CLIENT_DISCONNECT"}, char : Character]
    \cup [type : {"PARTY_INVITE"}, source : [char : Character, world : {w}], target : Located]
    \cup [type : {"PARTY_INVITE_ACK"}, source : Located, target : Located, success : BOOLEAN]
    \cup [type : {"PARTY_INVITE_CANCEL"}, char : Character, target : Character]
    \cup [type : {"PARTY_CHANGE_LEADER"}, id : PartyIndex, char : Character]

\* What the party server answers a connection, and what it tells of itself.
Answer ==
    [type : {"CLIENT_CONNECT"}, to : SUBSET World, char : Character, id : PartyIndex \cup {None}]
    \cup [type : {"PARTY_LEAVE_ACK"}, to : SUBSET World, char : Character, result : BOOLEAN]
    \cup [type : {"PARTY_INVITE_CONFIRM"}, to : SUBSET World, char : Character,
          success : {TRUE}, id : PartyIndex]
    \cup [type : {"PARTY_INVITE_CONFIRM"}, to : SUBSET World, char : Character,
          success : {FALSE}, id : PartyIndex \cup {None}]

Notice ==
    [type : Lifecycle \cup {"PARTY_INFO"}, to : SUBSET World, id : PartyIndex, party : Party]
    \cup [type : {"PARTY_INVITE"}, to : SUBSET World, source : Located, target : Located]
    \cup [type : {"PARTY_CHANGE_LEADER"}, to : SUBSET World, id : PartyIndex, char : Character]

Delivery == [packet : Answer, conn : Conn] \cup [packet : Notice, conn : Conn \cup {None}]

\* Types of what the world servers, their connections and the queues hold.
SystemTypeOK ==
    /\ DOMAIN up = World
    /\ \A w \in World : up[w] \in Seq(FromWorld(w))
    /\ down \in [World -> Seq(Delivery)]
    /\ opened \subseteq Conn
    /\ client \in [Conn -> Character \cup {None}]
    /\ avatar \in [World -> [Character -> PartyIndex \cup {NullID, None}]]
    /\ replica \in [World -> [PartyIndex -> Party \cup {None}]]
    /\ mapped \in [World -> [Character -> PartyIndex \cup {None}]]
    /\ health \in [World -> {"running", "null dereference", "assert(Party)",
                             "assert(!DictionaryLookup)"}]

\* The packets on their way to w that create or destroy the party in block p.
About(w, p) == {i \in DOMAIN down[w] : down[w][i].packet.type \in Lifecycle /\ down[w][i].packet.id = p}

\* The blocks of w's pool once it has handled the packets on their way.
Foreseen(w) ==
    {p \in PartyIndex :
        \/ About(w, p) = {} /\ replica[w][p] # None
        \/ \E i \in About(w, p) :
              /\ down[w][i].packet.type = "CREATE_PARTY"
              /\ \A j \in About(w, p) : j <= i}

\* The creations and destructions on their way to a world server are exactly what
\* its pool lacks to have the party server's: no interleaving of founding, leaving,
\* refusals, timeouts and disconnects makes a replica keep or miss a party for good.
PoolsConverge == \A w \in World : Running(w) => Foreseen(w) = Reserved

\* A CREATE_PARTY finds its block free and a DESTROY_PARTY finds it reserved: block
\* numbers are reused, and the two fallbacks in PartyManager.c for a packet out of
\* turn (return the party that is there, do nothing) are never taken.
LifecycleInTurn ==
    \A w \in World : Running(w) /\ down[w] # <<>> =>
        LET m == Head(down[w]).packet IN
        /\ m.type = "CREATE_PARTY" => replica[w][m.id] = None
        /\ m.type = "DESTROY_PARTY" => replica[w][m.id] # None

\* A party that ended is eventually gone from every world server that stays up,
\* unless its number is taken again first.
EndedPartiesForgotten ==
    \A w \in World, p \in PartyIndex :
        party[p] = None ~> (replica[w][p] = None \/ party[p] # None \/ ~Running(w))

\* RTPartyManagerCreatePartyRemote asserts that no member of a new party is still
\* linked to another one (assert(!DictionaryLookup(...))).
CreateAssertHolds == \A w \in World : health[w] # "assert(!DictionaryLookup)"

\* RTWorldDespawnMob asserts that the party of a character with a party ID exists
\* (assert(Party)).
KillAssertHolds == \A w \in World : health[w] # "assert(Party)"
=============================================================================
