------------------------------- MODULE PartySvr -------------------------------
(***************************************************************************)
(* The party server (PartySvr/), the one process that decides who is in    *)
(* which party.  It owns an RTPartyManager (RuntimeLib/PartyManager.c) and *)
(* the table CharacterToWorldServer, and it is a single-threaded event     *)
(* loop: every handler of a W2P packet and every timer tick runs to its    *)
(* end before the next one, so each is one action here.                    *)
(*                                                                         *)
(* The world servers forward what their clients say without checking it    *)
(* against party state, hence a packet may carry any character.            *)
(*                                                                         *)
(* Abstractions.  A member keeps its character and the world server it is  *)
(* reached through; level, name, style and dungeon are payload.  Only      *)
(* parties of type NORMAL exist here: solo dungeon parties are created by  *)
(* the world servers and never reach this process.  Timestamps are left    *)
(* out: whether an invitation has expired when the timer ticks is a        *)
(* choice.  assert() is active; with NDEBUG the null party it guards       *)
(* is dereferenced at the next expiry instead.                             *)
(***************************************************************************)
EXTENDS Integers, Sequences, FiniteSets, SequencesExt

CONSTANTS
    Character,      \* character indices
    World,          \* node indices of the world servers
    MaxPartyCount,  \* PartySvr.MaxPartyCount: blocks of each pool
    MaxMembers,     \* RUNTIME_PARTY_MAX_MEMBER_COUNT
    None            \* NULL, a free block, and WorldServerIndex 0

\* Block 0 of each pool is reserved at creation and stands for "null".
PartyIndex == 1 .. MaxPartyCount - 1

Member     == [char : Character, world : World \cup {None}]
Party      == [leader : Character, members : Seq(Member)]
Invitation == [inviter : Character, party : PartyIndex, member : Member]

ASSUME SizeAssumption ==
    /\ IsFiniteSet(Character)
    /\ MaxPartyCount \in Nat \ {0}
    /\ MaxMembers \in Nat \ {0, 1}

ASSUME NoneAssumption ==
    /\ None \notin World
    /\ None \notin PartyIndex
    /\ None \notin Party
    /\ None \notin Invitation

VARIABLES
    party,        \* PartyPool: the record in each block, None when it is free
    charToParty,  \* CharacterToPartyEntity
    invite,       \* PartyInvitationPool
    charToInvite, \* CharacterToPartyInvite
    charToWorld,  \* CharacterToWorldServer
    status,       \* "running", or how the process died
    sent          \* the packets the last step handed to the IPC socket, in order

roster == <<party, charToParty>>
vars   == <<party, charToParty, invite, charToInvite, charToWorld, status, sent>>

-----------------------------------------------------------------------------
(* The party manager.                                                       *)

Chars(rec) == {rec.members[k].char : k \in DOMAIN rec.members}
Slot(rec, c) == {k \in DOMAIN rec.members : rec.members[k].char = c}

FreeBlocks(pool) == {i \in PartyIndex : pool[i] = None}

\* MemoryPoolReserveNext hands out the free block of the lowest index.
IsNextBlock(pool, i) ==
    /\ i \in FreeBlocks(pool)
    /\ \A j \in FreeBlocks(pool) : i <= j

GetPartyByCharacter(c) ==
    IF charToParty[c] # None /\ party[charToParty[c]] # None
      THEN charToParty[c] ELSE None

\* Fault: the founder is not recorded as the leader.
NewPartyLeaderless(m) == [leader |-> None, members |-> <<m>>]

NewParty(m) == [leader |-> m.char, members |-> <<m>>]

\* Fault: the dictionary is not consulted.
CanAddMemberTwice(rec, m) == Len(rec.members) < MaxMembers

CanAddMember(rec, m) ==
    Len(rec.members) < MaxMembers /\ charToParty[m.char] = None

WithMember(rec, m) == [rec EXCEPT !.members = Append(@, m)]

WithoutSlot(rec, k) == [rec EXCEPT !.members = RemoveAt(@, k)]

WithWorld(rec, k, w) == [rec EXCEPT !.members[k].world = w]

\* Fault: the block is freed and the members stay linked to it.
DestroyPartyKeepingKeys(p, rec, map) ==
    party' = [party EXCEPT ![p] = None] /\ charToParty' = map

\* DestroyParty unlinks the members it lists, then frees the block.
DestroyParty(p, rec, map) ==
    /\ party' = [party EXCEPT ![p] = None]
    /\ charToParty' = [c \in Character |-> IF c \in Chars(rec) THEN None ELSE map[c]]

\* Fault: the key is removed and the block is never released.
ReleaseInviteLeaking(c) ==
    charToInvite' = [charToInvite EXCEPT ![c] = None] /\ UNCHANGED invite

ReleaseInvite(c) ==
    /\ invite' = [invite EXCEPT ![charToInvite[c]] = None]
    /\ charToInvite' = [charToInvite EXCEPT ![c] = None]

\* What every handler checks before it touches an invitation.
HasInvite(c) == charToInvite[c] # None /\ invite[charToInvite[c]] # None

-----------------------------------------------------------------------------
(* Packets to the world servers, without what they only show to clients.   *)
(* A unicast to WorldServerIndex 0 names no node and is dropped by the     *)
(* master server.                                                          *)

Broadcast == World
To(w) == {w} \ {None}

\* Faults: the wrong packet is initialised; the record is broadcast after it was cleared.
CreateMsgAsInfo(p, rec) == [type |-> "PARTY_INFO", to |-> Broadcast, id |-> p, party |-> rec]
DestroyMsgCleared(p, rec) ==
    [type |-> "DESTROY_PARTY", to |-> Broadcast, id |-> p, party |-> [rec EXCEPT !.members = <<>>]]

CreateMsg(p, rec)  == [type |-> "CREATE_PARTY", to |-> Broadcast, id |-> p, party |-> rec]
DestroyMsg(p, rec) == [type |-> "DESTROY_PARTY", to |-> Broadcast, id |-> p, party |-> rec]
InfoMsg(p, rec)    == [type |-> "PARTY_INFO", to |-> Broadcast, id |-> p, party |-> rec]
DataMsg            == [type |-> "PARTY_DATA", to |-> Broadcast]

InviteMsg(src, tgt) ==
    [type |-> "PARTY_INVITE", to |-> To(tgt.world), source |-> src, target |-> tgt]
InviteAckMsg(w, ok) == [type |-> "PARTY_INVITE_ACK", to |-> To(w), success |-> ok]
ConfirmMsg(w, c, ok, p) ==
    [type |-> "PARTY_INVITE_CONFIRM", to |-> To(w), char |-> c, success |-> ok, id |-> p]
TimeoutMsg(w, c, accept, cancel) ==
    [type |-> "PARTY_INVITE_TIMEOUT", to |-> To(w), char |-> c, accept |-> accept, cancel |-> cancel]
CancelMsg(w) == [type |-> "PARTY_INVITE_CANCEL", to |-> To(w)]
LeaveMsg(p, m) == [type |-> "PARTY_LEAVE", to |-> To(m.world), id |-> p, char |-> m.char]
LeaveAckMsg(w, c, ok) == [type |-> "PARTY_LEAVE_ACK", to |-> To(w), char |-> c, result |-> ok]
LeaderMsg(p, m, c) == [type |-> "PARTY_CHANGE_LEADER", to |-> To(m.world), id |-> p, char |-> c]
LeaderAckMsg(w, ok) == [type |-> "PARTY_CHANGE_LEADER_ACK", to |-> To(w), result |-> ok]
ConnectMsg(w, c, p) == [type |-> "CLIENT_CONNECT", to |-> To(w), char |-> c, id |-> p]
RelayMsg(m) == [type |-> "BROADCAST_TO_CHARACTER", to |-> To(m.world), char |-> m.char]

\* One packet per member of a party, in member order.
ForEach(rec, Msg(_)) == [k \in DOMAIN rec.members |-> Msg(rec.members[k])]

-----------------------------------------------------------------------------
Init ==
    /\ party = [i \in PartyIndex |-> None]
    /\ charToParty = [c \in Character |-> None]
    /\ invite = [i \in PartyIndex |-> None]
    /\ charToInvite = [c \in Character |-> None]
    /\ charToWorld = [c \in Character |-> None]
    /\ status = "running"
    /\ sent = <<>>

Crash(how) ==
    /\ status' = how
    /\ sent' = <<>>
    /\ UNCHANGED <<party, charToParty, invite, charToInvite, charToWorld>>

-----------------------------------------------------------------------------
(* A character enters or leaves a world server.                            *)

ClientConnect(w, c) ==
    /\ charToWorld' = [charToWorld EXCEPT ![c] = w]
    /\ LET p == GetPartyByCharacter(c) IN
         \/ /\ p = None
            /\ sent' = <<ConnectMsg(w, c, None)>>
            /\ UNCHANGED party
         \/ /\ p # None
            /\ \E k \in Slot(party[p], c) :
                 LET rec == WithWorld(party[p], k, w) IN
                 /\ party' = [party EXCEPT ![p] = rec]
                 /\ sent' = <<ConnectMsg(w, c, p), DataMsg>>
    /\ UNCHANGED <<charToParty, invite, charToInvite, status>>

\* The last member to go offline takes the party with it.
ClientDisconnect(c) ==
    /\ charToWorld[c] # None
    /\ charToWorld' = [charToWorld EXCEPT ![c] = None]
    /\ LET p == GetPartyByCharacter(c)
           online == {m \in Chars(party[p]) : charToWorld'[m] # None} IN
         \/ /\ p = None
            /\ sent' = <<>>
            /\ UNCHANGED roster
         \/ /\ p # None /\ online = {}
            /\ DestroyParty(p, party[p], charToParty)
            /\ sent' = <<DestroyMsg(p, party[p])>>
         \/ /\ p # None /\ online # {}
            /\ \E k \in Slot(party[p], c) :
                 LET rec == WithWorld(party[p], k, None) IN
                 /\ party' = [party EXCEPT ![p] = rec]
                 /\ sent' = <<DataMsg>>
            /\ UNCHANGED charToParty
    /\ UNCHANGED <<invite, charToInvite, status>>

-----------------------------------------------------------------------------
(* W2P PARTY_INVITE from world server w.                                   *)

Invitable(c) == charToParty[c] = None /\ charToInvite[c] = None

InviteRejected(w, src, tgt) ==
    /\ \/ ~Invitable(tgt.char)
       \/ LET p == GetPartyByCharacter(src.char) IN
            p # None /\ Len(party[p].members) >= MaxMembers
    /\ sent' = <<InviteAckMsg(w, FALSE)>>
    /\ UNCHANGED <<party, charToParty, invite, charToInvite, charToWorld, status>>

\* The invitation is recorded for the target.
RecordInvite(i, p, src, tgt) ==
    /\ invite' = [invite EXCEPT ![i] = [inviter |-> src.char, party |-> p, member |-> tgt]]
    /\ charToInvite' = [charToInvite EXCEPT ![tgt.char] = i]

InviteIntoParty(src, tgt) ==
    /\ Invitable(tgt.char)
    /\ LET p == GetPartyByCharacter(src.char) IN
         /\ p # None
         /\ Len(party[p].members) < MaxMembers
         /\ \E i \in PartyIndex :
              IsNextBlock(invite, i) /\ RecordInvite(i, p, src, tgt)
    /\ sent' = <<InviteMsg(src, tgt)>>
    /\ UNCHANGED <<party, charToParty, charToWorld, status>>

\* An inviter without a party founds one and is its leader.  (AddMember cannot
\* refuse the founder: RosterConsistent makes the second conjunct imply the third.)
InviteFounding(src, tgt) ==
    /\ Invitable(tgt.char)
    /\ GetPartyByCharacter(src.char) = None
    /\ charToParty[src.char] = None
    /\ \E p, i \in PartyIndex :
         /\ IsNextBlock(party, p) /\ IsNextBlock(invite, i)
         /\ party' = [party EXCEPT ![p] = NewParty(src)]
         /\ charToParty' = [charToParty EXCEPT ![src.char] = p]
         /\ RecordInvite(i, p, src, tgt)
         /\ sent' = <<CreateMsg(p, NewParty(src)), InviteMsg(src, tgt)>>
    /\ UNCHANGED <<charToWorld, status>>

\* Neither ReserveNext is checked for NULL: a full pool is a null dereference.
InvitePoolExhausted(src, tgt) ==
    /\ Invitable(tgt.char)
    /\ LET p == GetPartyByCharacter(src.char) IN
         \/ p = None /\ FreeBlocks(party) = {}
         \/ p # None /\ Len(party[p].members) < MaxMembers /\ FreeBlocks(invite) = {}
         \/ p = None /\ FreeBlocks(invite) = {}
    /\ Crash("null dereference")

PartyInvite(w, src, tgt) ==
    \/ InviteRejected(w, src, tgt)
    \/ InviteIntoParty(src, tgt)
    \/ InviteFounding(src, tgt)
    \/ InvitePoolExhausted(src, tgt)

\* W2P PARTY_INVITE_ACK: the target's world server could, or could not, show the
\* invitation.  A refusal destroys the source's party, however large it is; the
\* PARTY_DATA that follows still reads the released block.
InviteAck(src, tgt, success) ==
    LET c == tgt.char
        p == GetPartyByCharacter(src.char)
        known == HasInvite(c) /\ p # None IN
    /\ \/ /\ ~known
          /\ sent' = <<InviteAckMsg(src.world, FALSE)>>
          /\ UNCHANGED <<party, charToParty, invite, charToInvite>>
       \/ /\ known /\ success
          /\ invite' = [invite EXCEPT ![charToInvite[c]].member = tgt]
          /\ sent' = <<InviteAckMsg(src.world, TRUE), DataMsg>>
          /\ UNCHANGED <<party, charToParty, charToInvite>>
       \/ /\ known /\ ~success
          /\ ReleaseInvite(c)
          /\ DestroyParty(p, party[p], charToParty)
          /\ sent' = <<DestroyMsg(p, party[p]),
                       InviteAckMsg(src.world, FALSE), DataMsg>>
    /\ UNCHANGED <<charToWorld, status>>

\* A party that nobody but its founder is in does not outlive its invitation.
TooSmall(rec) == Len(rec.members) < 2

\* W2P PARTY_INVITE_CANCEL: c withdraws the invitation of target.  That the
\* invitation is one of c's party is not checked.
InviteCancel(w, c, target, targetWorld) ==
    LET p == GetPartyByCharacter(c) IN
    /\ HasInvite(target)
    /\ p # None
    /\ ReleaseInvite(target)
    /\ \/ /\ TooSmall(party[p])
          /\ DestroyParty(p, party[p], charToParty)
          /\ sent' = <<TimeoutMsg(targetWorld, target, FALSE, TRUE),
                       DestroyMsg(p, party[p]), CancelMsg(w)>>
       \/ /\ ~TooSmall(party[p])
          /\ sent' = <<TimeoutMsg(targetWorld, target, FALSE, TRUE), CancelMsg(w)>>
          /\ UNCHANGED roster
    /\ UNCHANGED <<charToWorld, status>>

\* W2P PARTY_INVITE_CONFIRM: the invited c answers inviter.  The party joined is
\* the one inviter is in now, and c is told of success even when AddMember failed.
ConfirmUnknown(w, c, inviter) ==
    /\ ~HasInvite(c) \/ GetPartyByCharacter(inviter) = None
    /\ sent' = <<ConfirmMsg(w, c, FALSE, None)>>
    /\ UNCHANGED <<party, charToParty, invite, charToInvite, charToWorld, status>>

ConfirmAccept(w, c, inviter, inviterWorld) ==
    LET p == GetPartyByCharacter(inviter)
        m == invite[charToInvite[c]].member
        rec == IF CanAddMember(party[p], m) THEN WithMember(party[p], m) ELSE party[p] IN
    /\ HasInvite(c) /\ p # None
    /\ party' = [party EXCEPT ![p] = rec]
    /\ charToParty' = IF CanAddMember(party[p], m)
                        THEN [charToParty EXCEPT ![m.char] = p] ELSE charToParty
    /\ ReleaseInvite(c)
    /\ sent' = <<InfoMsg(p, rec), TimeoutMsg(inviterWorld, inviter, TRUE, FALSE),
                 ConfirmMsg(w, c, TRUE, p), DataMsg>>
    /\ UNCHANGED <<charToWorld, status>>

ConfirmDecline(w, c, inviter, inviterWorld) ==
    LET p == GetPartyByCharacter(inviter)
        note == TimeoutMsg(inviterWorld, inviter, FALSE, FALSE)
        answer == <<ConfirmMsg(w, c, FALSE, p), DataMsg>> IN
    /\ HasInvite(c) /\ p # None
    /\ ReleaseInvite(c)
    /\ \/ /\ TooSmall(party[p])
          /\ DestroyParty(p, party[p], charToParty)
          /\ sent' = <<note, DestroyMsg(p, party[p])>> \o answer
       \/ /\ ~TooSmall(party[p])
          /\ sent' = <<note>> \o answer
          /\ UNCHANGED roster
    /\ UNCHANGED <<charToWorld, status>>

-----------------------------------------------------------------------------
\* W2P PARTY_LEAVE.  The leader's place is not refilled, and each PARTY_LEAVE
\* names the member it is sent for.
Leave(w, c) ==
    LET p == GetPartyByCharacter(c) IN
    /\ \/ /\ p = None
          /\ sent' = <<LeaveAckMsg(w, c, FALSE)>>
          /\ UNCHANGED roster
       \/ /\ p # None
          /\ \E k \in Slot(party[p], c) :
               LET rec == WithoutSlot(party[p], k)
                   map == [charToParty EXCEPT ![c] = None]
                   notes == <<LeaveAckMsg(w, c, TRUE)>> \o
                            ForEach(rec, LAMBDA m : LeaveMsg(p, m)) IN
               \/ /\ TooSmall(rec)
                  /\ DestroyParty(p, rec, map)
                  /\ sent' = Append(notes, DestroyMsg(p, rec))
               \/ /\ ~TooSmall(rec)
                  /\ party' = [party EXCEPT ![p] = rec]
                  /\ charToParty' = map
                  /\ sent' = Append(notes, DataMsg)
    /\ UNCHANGED <<invite, charToInvite, charToWorld, status>>

\* W2P PARTY_CHANGE_LEADER for the party in block p.
ChangeLeader(w, p, c) ==
    LET listed == party[p] # None /\ c \in Chars(party[p]) IN
    /\ \/ /\ listed
          /\ party' = [party EXCEPT ![p].leader = c]
          /\ sent' = <<LeaderAckMsg(w, TRUE)>> \o
                     ForEach(party[p], LAMBDA m : LeaderMsg(p, m, c))
       \/ /\ ~listed
          /\ sent' = <<LeaderAckMsg(w, FALSE)>>
          /\ UNCHANGED party
    /\ UNCHANGED <<charToParty, invite, charToInvite, charToWorld, status>>

\* W2P PARTY_DATA refreshes what is known of one member.
PartyData(m) ==
    LET p == GetPartyByCharacter(m.char) IN
    /\ p # None
    /\ \E k \in Slot(party[p], m.char) :
         LET rec == WithWorld(party[p], k, m.world) IN
         /\ party' = [party EXCEPT ![p] = rec]
         /\ sent' = <<DataMsg>>
    /\ UNCHANGED <<charToParty, invite, charToInvite, charToWorld, status>>

\* W2P BROADCAST_TO_PARTY.
BroadcastToParty(p) ==
    /\ party[p] # None
    /\ sent' = ForEach(party[p], RelayMsg)
    /\ UNCHANGED <<party, charToParty, invite, charToInvite, charToWorld, status>>

-----------------------------------------------------------------------------
(* ServerOnUpdate, the timer.  It walks the keys of CharacterToPartyInvite, *)
(* but DictionaryKeyIteratorNext never advances Iterator.Value: every round *)
(* looks at the invitation of the key that happens to hash first.           *)

Invited == {c \in Character : charToInvite[c] # None}

\* A player is told only while a world server is known for it.
TimeoutNotes(inv) ==
    LET note(c) == IF charToWorld[c] = None THEN <<>>
                   ELSE <<TimeoutMsg(charToWorld[c], c, FALSE, FALSE)>>
    IN note(inv.inviter) \o note(inv.member.char)

\* The first invitation's party is gone: assert(Party) fails.
TickAsserts(first) ==
    /\ party[invite[charToInvite[first]].party] = None
    /\ Crash("assert(Party)")

\* An expired invitation is dropped together with its one-member party; a second
\* round then fetches the released block and dereferences NULL.
TickExpires(first) ==
    LET inv == invite[charToInvite[first]]
        rec == party[inv.party] IN
    /\ rec # None
    /\ TooSmall(rec)
    /\ \/ /\ Invited = {first}
          /\ ReleaseInvite(first)
          /\ DestroyParty(inv.party, rec, charToParty)
          /\ sent' = Append(TimeoutNotes(inv), DestroyMsg(inv.party, rec))
          /\ UNCHANGED <<charToWorld, status>>
       \/ /\ Invited # {first}
          /\ Crash("null dereference")

\* The invitation of a larger party is announced as expired in every round of
\* every tick, and stays.
TickRepeats(first) ==
    LET inv == invite[charToInvite[first]]
        notes == TimeoutNotes(inv) IN
    /\ party[inv.party] # None
    /\ ~TooSmall(party[inv.party])
    /\ sent' = [k \in 1 .. Cardinality(Invited) * Len(notes) |-> notes[((k - 1) % Len(notes)) + 1]]
    /\ UNCHANGED <<party, charToParty, invite, charToInvite, charToWorld, status>>

Tick == \E first \in Invited :
    TickAsserts(first) \/ TickExpires(first) \/ TickRepeats(first)

-----------------------------------------------------------------------------
\* A world server stamps its own node index into the members it describes; the
\* world server of an invitation's target is what the client said.
Located == [char : Character, world : World]

OnPacket ==
    \/ \E w \in World, c \in Character :
         ClientConnect(w, c) \/ Leave(w, c)
    \/ \E c \in Character : ClientDisconnect(c)
    \/ \E src, tgt \in Located : PartyInvite(src.world, src, tgt)
    \/ \E src, tgt \in Located, ok \in BOOLEAN : InviteAck(src, tgt, ok)
    \/ \E w, v \in World, c, d \in Character :
         InviteCancel(w, c, d, v) \/ ConfirmUnknown(w, c, d)
           \/ ConfirmAccept(w, c, d, v) \/ ConfirmDecline(w, c, d, v)
    \/ \E w \in World, p \in PartyIndex, c \in Character : ChangeLeader(w, p, c)
    \/ \E m \in Located : PartyData(m)
    \/ \E p \in PartyIndex : BroadcastToParty(p)

Next == status = "running" /\ (OnPacket \/ Tick)

Spec == Init /\ [][Next]_vars

-----------------------------------------------------------------------------
(* Properties.                                                              *)

\* Types of the server's state: the packets sent are not stored by it.
TypeOK ==
    /\ party \in [PartyIndex -> Party \cup {None}]
    /\ charToParty \in [Character -> PartyIndex \cup {None}]
    /\ invite \in [PartyIndex -> Invitation \cup {None}]
    /\ charToInvite \in [Character -> PartyIndex \cup {None}]
    /\ charToWorld \in [Character -> World \cup {None}]
    /\ status \in {"running", "assert(Party)", "null dereference"}

\* The dictionary and the member lists agree: every listed member maps to the
\* party that lists it and every mapped character is listed there.
DictionaryListed ==
    \A c \in Character :
        charToParty[c] # None =>
            party[charToParty[c]] # None /\ c \in Chars(party[charToParty[c]])

ListedInDictionary ==
    \A p \in PartyIndex : party[p] # None =>
        \A c \in Chars(party[p]) : charToParty[c] = p

\* No party is empty, overfull, or lists a character twice.
MembersWellFormed ==
    \A p \in PartyIndex : party[p] # None =>
        /\ Len(party[p].members) \in 1 .. MaxMembers
        /\ \A j, k \in DOMAIN party[p].members :
             party[p].members[j].char = party[p].members[k].char => j = k

\* Whatever order invitations, answers, departures and disconnects come in, the
\* member lists and the character dictionary of the party manager describe the
\* same membership (RTPartyManagerAddMember, RemoveMember and DestroyParty each
\* have to update both).
RosterConsistent == DictionaryListed /\ ListedInDictionary /\ MembersWellFormed

\* Reserved invitations and the dictionary are in bijection: no handler leaks a
\* block of the invitation pool or keeps a key whose block was released.
InvitesIndexed ==
    /\ \A c \in Character : charToInvite[c] # None =>
         invite[charToInvite[c]] # None /\ invite[charToInvite[c]].member.char = c
    /\ \A i \in PartyIndex : invite[i] # None =>
         charToInvite[invite[i].member.char] = i

Created == {sent[k].id : k \in {j \in DOMAIN sent : sent[j].type = "CREATE_PARTY"}}
Destroyed == {sent[k].id : k \in {j \in DOMAIN sent : sent[j].type = "DESTROY_PARTY"}}
Reserved == {p \in PartyIndex : party[p] # None}

\* Every party that appears or disappears in a step of a live server is announced
\* in that step, to every world server, and nothing else is: the replicas of the
\* world servers have only these packets to go by.
LifecycleAnnounced ==
    [][status' = "running" =>
        /\ Created' = Reserved' \ Reserved
        /\ Destroyed' = Reserved \ Reserved']_vars

\* A destroyed party is announced with exactly the members its destruction
\* unlinks, but for the one whose departure caused it: that is the list the world
\* servers unlink (RTPartyManagerDestroyPartyRemote).
DestroyNamesMembers ==
    [][\A k \in DOMAIN sent' : sent'[k].type = "DESTROY_PARTY" =>
         LET p == sent'[k].id
             gone == {c \in Character : charToParty[c] = p /\ charToParty'[c] = None} IN
         /\ Chars(sent'[k].party) \subseteq gone
         /\ Cardinality(gone \ Chars(sent'[k].party)) <= 1]_vars

\* PartySvr/main.c asserts in every timer tick that the party of the invitation
\* under examination still exists (assert(Party)).
TickAssertHolds == status # "assert(Party)"

\* The manager implements the promise of PartyRoster: its memberships are the
\* dictionary, and no handler does more to them than one of its steps.
Roster == INSTANCE PartyRoster WITH memberOf <- charToParty
RosterSpec == Roster!Spec

=============================================================================
