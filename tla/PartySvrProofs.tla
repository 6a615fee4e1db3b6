---------------------------- MODULE PartySvrProofs ----------------------------
(***************************************************************************)
(* Theorems about PartySvr for every number of characters, world servers,  *)
(* pool blocks and party places.                                           *)
(***************************************************************************)
EXTENDS PartySvr, SequenceTheorems, FiniteSetTheorems, TLAPS

\* memmove closes the gap: what follows the removed slot moves down by one.
LEMMA RemoveAtFacts ==
    ASSUME NEW S, NEW s \in Seq(S), NEW k \in 1 .. Len(s)
    PROVE  /\ RemoveAt(s, k) \in Seq(S)
           /\ Len(RemoveAt(s, k)) = Len(s) - 1
           /\ \A i \in 1 .. Len(s) - 1 :
                RemoveAt(s, k)[i] = IF i < k THEN s[i] ELSE s[i + 1]
<1> DEFINE f == SubSeq(s, 1, k - 1)
           g == SubSeq(s, k + 1, Len(s))
<1>1. /\ f \in Seq(S)
      /\ Len(f) = k - 1
      /\ \A i \in 1 .. k - 1 : f[i] = s[i]
  BY SubSeqProperties
<1>2. /\ g \in Seq(S)
      /\ Len(g) = Len(s) - k
      /\ \A i \in 1 .. Len(s) - k : g[i] = s[k + i]
  BY SubSeqProperties
<1>3. RemoveAt(s, k) = f \o g
  BY DEF RemoveAt
<1> HIDE DEF f, g
<1>4. /\ f \o g \in Seq(S)
      /\ Len(f \o g) = Len(f) + Len(g)
      /\ \A i \in 1 .. Len(f) + Len(g) :
           (f \o g)[i] = IF i <= Len(f) THEN f[i] ELSE g[i - Len(f)]
  BY <1>1, <1>2, ConcatProperties
<1> QED
  BY <1>1, <1>2, <1>3, <1>4

-----------------------------------------------------------------------------
(* What the party manager's operations do to one party record.             *)

\* A record with between one and MaxMembers members, all different.
WellFormed(rec) ==
    /\ Len(rec.members) \in 1 .. MaxMembers
    /\ \A j, k \in DOMAIN rec.members :
         rec.members[j].char = rec.members[k].char => j = k

LEMMA CharsFacts ==
    ASSUME NEW rec \in Party
    PROVE  /\ Chars(rec) \subseteq Character
           /\ \A k \in DOMAIN rec.members : rec.members[k].char \in Chars(rec)
<1>1. \A k \in DOMAIN rec.members : rec.members[k] \in Member
  <2>1. rec.members \in Seq(Member)
    BY DEF Party
  <2> QED
    BY <2>1, LenProperties
<1> QED
  BY <1>1 DEF Chars, Member

LEMMA NewPartyFacts ==
    ASSUME NEW m \in Member
    PROVE  /\ NewParty(m) \in Party
           /\ WellFormed(NewParty(m))
           /\ Chars(NewParty(m)) = {m.char}
           /\ Len(NewParty(m).members) = 1
  BY SizeAssumption DEF NewParty, Party, Member, WellFormed, Chars

LEMMA WithMemberFacts ==
    ASSUME NEW rec \in Party, NEW m \in Member,
           WellFormed(rec), Len(rec.members) < MaxMembers, m.char \notin Chars(rec)
    PROVE  /\ WithMember(rec, m) \in Party
           /\ WellFormed(WithMember(rec, m))
           /\ Chars(WithMember(rec, m)) = Chars(rec) \cup {m.char}
           /\ Len(WithMember(rec, m).members) = Len(rec.members) + 1
<1> DEFINE s == rec.members
           t == Append(s, m)
<1>1. s \in Seq(Member) /\ Len(s) \in Nat /\ DOMAIN s = 1 .. Len(s)
  BY DEF Party
<1>2. /\ t \in Seq(Member)
      /\ Len(t) = Len(s) + 1
      /\ \A i \in 1 .. Len(s) : t[i] = s[i]
      /\ t[Len(s) + 1] = m
  BY <1>1, AppendProperties
<1>3. DOMAIN t = 1 .. Len(s) + 1
  BY <1>2
<1>4. WithMember(rec, m) \in Party /\ WithMember(rec, m).members = t
  BY <1>2 DEF WithMember, Party
<1> HIDE DEF t
<1>5. \A i \in 1 .. Len(s) : t[i].char \in Chars(rec)
  BY <1>1, <1>2 DEF Chars
<1>6. Chars(WithMember(rec, m)) = Chars(rec) \cup {m.char}
  <2>1. Chars(WithMember(rec, m)) = {t[k].char : k \in 1 .. Len(s) + 1}
    BY <1>3, <1>4 DEF Chars
  <2>2. \A x \in Chars(rec) : \E k \in 1 .. Len(s) + 1 : x = t[k].char
    BY <1>1, <1>2 DEF Chars
  <2> QED
    BY <1>1, <1>2, <1>5, <2>1, <2>2
<1>7. \A j, k \in DOMAIN t : t[j].char = t[k].char => j = k
  BY <1>1, <1>2, <1>3, <1>5 DEF WellFormed
<1> QED
  BY <1>1, <1>2, <1>3, <1>4, <1>6, <1>7, SizeAssumption DEF WellFormed

LEMMA WithoutSlotFacts ==
    ASSUME NEW rec \in Party, NEW k \in DOMAIN rec.members, WellFormed(rec)
    PROVE  /\ WithoutSlot(rec, k) \in Party
           /\ Len(WithoutSlot(rec, k).members) = Len(rec.members) - 1
           /\ Len(rec.members) > 1 => WellFormed(WithoutSlot(rec, k))
           /\ Chars(WithoutSlot(rec, k)) = Chars(rec) \ {rec.members[k].char}
<1> DEFINE s == rec.members
           t == RemoveAt(s, k)
<1>1. s \in Seq(Member) /\ Len(s) \in Nat /\ DOMAIN s = 1 .. Len(s)
  BY DEF Party
<1>2. /\ t \in Seq(Member)
      /\ Len(t) = Len(s) - 1
      /\ \A i \in 1 .. Len(s) - 1 : t[i] = IF i < k THEN s[i] ELSE s[i + 1]
  BY <1>1, RemoveAtFacts
<1>3. WithoutSlot(rec, k) \in Party /\ WithoutSlot(rec, k).members = t
  BY <1>2 DEF WithoutSlot, Party
<1> HIDE DEF t
<1>4. DOMAIN t = 1 .. Len(s) - 1
  BY <1>1, <1>2
<1> DEFINE from(i) == IF i < k THEN i ELSE i + 1
<1>a. \A i \in DOMAIN t : from(i) \in DOMAIN s /\ from(i) # k /\ t[i] = s[from(i)]
  BY <1>1, <1>2, <1>4
<1>b. \A i, j \in DOMAIN s : s[i].char = s[j].char => i = j
  BY DEF WellFormed
<1>5. \A i, j \in DOMAIN t : t[i].char = t[j].char => i = j
  <2> SUFFICES ASSUME NEW i \in DOMAIN t, NEW j \in DOMAIN t, t[i].char = t[j].char
               PROVE  i = j
    OBVIOUS
  <2>1. from(i) = from(j)
    <3> HIDE DEF from
    <3> QED
      BY <1>a, <1>b
  <2> QED
    BY <1>1, <1>4, <2>1
<1>6. \A i \in 1 .. Len(s) : i # k => \E j \in DOMAIN t : t[j] = s[i]
  <2> SUFFICES ASSUME NEW i \in 1 .. Len(s), i # k
               PROVE  \E j \in DOMAIN t : t[j] = s[i]
    OBVIOUS
  <2>1. CASE i < k
    BY <1>1, <1>2, <1>4, <2>1
  <2>2. CASE i > k
    <3>1. i - 1 \in DOMAIN t /\ t[i - 1] = s[i]
      BY <1>1, <1>2, <1>4, <2>2
    <3> QED
      BY <3>1
  <2> QED
    BY <1>1, <2>1, <2>2
<1>7. \A j \in DOMAIN t : t[j].char \in Chars(rec) /\ t[j].char # s[k].char
  <2> HIDE DEF from
  <2> QED
    BY <1>a, <1>b DEF Chars
<1>8. Chars(WithoutSlot(rec, k)) = Chars(rec) \ {s[k].char}
  BY <1>1, <1>3, <1>6, <1>7 DEF Chars
<1> QED
  <2>1. Len(s) \in 1 .. MaxMembers
    BY DEF WellFormed
  <2> QED
    BY <1>1, <1>2, <1>3, <1>5, <1>8, <2>1, SizeAssumption DEF WellFormed

LEMMA WithWorldFacts ==
    ASSUME NEW rec \in Party, NEW k \in DOMAIN rec.members, NEW w \in World \cup {None},
           WellFormed(rec)
    PROVE  /\ WithWorld(rec, k, w) \in Party
           /\ Len(WithWorld(rec, k, w).members) = Len(rec.members)
           /\ WellFormed(WithWorld(rec, k, w))
           /\ Chars(WithWorld(rec, k, w)) = Chars(rec)
<1> DEFINE s == rec.members
           m == [s[k] EXCEPT !.world = w]
           t == [s EXCEPT ![k] = m]
<1>1. s \in Seq(Member) /\ Len(s) \in Nat /\ DOMAIN s = 1 .. Len(s)
  BY DEF Party
<1>2. m \in Member /\ m.char = s[k].char
  <2>1. s[k] \in Member
    BY <1>1
  <2> QED
    BY <2>1 DEF Member
<1> HIDE DEF m
<1>3. /\ t \in Seq(Member) /\ Len(t) = Len(s)
      /\ \A j \in 1 .. Len(s) : t[j] = IF j = k THEN m ELSE s[j]
  BY <1>1, <1>2, ExceptSeq
<1>4. WithWorld(rec, k, w) = [rec EXCEPT !.members = t]
  BY DEF WithWorld, Party, m
<1>5. WithWorld(rec, k, w) \in Party /\ WithWorld(rec, k, w).members = t
  BY <1>3, <1>4 DEF Party
<1> HIDE DEF t
<1>6. DOMAIN t = 1 .. Len(s) /\ \A j \in 1 .. Len(s) : t[j].char = s[j].char
  BY <1>1, <1>2, <1>3
<1>7. Chars(WithWorld(rec, k, w)) = Chars(rec)
  BY <1>1, <1>5, <1>6 DEF Chars
<1> QED
  BY <1>1, <1>3, <1>5, <1>6, <1>7 DEF WellFormed

-----------------------------------------------------------------------------
(* Every step does one of six things to the roster.                        *)

\* A record is rewritten, but neither its members nor the dictionary change.
Refresh ==
    \E p \in PartyIndex, rec \in Party :
        /\ party[p] # None
        /\ WellFormed(rec) /\ Chars(rec) = Chars(party[p])
        /\ Len(rec.members) = Len(party[p].members)
        /\ party' = [party EXCEPT ![p] = rec]
        /\ UNCHANGED charToParty

Found ==
    \E p \in PartyIndex, m \in Member :
        /\ party[p] = None /\ charToParty[m.char] = None
        /\ party' = [party EXCEPT ![p] = NewParty(m)]
        /\ charToParty' = [charToParty EXCEPT ![m.char] = p]

Join ==
    \E p \in PartyIndex, m \in Member :
        /\ party[p] # None /\ CanAddMember(party[p], m)
        /\ party' = [party EXCEPT ![p] = WithMember(party[p], m)]
        /\ charToParty' = [charToParty EXCEPT ![m.char] = p]

Depart ==
    \E p \in PartyIndex : party[p] # None /\ \E k \in DOMAIN party[p].members :
        /\ Len(party[p].members) > 2
        /\ party' = [party EXCEPT ![p] = WithoutSlot(party[p], k)]
        /\ charToParty' = [charToParty EXCEPT ![party[p].members[k].char] = None]

Disband ==
    \E p \in PartyIndex :
        /\ party[p] # None
        /\ party' = [party EXCEPT ![p] = None]
        /\ charToParty' = [c \in Character |->
                             IF c \in Chars(party[p]) THEN None ELSE charToParty[c]]

RosterStep == Refresh \/ Found \/ Join \/ Depart \/ Disband \/ UNCHANGED roster

RosterType ==
    /\ party \in [PartyIndex -> Party \cup {None}]
    /\ charToParty \in [Character -> PartyIndex \cup {None}]

RosterInv == RosterType /\ RosterConsistent

LEMMA RosterStepInductive ==
    ASSUME RosterInv, RosterStep PROVE RosterInv'
<1> USE DEF RosterInv
<1>0. \A p \in PartyIndex : party[p] # None => party[p] \in Party /\ WellFormed(party[p])
  BY DEF RosterType, RosterConsistent, MembersWellFormed, WellFormed
<1>1. CASE UNCHANGED roster
  BY <1>1 DEF roster, RosterType, RosterConsistent, DictionaryListed, ListedInDictionary,
              MembersWellFormed
\* Membership in terms of the characters each record lists.
<1> DEFINE Goal ==
        /\ RosterType'
        /\ \A c \in Character : charToParty'[c] # None =>
             party'[charToParty'[c]] # None /\ c \in Chars(party'[charToParty'[c]])
        /\ \A p \in PartyIndex : party'[p] # None =>
             /\ \A c \in Chars(party'[p]) : charToParty'[c] = p
             /\ WellFormed(party'[p])
<1>2. Goal => RosterInv'
  BY DEF RosterConsistent, DictionaryListed, ListedInDictionary, MembersWellFormed, WellFormed
<1>3. CASE Refresh
  BY <1>0, <1>2, <1>3, NoneAssumption
     DEF Refresh, RosterType, RosterConsistent, DictionaryListed, ListedInDictionary
<1>4. CASE Found
  <2>1. PICK p \in PartyIndex, m \in Member :
          /\ party[p] = None /\ charToParty[m.char] = None
          /\ party' = [party EXCEPT ![p] = NewParty(m)]
          /\ charToParty' = [charToParty EXCEPT ![m.char] = p]
    BY <1>4 DEF Found
  <2>2. m.char \in Character
    BY DEF Member
  <2> QED
    BY <1>0, <1>2, <2>1, <2>2, NewPartyFacts, NoneAssumption
       DEF RosterType, RosterConsistent, DictionaryListed, ListedInDictionary
<1>5. CASE Join
  <2>1. PICK p \in PartyIndex, m \in Member :
          /\ party[p] # None /\ CanAddMember(party[p], m)
          /\ party' = [party EXCEPT ![p] = WithMember(party[p], m)]
          /\ charToParty' = [charToParty EXCEPT ![m.char] = p]
    BY <1>5 DEF Join
  <2>2. m.char \in Character
    BY DEF Member
  <2>3. /\ party'[p] \in Party /\ WellFormed(party'[p])
        /\ Chars(party'[p]) = Chars(party[p]) \cup {m.char}
    BY <1>0, <2>1, <2>2, WithMemberFacts, NoneAssumption
       DEF CanAddMember, RosterType, RosterConsistent, ListedInDictionary
  <2> QED
    BY <1>0, <1>2, <2>1, <2>2, <2>3, NoneAssumption
       DEF CanAddMember, RosterType, RosterConsistent, DictionaryListed, ListedInDictionary
<1>6. CASE Depart
  <2>1. PICK p \in PartyIndex : party[p] # None /\ \E k \in DOMAIN party[p].members :
          /\ Len(party[p].members) > 2
          /\ party' = [party EXCEPT ![p] = WithoutSlot(party[p], k)]
          /\ charToParty' = [charToParty EXCEPT ![party[p].members[k].char] = None]
    BY <1>6 DEF Depart
  <2>2. PICK k \in DOMAIN party[p].members :
          /\ Len(party[p].members) > 2
          /\ party' = [party EXCEPT ![p] = WithoutSlot(party[p], k)]
          /\ charToParty' = [charToParty EXCEPT ![party[p].members[k].char] = None]
    BY <2>1
  <2> DEFINE c0 == party[p].members[k].char
  <2>3. c0 \in Chars(party[p]) /\ c0 \in Character
    BY <1>0, <2>1, CharsFacts
  <2>4. /\ party'[p] \in Party
        /\ WellFormed(party'[p])
        /\ Chars(party'[p]) = Chars(party[p]) \ {c0}
    BY <1>0, <2>1, <2>2, WithoutSlotFacts DEF WellFormed, RosterType
  <2> HIDE DEF c0
  <2>5. charToParty' = [charToParty EXCEPT ![c0] = None]
    BY <2>2 DEF c0
  <2>6. party' = [party EXCEPT ![p] = party'[p]]
    BY <2>2 DEF RosterType
  <2> QED
    BY <1>0, <1>2, <2>1, <2>3, <2>4, <2>5, <2>6, NoneAssumption
       DEF RosterType, RosterConsistent, DictionaryListed, ListedInDictionary
<1>7. CASE Disband
  <2>1. PICK p \in PartyIndex :
          /\ party[p] # None
          /\ party' = [party EXCEPT ![p] = None]
          /\ charToParty' = [c \in Character |->
                               IF c \in Chars(party[p]) THEN None ELSE charToParty[c]]
    BY <1>7 DEF Disband
  <2>2. \A q \in PartyIndex : party[q] # None => Chars(party[q]) \subseteq Character
    BY <1>0, CharsFacts
  <2> QED
    BY <1>0, <1>2, <2>1, <2>2, NoneAssumption
       DEF RosterType, RosterConsistent, DictionaryListed, ListedInDictionary
<1> QED
  BY <1>1, <1>3, <1>4, <1>5, <1>6, <1>7 DEF RosterStep

-----------------------------------------------------------------------------
(* And one of four things to the invitations.                              *)

Record ==
    \E i \in PartyIndex, inv \in Invitation :
        /\ invite[i] = None /\ charToInvite[inv.member.char] = None
        /\ invite' = [invite EXCEPT ![i] = inv]
        /\ charToInvite' = [charToInvite EXCEPT ![inv.member.char] = i]

Redescribe ==
    \E c \in Character, m \in Member :
        /\ HasInvite(c) /\ m.char = c
        /\ invite' = [invite EXCEPT ![charToInvite[c]].member = m]
        /\ UNCHANGED charToInvite

Release == \E c \in Character : HasInvite(c) /\ ReleaseInvite(c)

InviteStep == Record \/ Redescribe \/ Release \/ UNCHANGED <<invite, charToInvite>>

InviteType ==
    /\ invite \in [PartyIndex -> Invitation \cup {None}]
    /\ charToInvite \in [Character -> PartyIndex \cup {None}]

InviteInv == InviteType /\ InvitesIndexed

LEMMA InviteStepInductive ==
    ASSUME InviteInv, InviteStep PROVE InviteInv'
<1> USE DEF InviteInv
<1>1. CASE UNCHANGED <<invite, charToInvite>>
  BY <1>1 DEF InviteType, InvitesIndexed
<1>2. CASE Record
  <2>1. PICK i \in PartyIndex, inv \in Invitation :
          /\ invite[i] = None /\ charToInvite[inv.member.char] = None
          /\ invite' = [invite EXCEPT ![i] = inv]
          /\ charToInvite' = [charToInvite EXCEPT ![inv.member.char] = i]
    BY <1>2 DEF Record
  <2>2. inv.member.char \in Character /\ inv # None
    BY NoneAssumption DEF Invitation, Member
  <2> QED
    BY <2>1, <2>2, NoneAssumption DEF InviteType, InvitesIndexed
<1>3. CASE Redescribe
  <2>1. PICK c \in Character, m \in Member :
          /\ HasInvite(c) /\ m.char = c
          /\ invite' = [invite EXCEPT ![charToInvite[c]].member = m]
          /\ UNCHANGED charToInvite
    BY <1>3 DEF Redescribe
  <2> DEFINE i == charToInvite[c]
             inv == [invite[i] EXCEPT !.member = m]
  <2>2. i \in PartyIndex /\ invite[i] \in Invitation /\ invite[i].member.char = c
    BY <2>1 DEF InviteType, InvitesIndexed, HasInvite
  <2>3. inv \in Invitation /\ inv.member = m /\ inv # None
    BY <2>2, NoneAssumption DEF Invitation
  <2>4. invite' = [invite EXCEPT ![i] = inv]
    BY <2>1
  <2> HIDE DEF inv
  <2> QED
    BY <2>1, <2>2, <2>3, <2>4, NoneAssumption DEF InviteType, InvitesIndexed
<1>4. CASE Release
  <2>1. PICK c \in Character : HasInvite(c) /\ ReleaseInvite(c)
    BY <1>4 DEF Release
  <2> QED
    BY <2>1, NoneAssumption DEF InviteType, InvitesIndexed, HasInvite, ReleaseInvite
<1> QED
  BY <1>1, <1>2, <1>3, <1>4 DEF InviteStep

-----------------------------------------------------------------------------
(* The handlers, one by one.                                               *)

LEMMA PartyOfFacts ==
    ASSUME RosterInv, NEW c \in Character
    PROVE  /\ GetPartyByCharacter(c) = charToParty[c]
           /\ GetPartyByCharacter(c) # None =>
                /\ GetPartyByCharacter(c) \in PartyIndex
                /\ party[GetPartyByCharacter(c)] # None
                /\ party[GetPartyByCharacter(c)] \in Party
                /\ WellFormed(party[GetPartyByCharacter(c)])
                /\ c \in Chars(party[GetPartyByCharacter(c)])
  BY DEF RosterInv, RosterType, RosterConsistent, DictionaryListed, MembersWellFormed,
         WellFormed, GetPartyByCharacter

\* Destroying a party with the list of its members is Disband.
LEMMA DestroyIsDisband ==
    ASSUME NEW p \in PartyIndex, party[p] # None, DestroyParty(p, party[p], charToParty)
    PROVE  RosterStep
  BY DEF DestroyParty, RosterStep, Disband

\* Rewriting where one member is reached is Refresh.
LEMMA RelocateIsRefresh ==
    ASSUME RosterInv, NEW c \in Character, NEW k \in Slot(party[GetPartyByCharacter(c)], c),
           NEW w \in World \cup {None}, GetPartyByCharacter(c) # None,
           party' = [party EXCEPT ![GetPartyByCharacter(c)] =
                        WithWorld(party[GetPartyByCharacter(c)], k, w)],
           UNCHANGED charToParty
    PROVE  RosterStep
<1> DEFINE p == GetPartyByCharacter(c)
           rec == WithWorld(party[p], k, w)
<1>1. p \in PartyIndex /\ party[p] # None /\ party[p] \in Party /\ WellFormed(party[p])
  BY PartyOfFacts
<1>2. k \in DOMAIN party[p].members
  BY DEF Slot
<1>3. /\ rec \in Party /\ WellFormed(rec) /\ Chars(rec) = Chars(party[p])
      /\ Len(rec.members) = Len(party[p].members)
  BY <1>1, <1>2, WithWorldFacts
<1>4. party' = [party EXCEPT ![p] = rec]
  OBVIOUS
<1> HIDE DEF rec, p
<1> QED
  BY <1>1, <1>3, <1>4 DEF RosterStep, Refresh

LEMMA ConnectStep ==
    ASSUME RosterInv, NEW w \in World, NEW c \in Character, ClientConnect(w, c)
    PROVE  RosterStep
<1> DEFINE p == GetPartyByCharacter(c)
<1>1. CASE UNCHANGED party
  BY <1>1 DEF ClientConnect, RosterStep, roster
<1>2. CASE p # None /\ \E k \in Slot(party[p], c) :
                party' = [party EXCEPT ![p] = WithWorld(party[p], k, w)]
  <2>1. PICK k \in Slot(party[p], c) : party' = [party EXCEPT ![p] = WithWorld(party[p], k, w)]
    BY <1>2
  <2>2. UNCHANGED charToParty
    BY DEF ClientConnect
  <2> QED
    BY <1>2, <2>1, <2>2, RelocateIsRefresh
<1> QED
  BY <1>1, <1>2 DEF ClientConnect

LEMMA DisconnectStep ==
    ASSUME RosterInv, NEW c \in Character, ClientDisconnect(c)
    PROVE  RosterStep
<1> DEFINE p == GetPartyByCharacter(c)
<1>1. CASE UNCHANGED roster
  BY <1>1 DEF RosterStep
<1>2. CASE p # None /\ DestroyParty(p, party[p], charToParty)
  BY <1>2, PartyOfFacts, DestroyIsDisband
<1>3. CASE /\ p # None /\ UNCHANGED charToParty
           /\ \E k \in Slot(party[p], c) :
                party' = [party EXCEPT ![p] = WithWorld(party[p], k, None)]
  <2>1. PICK k \in Slot(party[p], c) :
          party' = [party EXCEPT ![p] = WithWorld(party[p], k, None)]
    BY <1>3
  <2> QED
    BY <1>3, <2>1, RelocateIsRefresh
<1> QED
  BY <1>1, <1>2, <1>3 DEF ClientDisconnect

LEMMA InviteHandlerStep ==
    ASSUME RosterInv, NEW w \in World, NEW src \in Located, NEW tgt \in Located,
           PartyInvite(w, src, tgt)
    PROVE  RosterStep
<1>1. CASE InviteFounding(src, tgt)
  <2>1. src \in Member
    BY DEF Located, Member
  <2>2. PICK p \in PartyIndex :
          /\ IsNextBlock(party, p)
          /\ party' = [party EXCEPT ![p] = NewParty(src)]
          /\ charToParty' = [charToParty EXCEPT ![src.char] = p]
    BY <1>1 DEF InviteFounding
  <2> QED
    BY <1>1, <2>1, <2>2 DEF InviteFounding, IsNextBlock, FreeBlocks, RosterStep, Found
<1>2. CASE InviteRejected(w, src, tgt) \/ InviteIntoParty(src, tgt) \/ InvitePoolExhausted(src, tgt)
  BY <1>2 DEF InviteRejected, InviteIntoParty, InvitePoolExhausted, Crash, RosterStep, roster
<1> QED
  BY <1>1, <1>2 DEF PartyInvite

LEMMA AckStep ==
    ASSUME RosterInv, NEW src \in Located, NEW tgt \in Located, NEW ok \in BOOLEAN,
           InviteAck(src, tgt, ok)
    PROVE  RosterStep
<1> DEFINE p == GetPartyByCharacter(src.char)
<1>0. src.char \in Character
  BY DEF Located
<1>1. CASE UNCHANGED roster
  BY <1>1 DEF RosterStep
<1>2. CASE p # None /\ DestroyParty(p, party[p], charToParty)
  BY <1>0, <1>2, PartyOfFacts, DestroyIsDisband
<1> QED
  BY <1>1, <1>2 DEF InviteAck, roster

LEMMA CancelStep ==
    ASSUME RosterInv, NEW w, NEW v, NEW c \in Character, NEW d \in Character,
           InviteCancel(w, c, d, v)
    PROVE  RosterStep
<1> DEFINE p == GetPartyByCharacter(c)
<1>1. CASE UNCHANGED roster
  BY <1>1 DEF RosterStep
<1>2. CASE p # None /\ DestroyParty(p, party[p], charToParty)
  BY <1>2, PartyOfFacts, DestroyIsDisband
<1> QED
  BY <1>1, <1>2 DEF InviteCancel

LEMMA AcceptStep ==
    ASSUME RosterInv, InviteInv, NEW w, NEW v, NEW c \in Character, NEW d \in Character,
           ConfirmAccept(w, c, d, v)
    PROVE  RosterStep
<1> DEFINE p == GetPartyByCharacter(d)
           m == invite[charToInvite[c]].member
<1>1. m \in Member
  BY DEF ConfirmAccept, HasInvite, InviteInv, InviteType, Invitation
<1>2. p \in PartyIndex /\ party[p] # None
  BY PartyOfFacts DEF ConfirmAccept
<1>3. CASE CanAddMember(party[p], m)
  BY <1>1, <1>2, <1>3 DEF ConfirmAccept, RosterStep, Join
<1>4. CASE ~CanAddMember(party[p], m)
  BY <1>2, <1>4 DEF ConfirmAccept, RosterStep, roster, RosterInv, RosterType
<1> QED
  BY <1>3, <1>4

LEMMA DeclineStep ==
    ASSUME RosterInv, NEW w, NEW v, NEW c \in Character, NEW d \in Character,
           ConfirmDecline(w, c, d, v)
    PROVE  RosterStep
<1> DEFINE p == GetPartyByCharacter(d)
<1>1. CASE UNCHANGED roster
  BY <1>1 DEF RosterStep
<1>2. CASE p # None /\ DestroyParty(p, party[p], charToParty)
  BY <1>2, PartyOfFacts, DestroyIsDisband
<1> QED
  BY <1>1, <1>2 DEF ConfirmDecline

LEMMA LeaveStep ==
    ASSUME RosterInv, NEW w \in World, NEW c \in Character, Leave(w, c)
    PROVE  RosterStep
<1> DEFINE p == GetPartyByCharacter(c)
<1>1. CASE UNCHANGED roster
  BY <1>1 DEF RosterStep
<1>2. ASSUME p # None, NEW k \in Slot(party[p], c),
             TooSmall(WithoutSlot(party[p], k)),
             DestroyParty(p, WithoutSlot(party[p], k), [charToParty EXCEPT ![c] = None])
      PROVE  RosterStep
  <2>1. k \in DOMAIN party[p].members /\ party[p].members[k].char = c
    BY DEF Slot
  <2>2. Chars(WithoutSlot(party[p], k)) = Chars(party[p]) \ {c}
    BY <1>2, <2>1, PartyOfFacts, WithoutSlotFacts
  <2>3. c \in Chars(party[p])
    BY <1>2, PartyOfFacts
  <2>4. charToParty' = [x \in Character |->
                          IF x \in Chars(party[p]) THEN None ELSE charToParty[x]]
    BY <1>2, <2>2, <2>3 DEF DestroyParty, RosterInv, RosterType
  <2> QED
    BY <1>2, <2>4, PartyOfFacts DEF DestroyParty, RosterStep, Disband
<1>3. ASSUME p # None, NEW k \in Slot(party[p], c),
             ~TooSmall(WithoutSlot(party[p], k)),
             party' = [party EXCEPT ![p] = WithoutSlot(party[p], k)],
             charToParty' = [charToParty EXCEPT ![c] = None]
      PROVE  RosterStep
  <2>1. k \in DOMAIN party[p].members /\ party[p].members[k].char = c
    BY DEF Slot
  <2>2. Len(party[p].members) > 2
    <3>1. Len(WithoutSlot(party[p], k).members) = Len(party[p].members) - 1
      BY <1>3, <2>1, PartyOfFacts, WithoutSlotFacts
    <3>2. Len(party[p].members) \in 1 .. MaxMembers
      BY <1>3, PartyOfFacts DEF WellFormed
    <3> QED
      BY <1>3, <3>1, <3>2, SizeAssumption DEF TooSmall
  <2> QED
    BY <1>3, <2>1, <2>2, PartyOfFacts DEF RosterStep, Depart
<1> QED
  BY <1>1, <1>2, <1>3 DEF Leave

LEMMA LeaderStep ==
    ASSUME RosterInv, NEW w \in World, NEW p \in PartyIndex, NEW c \in Character,
           ChangeLeader(w, p, c)
    PROVE  RosterStep
<1>1. CASE UNCHANGED party
  BY <1>1 DEF ChangeLeader, RosterStep, roster
<1>2. CASE party[p] # None /\ party' = [party EXCEPT ![p].leader = c]
  <2> DEFINE rec == [party[p] EXCEPT !.leader = c]
  <2>1. party[p] \in Party /\ WellFormed(party[p])
    BY <1>2 DEF RosterInv, RosterType, RosterConsistent, MembersWellFormed, WellFormed
  <2>2. rec \in Party /\ rec.members = party[p].members
    BY <2>1 DEF Party
  <2>3. party' = [party EXCEPT ![p] = rec]
    BY <1>2
  <2> HIDE DEF rec
  <2>4. WellFormed(rec) /\ Chars(rec) = Chars(party[p])
    BY <2>1, <2>2 DEF WellFormed, Chars
  <2> QED
    BY <1>2, <2>2, <2>3, <2>4 DEF ChangeLeader, RosterStep, Refresh
<1> QED
  BY <1>1, <1>2 DEF ChangeLeader

LEMMA DataStep ==
    ASSUME RosterInv, NEW m \in Located, PartyData(m)
    PROVE  RosterStep
<1> DEFINE p == GetPartyByCharacter(m.char)
<1>1. PICK k \in Slot(party[p], m.char) :
        party' = [party EXCEPT ![p] = WithWorld(party[p], k, m.world)]
  BY DEF PartyData
<1>2. m.char \in Character /\ m.world \in World \cup {None}
  BY DEF Located
<1>3. p # None /\ UNCHANGED charToParty
  BY DEF PartyData
<1> QED
  BY <1>1, <1>2, <1>3, RelocateIsRefresh

LEMMA TickStep ==
    ASSUME RosterInv, InviteInv, Tick
    PROVE  RosterStep
<1>1. PICK first \in Invited : TickAsserts(first) \/ TickExpires(first) \/ TickRepeats(first)
  BY DEF Tick
<1> DEFINE p == invite[charToInvite[first]].party
<1>2. p \in PartyIndex
  BY DEF Invited, InviteInv, InviteType, InvitesIndexed, Invitation
<1>3. CASE UNCHANGED roster
  BY <1>3 DEF RosterStep
<1>4. CASE party[p] # None /\ DestroyParty(p, party[p], charToParty)
  BY <1>2, <1>4, DestroyIsDisband
<1> QED
  BY <1>1, <1>3, <1>4 DEF TickAsserts, TickExpires, TickRepeats, Crash, roster

LEMMA NextRosterStep ==
    ASSUME RosterInv, InviteInv, [Next]_vars
    PROVE  RosterStep
<1>1. CASE UNCHANGED vars
  BY <1>1 DEF vars, RosterStep, roster
<1>2. ASSUME NEW w \in World, NEW c \in Character, ClientConnect(w, c) \/ Leave(w, c)
      PROVE  RosterStep
  BY <1>2, ConnectStep, LeaveStep
<1>3. ASSUME NEW src \in Located, NEW tgt \in Located, PartyInvite(src.world, src, tgt)
      PROVE  RosterStep
  BY <1>3, InviteHandlerStep DEF Located
<1>4. ASSUME NEW src \in Located, NEW tgt \in Located, NEW ok \in BOOLEAN, InviteAck(src, tgt, ok)
      PROVE  RosterStep
  BY <1>4, AckStep
<1>5. ASSUME NEW w \in World, NEW v \in World, NEW c \in Character, NEW d \in Character,
             \/ InviteCancel(w, c, d, v) \/ ConfirmUnknown(w, c, d)
             \/ ConfirmAccept(w, c, d, v) \/ ConfirmDecline(w, c, d, v)
      PROVE  RosterStep
  BY <1>5, CancelStep, AcceptStep, DeclineStep DEF ConfirmUnknown, RosterStep, roster
<1>6. ASSUME NEW p \in PartyIndex, BroadcastToParty(p)
      PROVE  RosterStep
  BY <1>6 DEF BroadcastToParty, RosterStep, roster
<1> QED
  BY <1>1, <1>2, <1>3, <1>4, <1>5, <1>6, DisconnectStep, LeaderStep, DataStep, TickStep
     DEF Next, OnPacket

LEMMA NextInviteStep ==
    ASSUME RosterInv, InviteInv, [Next]_vars
    PROVE  InviteStep
<1>1. CASE UNCHANGED <<invite, charToInvite>>
  BY <1>1 DEF InviteStep
<1>2. ASSUME NEW src \in Located, NEW tgt \in Located, PartyInvite(src.world, src, tgt)
      PROVE  InviteStep
  <2>1. CASE UNCHANGED <<invite, charToInvite>>
    BY <2>1 DEF InviteStep
  <2>2. ASSUME NEW i \in PartyIndex, NEW p \in PartyIndex,
               Invitable(tgt.char), IsNextBlock(invite, i), RecordInvite(i, p, src, tgt)
        PROVE  InviteStep
    <3> DEFINE inv == [inviter |-> src.char, party |-> p, member |-> tgt]
    <3>1. inv \in Invitation /\ inv.member = tgt
      BY DEF Invitation, Located, Member
    <3> QED
      BY <2>2, <3>1 DEF InviteStep, Record, RecordInvite, IsNextBlock, FreeBlocks, Invitable
  <2> QED
    BY <1>2, <2>1, <2>2, PartyOfFacts
       DEF PartyInvite, InviteRejected, InviteIntoParty, InviteFounding, InvitePoolExhausted,
           Crash, Located
<1>3. ASSUME NEW src \in Located, NEW tgt \in Located, NEW ok \in BOOLEAN, InviteAck(src, tgt, ok)
      PROVE  InviteStep
  <2>1. CASE UNCHANGED <<invite, charToInvite>>
    BY <2>1 DEF InviteStep
  <2>2. tgt \in Member /\ tgt.char \in Character
    BY DEF Located, Member
  <2>3. CASE /\ HasInvite(tgt.char)
             /\ invite' = [invite EXCEPT ![charToInvite[tgt.char]].member = tgt]
             /\ UNCHANGED charToInvite
    BY <2>2, <2>3 DEF InviteStep, Redescribe
  <2>4. CASE HasInvite(tgt.char) /\ ReleaseInvite(tgt.char)
    BY <2>2, <2>4 DEF InviteStep, Release
  <2> QED
    BY <1>3, <2>1, <2>3, <2>4 DEF InviteAck
<1>4. ASSUME NEW c \in Character, HasInvite(c), ReleaseInvite(c)
      PROVE  InviteStep
  BY <1>4 DEF InviteStep, Release
<1>5. ASSUME NEW w \in World, NEW v \in World, NEW c \in Character, NEW d \in Character,
             \/ InviteCancel(w, c, d, v) \/ ConfirmUnknown(w, c, d)
             \/ ConfirmAccept(w, c, d, v) \/ ConfirmDecline(w, c, d, v)
      PROVE  InviteStep
  BY <1>1, <1>4, <1>5 DEF InviteCancel, ConfirmUnknown, ConfirmAccept, ConfirmDecline
<1>6. CASE Tick
  <2>1. PICK first \in Invited : TickAsserts(first) \/ TickExpires(first) \/ TickRepeats(first)
    BY <1>6 DEF Tick
  <2>2. first \in Character /\ HasInvite(first)
    BY DEF Invited, HasInvite, InviteInv, InvitesIndexed
  <2> QED
    BY <1>1, <1>4, <2>1, <2>2 DEF TickAsserts, TickExpires, TickRepeats, Crash
<1>7. ASSUME NEW w \in World, NEW c \in Character,
             ClientConnect(w, c) \/ Leave(w, c)
      PROVE  InviteStep
  BY <1>1, <1>7 DEF ClientConnect, Leave
<1>8. ASSUME NEW w \in World, NEW p \in PartyIndex, NEW c \in Character,
             ChangeLeader(w, p, c)
      PROVE  InviteStep
  BY <1>1, <1>8 DEF ChangeLeader
<1>9. ASSUME NEW m \in Located, PartyData(m)
      PROVE  InviteStep
  BY <1>1, <1>9 DEF PartyData
<1>10. ASSUME NEW c \in Character, ClientDisconnect(c)
       PROVE  InviteStep
  BY <1>1, <1>10 DEF ClientDisconnect
<1>11. ASSUME NEW p \in PartyIndex, BroadcastToParty(p)
       PROVE  InviteStep
  BY <1>1, <1>11 DEF BroadcastToParty
<1>12. CASE UNCHANGED vars
  BY <1>1, <1>12 DEF vars
<1> QED
  BY <1>2, <1>3, <1>5, <1>6, <1>7, <1>8, <1>9, <1>10, <1>11, <1>12 DEF Next, OnPacket

-----------------------------------------------------------------------------
(* The theorems.                                                           *)

IInv == RosterInv /\ InviteInv

\* The two indexes of the party manager are always exact, whatever packets come
\* in whatever order (the inductive invariant behind the theorems below).
THEOREM IndexesExact == Spec => []IInv
<1>1. Init => IInv
  BY DEF Init, IInv, RosterInv, RosterType, RosterConsistent, DictionaryListed,
         ListedInDictionary, MembersWellFormed, InviteInv, InviteType, InvitesIndexed
<1>2. IInv /\ [Next]_vars => IInv'
  BY NextRosterStep, RosterStepInductive, NextInviteStep, InviteStepInductive DEF IInv
<1> QED
  BY <1>1, <1>2, PTL DEF Spec

\* Member lists and character dictionary describe one and the same membership.
THEOREM RosterCorrect == Spec => []RosterConsistent
<1>1. IInv => RosterConsistent
  BY DEF IInv, RosterInv
<1> QED
  BY <1>1, IndexesExact, PTL

\* No invitation block is leaked, and no dictionary entry outlives its block.
THEOREM InvitesCorrect == Spec => []InvitesIndexed
<1>1. IInv => InvitesIndexed
  BY DEF IInv, InviteInv
<1> QED
  BY <1>1, IndexesExact, PTL

StatusType ==
    /\ charToWorld \in [Character -> World \cup {None}]
    /\ status \in {"running", "assert(Party)", "null dereference"}

\* The server's state keeps its types.
THEOREM TypeCorrect == Spec => []TypeOK
<1>1. Init => StatusType
  BY DEF Init, StatusType
<1>2. StatusType /\ [Next]_vars => StatusType'
  <2> SUFFICES ASSUME StatusType, [Next]_vars PROVE StatusType'
    OBVIOUS
  <2>1. CASE UNCHANGED <<charToWorld, status>>
    BY <2>1 DEF StatusType
  <2>2. ASSUME NEW w \in World, NEW c \in Character, ClientConnect(w, c)
        PROVE  StatusType'
    BY <2>2 DEF ClientConnect, StatusType
  <2>3. ASSUME NEW c \in Character, ClientDisconnect(c)
        PROVE  StatusType'
    BY <2>3 DEF ClientDisconnect, StatusType
  <2>4. ASSUME NEW src \in Located, NEW tgt \in Located, PartyInvite(src.world, src, tgt)
        PROVE  StatusType'
    BY <2>4 DEF PartyInvite, InviteRejected, InviteIntoParty, InviteFounding,
                InvitePoolExhausted, Crash, StatusType
  <2>5. CASE Tick
    BY <2>5 DEF Tick, TickAsserts, TickExpires, TickRepeats, Crash, StatusType
  <2>6. ASSUME NEW src \in Located, NEW tgt \in Located, NEW ok \in BOOLEAN, InviteAck(src, tgt, ok)
        PROVE  UNCHANGED <<charToWorld, status>>
    BY <2>6 DEF InviteAck
  <2>7. ASSUME NEW w \in World, NEW v \in World, NEW c \in Character, NEW d \in Character,
               \/ InviteCancel(w, c, d, v) \/ ConfirmUnknown(w, c, d)
               \/ ConfirmAccept(w, c, d, v) \/ ConfirmDecline(w, c, d, v) \/ Leave(w, c)
        PROVE  UNCHANGED <<charToWorld, status>>
    BY <2>7 DEF InviteCancel, ConfirmUnknown, ConfirmAccept, ConfirmDecline, Leave
  <2>8. ASSUME NEW w \in World, NEW p \in PartyIndex, NEW c \in Character, ChangeLeader(w, p, c)
        PROVE  UNCHANGED <<charToWorld, status>>
    BY <2>8 DEF ChangeLeader
  <2>9. ASSUME NEW m \in Located, PartyData(m)
        PROVE  UNCHANGED <<charToWorld, status>>
    BY <2>9 DEF PartyData
  <2>10. ASSUME NEW p \in PartyIndex, BroadcastToParty(p)
         PROVE  UNCHANGED <<charToWorld, status>>
    BY <2>10 DEF BroadcastToParty
  <2>11. CASE UNCHANGED vars
    BY <2>1, <2>11 DEF vars
  <2> QED
    BY <2>1, <2>2, <2>3, <2>4, <2>5, <2>6, <2>7, <2>8, <2>9, <2>10, <2>11 DEF Next, OnPacket
<1>3. IInv /\ StatusType => TypeOK
  BY DEF IInv, RosterInv, RosterType, InviteInv, InviteType, StatusType, TypeOK
<1> QED
  BY <1>1, <1>2, <1>3, IndexesExact, PTL DEF Spec

-----------------------------------------------------------------------------
(* Refinement.                                                             *)

\* A record without duplicates counts each of its characters once.
LEMMA CharsCount ==
    ASSUME NEW rec \in Party, WellFormed(rec)
    PROVE  IsFiniteSet(Chars(rec)) /\ Cardinality(Chars(rec)) = Len(rec.members)
<1> DEFINE n == Len(rec.members)
           f == [k \in 1 .. n |-> rec.members[k].char]
<1>1. n \in Nat /\ n >= 1 /\ DOMAIN rec.members = 1 .. n
  BY SizeAssumption DEF WellFormed, Party
<1>2. f \in Bijection(1 .. n, Chars(rec))
  BY <1>1 DEF Bijection, Injection, Surjection, IsInjective, Chars, WellFormed
<1>3. IsFiniteSet(1 .. n) /\ Cardinality(1 .. n) = n
  <2> HIDE DEF n
  <2>1. \A i, j \in Int : /\ IsFiniteSet(i .. j)
                          /\ Cardinality(i .. j) = IF i > j THEN 0 ELSE j - i + 1
    BY FS_Interval, Zenon
  <2>2. IsFiniteSet(1 .. n) /\ Cardinality(1 .. n) = IF 1 > n THEN 0 ELSE n - 1 + 1
    BY <1>1, <2>1
  <2> QED
    BY <1>1, <2>2
<1> QED
  BY <1>2, <1>3, FS_Bijection DEF ExistsBijection

\* PartyRoster counts with its own instance of the standard definition.
LEMMA SameCardinality ==
    ASSUME NEW S
    PROVE  Roster!Cardinality(S) = Cardinality(S)
  BY DEF Roster!Cardinality, Cardinality

\* The abstract members of a party are the characters its block lists.
LEMMA AbstractMembers ==
    ASSUME RosterInv, NEW p \in PartyIndex
    PROVE  /\ party[p] = None => Roster!Members(p) = {}
           /\ party[p] # None =>
                /\ Roster!Members(p) = Chars(party[p])
                /\ Roster!Members(p) # {}
                /\ Cardinality(Roster!Members(p)) = Len(party[p].members)
<1>1. CASE party[p] = None
  BY <1>1, NoneAssumption
     DEF Roster!Members, RosterInv, RosterType, RosterConsistent, DictionaryListed
<1>2. CASE party[p] # None
  <2>1. party[p] \in Party /\ WellFormed(party[p])
    BY <1>2 DEF RosterInv, RosterType, RosterConsistent, MembersWellFormed, WellFormed
  <2>2. Chars(party[p]) \subseteq Character
    BY <2>1, CharsFacts
  <2>3. Roster!Members(p) = Chars(party[p])
    BY <1>2, <2>2, NoneAssumption
       DEF Roster!Members, RosterInv, RosterType, RosterConsistent, DictionaryListed,
           ListedInDictionary
  <2>4. 1 \in DOMAIN party[p].members
    BY <2>1, SizeAssumption DEF WellFormed, Party
  <2>5. Chars(party[p]) # {}
    BY <2>1, <2>4, CharsFacts
  <2> QED
    BY <1>2, <2>1, <2>3, <2>5, CharsCount
<1> QED
  BY <1>1, <1>2

LEMMA RosterStepRefines ==
    ASSUME RosterInv, RosterStep
    PROVE  [Roster!Next]_charToParty
<1> USE DEF Roster!Next
<1>0. RosterType
  BY DEF RosterInv
<1>1. CASE UNCHANGED charToParty
  BY <1>1
<1>2. CASE Found
  <2>1. PICK p \in PartyIndex, m \in Member :
          /\ party[p] = None /\ charToParty[m.char] = None
          /\ charToParty' = [charToParty EXCEPT ![m.char] = p]
    BY <1>2 DEF Found
  <2>2. m.char \in Character
    BY DEF Member
  <2>3. Roster!Found(m.char, p)
    BY <2>1, <2>2, AbstractMembers DEF Roster!Found
  <2> QED
    BY <2>2, <2>3
<1>3. CASE Join
  <2>1. PICK p \in PartyIndex, m \in Member :
          /\ party[p] # None /\ CanAddMember(party[p], m)
          /\ charToParty' = [charToParty EXCEPT ![m.char] = p]
    BY <1>3 DEF Join
  <2>2. m.char \in Character
    BY DEF Member
  <2>3. Roster!Join(m.char, p)
    BY <2>1, <2>2, AbstractMembers, SameCardinality DEF Roster!Join, CanAddMember
  <2> QED
    BY <2>2, <2>3
<1>4. CASE Depart
  <2>1. PICK p \in PartyIndex : party[p] # None /\ \E k \in DOMAIN party[p].members :
          /\ Len(party[p].members) > 2
          /\ charToParty' = [charToParty EXCEPT ![party[p].members[k].char] = None]
    BY <1>4 DEF Depart
  <2>2. PICK k \in DOMAIN party[p].members :
          /\ Len(party[p].members) > 2
          /\ charToParty' = [charToParty EXCEPT ![party[p].members[k].char] = None]
    BY <2>1
  <2> DEFINE c == party[p].members[k].char
  <2>3. party[p] \in Party
    BY <2>1 DEF RosterInv, RosterType
  <2>4. c \in Character /\ c \in Chars(party[p])
    BY <2>3, CharsFacts
  <2>5. charToParty[c] = p /\ p # None
    BY <2>1, <2>4, NoneAssumption DEF RosterInv, RosterConsistent, ListedInDictionary
  <2>6. charToParty' = [charToParty EXCEPT ![c] = None]
    BY <2>2
  <2> HIDE DEF c
  <2>7. Roster!Leave(c)
    BY <2>1, <2>2, <2>5, <2>6, AbstractMembers, SameCardinality DEF Roster!Leave
  <2> QED
    BY <2>4, <2>7
<1>5. CASE Disband
  <2>1. PICK p \in PartyIndex :
          /\ party[p] # None
          /\ charToParty' = [c \in Character |->
                               IF c \in Chars(party[p]) THEN None ELSE charToParty[c]]
    BY <1>5 DEF Disband
  <2>2. Roster!Disband(p)
    BY <2>1, AbstractMembers DEF Roster!Disband
  <2> QED
    BY <2>2
<1> QED
  BY <1>1, <1>2, <1>3, <1>4, <1>5 DEF RosterStep, Refresh, roster

\* The server implements PartyRoster: seen from outside, each of its steps founds
\* one party, admits one character, lets one go, ends one party, or is invisible.
THEOREM ServerImplementsRoster == Spec => RosterSpec
<1>1. Init => Roster!Init
  BY DEF Init, Roster!Init
<1>2. IInv /\ [Next]_vars => [Roster!Next]_charToParty
  BY NextRosterStep, RosterStepRefines DEF IInv
<1> QED
  BY <1>1, <1>2, IndexesExact, PTL DEF Spec, RosterSpec, Roster!Spec

-----------------------------------------------------------------------------
(* What the server tells the world servers is what it does.  First, sequences *)
(* of packets.                                                               *)

\* Packets that announce no party, and a sequence of such packets.
Notes(s) ==
    /\ \E n \in Nat : DOMAIN s = 1 .. n /\ Len(s) = n /\ s = [j \in 1 .. n |-> s[j]]
    /\ \A j \in DOMAIN s : s[j].type \notin {"CREATE_PARTY", "DESTROY_PARTY"}

\* The one packet of a sequence that announces the end of a party.
EndsWithin(s, p, rec) ==
    \E k \in DOMAIN s :
       /\ s[k].type = "DESTROY_PARTY" /\ s[k].id = p /\ s[k].party = rec /\ s[k].to = Broadcast
       /\ \A j \in DOMAIN s \ {k} : s[j].type \notin {"CREATE_PARTY", "DESTROY_PARTY"}

LEMMA NotesAreSeq ==
    ASSUME NEW s, Notes(s)
    PROVE  \E S : s \in Seq(S)
<1>1. PICK n \in Nat : DOMAIN s = 1 .. n /\ Len(s) = n /\ s = [j \in 1 .. n |-> s[j]]
  BY DEF Notes
<1> DEFINE S == {s[j] : j \in 1 .. n}
<1>2. s \in [1 .. n -> S]
  BY <1>1
<1>3. s \in Seq(S)
  BY <1>2, SeqDef
<1> QED
  BY <1>3

LEMMA NotesConcat ==
    ASSUME NEW s, NEW t, Notes(s), Notes(t)
    PROVE  Notes(s \o t)
<1>1. PICK S : s \in Seq(S)
  BY NotesAreSeq
<1>2. PICK T : t \in Seq(T)
  BY NotesAreSeq
<1>3. s \in Seq(S \cup T) /\ t \in Seq(S \cup T)
  BY <1>1, <1>2, SeqMonotonic
<1>4. /\ s \o t \in Seq(S \cup T) /\ Len(s \o t) = Len(s) + Len(t)
      /\ \A i \in 1 .. Len(s) + Len(t) : (s \o t)[i] = IF i <= Len(s) THEN s[i] ELSE t[i - Len(s)]
  BY <1>3, ConcatProperties
<1>5. Len(s) \in Nat /\ Len(t) \in Nat /\ DOMAIN s = 1 .. Len(s) /\ DOMAIN t = 1 .. Len(t)
  BY <1>1, <1>2
<1> DEFINE u == s \o t
<1>6. \A j \in DOMAIN u : u[j].type \notin {"CREATE_PARTY", "DESTROY_PARTY"}
  BY <1>4, <1>5 DEF Notes
<1>7. DOMAIN u = 1 .. Len(u) /\ u = [j \in 1 .. Len(u) |-> u[j]] /\ Len(u) \in Nat
  <2>1. u \in Seq(S \cup T)
    BY <1>4
  <2> HIDE DEF u
  <2>2. Len(u) \in Nat /\ DOMAIN u = 1 .. Len(u) /\ u \in [1 .. Len(u) -> S \cup T]
    BY <2>1, LenProperties
  <2> QED
    BY <2>2
<1> HIDE DEF u
<1> QED
  BY <1>6, <1>7 DEF Notes, u

LEMMA NotesThenEnd ==
    ASSUME NEW s, Notes(s), NEW p, NEW rec
    PROVE  EndsWithin(Append(s, DestroyMsg(p, rec)), p, rec)
<1> DEFINE m == DestroyMsg(p, rec)
<1>1. PICK S : s \in Seq(S)
  BY NotesAreSeq
<1>2. m.type = "DESTROY_PARTY" /\ m.id = p /\ m.party = rec /\ m.to = Broadcast
  BY DEF DestroyMsg
<1> HIDE DEF m
<1>3. s \in Seq(S \cup {m}) /\ m \in S \cup {m}
  BY <1>1, SeqMonotonic
<1>4. /\ DOMAIN Append(s, m) = 1 .. Len(s) + 1 /\ Append(s, m)[Len(s) + 1] = m
      /\ \A j \in 1 .. Len(s) : Append(s, m)[j] = s[j]
      /\ Len(s) \in Nat /\ DOMAIN s = 1 .. Len(s)
  BY <1>3
<1>5. Len(s) + 1 \in DOMAIN Append(s, m)
  BY <1>4
<1>6. \A j \in DOMAIN Append(s, m) \ {Len(s) + 1} : j \in DOMAIN s /\ Append(s, m)[j] = s[j]
  BY <1>4
<1> QED
  BY <1>2, <1>4, <1>5, <1>6 DEF EndsWithin, Notes, m

LEMMA NotesAppend ==
    ASSUME NEW s, Notes(s), NEW m, m.type \notin {"CREATE_PARTY", "DESTROY_PARTY"}
    PROVE  Notes(Append(s, m))
<1>1. PICK S : s \in Seq(S)
  BY NotesAreSeq
<1>2. s \in Seq(S \cup {m}) /\ m \in S \cup {m}
  BY <1>1, SeqMonotonic
<1> DEFINE u == Append(s, m)
<1>3. /\ u \in Seq(S \cup {m}) /\ Len(u) = Len(s) + 1 /\ u[Len(s) + 1] = m
      /\ \A j \in 1 .. Len(s) : u[j] = s[j]
      /\ Len(s) \in Nat /\ DOMAIN s = 1 .. Len(s)
  BY <1>2
<1> HIDE DEF u
<1>4. Len(u) \in Nat /\ DOMAIN u = 1 .. Len(u) /\ u \in [1 .. Len(u) -> S \cup {m}]
  BY <1>3, LenProperties
<1>5. \A j \in DOMAIN u : u[j].type \notin {"CREATE_PARTY", "DESTROY_PARTY"}
  BY <1>3, <1>4 DEF Notes
<1> QED
  BY <1>4, <1>5 DEF Notes, u

LEMMA NotesOfOne ==
    ASSUME NEW m, m.type \notin {"CREATE_PARTY", "DESTROY_PARTY"}
    PROVE  Notes(<<m>>)
<1>1. DOMAIN <<m>> = 1 .. 1 /\ Len(<<m>>) = 1 /\ <<m>>[1] = m /\ <<m>> = [j \in 1 .. 1 |-> <<m>>[j]]
  OBVIOUS
<1> QED
  BY <1>1 DEF Notes

LEMMA NotesOfTwo ==
    ASSUME NEW m, NEW n, m.type \notin {"CREATE_PARTY", "DESTROY_PARTY"},
           n.type \notin {"CREATE_PARTY", "DESTROY_PARTY"}
    PROVE  Notes(<<m, n>>)
<1>1. DOMAIN <<m, n>> = 1 .. 2 /\ Len(<<m, n>>) = 2 /\ <<m, n>>[1] = m /\ <<m, n>>[2] = n
      /\ <<m, n>> = [j \in 1 .. 2 |-> <<m, n>>[j]]
  OBVIOUS
<1> QED
  BY <1>1 DEF Notes

LEMMA NotesOfFour ==
    ASSUME NEW a, NEW b, NEW c, NEW d,
           {a.type, b.type, c.type, d.type} \cap {"CREATE_PARTY", "DESTROY_PARTY"} = {}
    PROVE  Notes(<<a, b, c, d>>)
<1> DEFINE u == <<a, b, c, d>>
<1>1. DOMAIN u = 1 .. 4 /\ Len(u) = 4 /\ u[1] = a /\ u[2] = b /\ u[3] = c /\ u[4] = d
      /\ u = [j \in 1 .. 4 |-> u[j]]
  OBVIOUS
<1> HIDE DEF u
<1>2. \A j \in 1 .. 4 : j = 1 \/ j = 2 \/ j = 3 \/ j = 4
  OBVIOUS
<1>3. \A j \in DOMAIN u : u[j].type \notin {"CREATE_PARTY", "DESTROY_PARTY"}
  BY <1>1, <1>2
<1> QED
  BY <1>1, <1>3 DEF Notes, u

LEMMA EndThenNotes ==
    ASSUME NEW S, NEW s \in Seq(S), NEW t, Notes(t), NEW p, NEW rec, EndsWithin(s, p, rec)
    PROVE  EndsWithin(s \o t, p, rec)
<1>1. PICK T : t \in Seq(T)
  BY NotesAreSeq
<1>2. s \in Seq(S \cup T) /\ t \in Seq(S \cup T)
  BY <1>1, SeqMonotonic
<1>3. /\ s \o t \in Seq(S \cup T) /\ Len(s \o t) = Len(s) + Len(t)
      /\ \A i \in 1 .. Len(s) + Len(t) : (s \o t)[i] = IF i <= Len(s) THEN s[i] ELSE t[i - Len(s)]
  BY <1>2, ConcatProperties
<1>4. /\ Len(s) \in Nat /\ Len(t) \in Nat /\ DOMAIN s = 1 .. Len(s) /\ DOMAIN t = 1 .. Len(t)
      /\ DOMAIN (s \o t) = 1 .. Len(s) + Len(t)
  BY <1>1, <1>3, LenProperties
<1>5. PICK k \in DOMAIN s :
        /\ s[k].type = "DESTROY_PARTY" /\ s[k].id = p /\ s[k].party = rec /\ s[k].to = Broadcast
        /\ \A j \in DOMAIN s \ {k} : s[j].type \notin {"CREATE_PARTY", "DESTROY_PARTY"}
  BY DEF EndsWithin
<1> DEFINE u == s \o t
<1>6. /\ DOMAIN u = 1 .. Len(s) + Len(t) /\ k \in DOMAIN u /\ u[k] = s[k]
      /\ \A i \in 1 .. Len(s) + Len(t) : u[i] = IF i <= Len(s) THEN s[i] ELSE t[i - Len(s)]
  BY <1>3, <1>4
<1> HIDE DEF u
<1>7. ASSUME NEW j \in DOMAIN u \ {k}
      PROVE  u[j].type \notin {"CREATE_PARTY", "DESTROY_PARTY"}
  <2>1. CASE j <= Len(s)
    <3>1. j \in DOMAIN s \ {k} /\ u[j] = s[j]
      BY <1>4, <1>6, <2>1
    <3> QED
      BY <1>5, <3>1
  <2>2. CASE ~(j <= Len(s))
    <3>1. j - Len(s) \in DOMAIN t /\ u[j] = t[j - Len(s)]
      BY <1>4, <1>6, <2>2
    <3> QED
      BY <3>1 DEF Notes
  <2> QED
    BY <2>1, <2>2
<1> QED
  BY <1>5, <1>6, <1>7 DEF EndsWithin, u

LEMMA NotesToEach ==
    ASSUME NEW rec \in Party, NEW s, s = [k \in DOMAIN rec.members |-> s[k]],
           \A k \in DOMAIN rec.members : s[k].type \notin {"CREATE_PARTY", "DESTROY_PARTY"}
    PROVE  Notes(s)
<1>1. Len(rec.members) \in Nat /\ DOMAIN rec.members = 1 .. Len(rec.members)
  BY DEF Party
<1> DEFINE n == Len(rec.members)
           S == {s[k] : k \in 1 .. n}
<1>2. s \in [1 .. n -> S]
  BY <1>1
<1>3. s \in Seq(S)
  BY <1>1, <1>2, SeqDef
<1>4. DOMAIN s = 1 .. n /\ Len(s) = n
  BY <1>1, <1>2, <1>3
<1> QED
  BY <1>1, <1>4 DEF Notes

LEMMA TimeoutNotesAre ==
    ASSUME NEW inv
    PROVE  /\ Notes(TimeoutNotes(inv))
           /\ Len(TimeoutNotes(inv)) \in {0, 1, 2}
<1> DEFINE note(c) == IF charToWorld[c] = None THEN <<>>
                      ELSE <<TimeoutMsg(charToWorld[c], c, FALSE, FALSE)>>
<1>1. ASSUME NEW c
      PROVE  Notes(note(c)) /\ Len(note(c)) \in {0, 1}
  <2>1. CASE charToWorld[c] = None
    <3>1. note(c) = <<>> /\ Len(<<>>) = 0 /\ DOMAIN <<>> = 1 .. 0 /\ <<>> = [j \in 1 .. 0 |-> <<>>[j]]
      BY <2>1
    <3> QED
      BY <3>1 DEF Notes
  <2>2. CASE charToWorld[c] # None
    <3>1. TimeoutMsg(charToWorld[c], c, FALSE, FALSE).type = "PARTY_INVITE_TIMEOUT"
      BY DEF TimeoutMsg
    <3>2. note(c) = <<TimeoutMsg(charToWorld[c], c, FALSE, FALSE)>>
      BY <2>2
    <3> QED
      BY <3>1, <3>2, NotesOfOne
  <2> QED
    BY <2>1, <2>2
<1>2. TimeoutNotes(inv) = note(inv.inviter) \o note(inv.member.char)
  BY DEF TimeoutNotes
<1> HIDE DEF note
<1>3. \A a, b : Notes(a) /\ Notes(b) => Len(a \o b) = Len(a) + Len(b)
  <2> SUFFICES ASSUME NEW a, NEW b, Notes(a), Notes(b) PROVE Len(a \o b) = Len(a) + Len(b)
    OBVIOUS
  <2>1. PICK S : a \in Seq(S)
    BY NotesAreSeq
  <2>2. PICK T : b \in Seq(T)
    BY NotesAreSeq
  <2>3. a \in Seq(S \cup T) /\ b \in Seq(S \cup T)
    BY <2>1, <2>2, SeqMonotonic
  <2> QED
    BY <2>3, ConcatProperties
<1> QED
  BY <1>1, <1>2, <1>3, NotesConcat

-----------------------------------------------------------------------------
\* The members that a party gives up in a step.
Dropped(p) == {c \in Character : charToParty[c] = p /\ charToParty'[c] = None}

\* Nothing is announced and no party comes or goes.
Silent == Notes(sent') /\ Reserved' = Reserved

Dies == status' # "running" /\ sent' = <<>> /\ UNCHANGED party

\* The one packet of a sequence that announces a new party.
StartsWithin(s, p) ==
    \E k \in DOMAIN s :
       /\ s[k].type = "CREATE_PARTY" /\ s[k].id = p /\ s[k].to = Broadcast
       /\ \A j \in DOMAIN s \ {k} : s[j].type \notin {"CREATE_PARTY", "DESTROY_PARTY"}

FoundsOne ==
    \E p \in PartyIndex :
       /\ party[p] = None /\ Reserved' = Reserved \cup {p}
       /\ StartsWithin(sent', p)

\* One party ends and is announced with the members it gives up, but for one at most.
EndsOne ==
    \E p \in PartyIndex, rec \in Party :
       /\ party[p] # None /\ Reserved' = Reserved \ {p}
       /\ EndsWithin(sent', p, rec)
       /\ Chars(rec) \subseteq Dropped(p)
       /\ Cardinality(Dropped(p) \ Chars(rec)) <= 1

Announces == Silent \/ Dies \/ FoundsOne \/ EndsOne

LEMMA AnnouncedLifecycle ==
    ASSUME Announces, status' = "running"
    PROVE  Created' = Reserved' \ Reserved /\ Destroyed' = Reserved \ Reserved'
<1>1. CASE Silent
  <2>1. Created' = {} /\ Destroyed' = {}
    BY <1>1 DEF Silent, Notes, Created, Destroyed
  <2> QED
    BY <1>1, <2>1 DEF Silent
<1>2. CASE FoundsOne
  <2>1. PICK p \in PartyIndex :
          party[p] = None /\ Reserved' = Reserved \cup {p} /\ StartsWithin(sent', p)
    BY <1>2 DEF FoundsOne
  <2>2. Created' = {p} /\ Destroyed' = {}
    BY <2>1 DEF StartsWithin, Created, Destroyed
  <2>3. p \notin Reserved
    BY <2>1 DEF Reserved
  <2> QED
    BY <2>1, <2>2, <2>3
<1>3. CASE EndsOne
  <2>1. PICK p \in PartyIndex, rec \in Party :
          party[p] # None /\ Reserved' = Reserved \ {p} /\ EndsWithin(sent', p, rec)
    BY <1>3 DEF EndsOne
  <2>2. Created' = {} /\ Destroyed' = {p}
    BY <2>1 DEF EndsWithin, Created, Destroyed
  <2>3. p \in Reserved
    BY <2>1 DEF Reserved
  <2> QED
    BY <2>1, <2>2, <2>3
<1> QED
  BY <1>1, <1>2, <1>3 DEF Announces, Dies

LEMMA AnnouncedMembers ==
    ASSUME Announces, NEW k \in DOMAIN sent', sent'[k].type = "DESTROY_PARTY"
    PROVE  LET p == sent'[k].id
               gone == {c \in Character : charToParty[c] = p /\ charToParty'[c] = None} IN
           /\ Chars(sent'[k].party) \subseteq gone
           /\ Cardinality(gone \ Chars(sent'[k].party)) <= 1
<1>1. ~Silent /\ ~Dies /\ ~FoundsOne
  BY DEF Silent, Notes, Dies, FoundsOne, StartsWithin
<1>2. PICK p \in PartyIndex, rec \in Party :
        /\ EndsWithin(sent', p, rec) /\ Chars(rec) \subseteq Dropped(p)
        /\ Cardinality(Dropped(p) \ Chars(rec)) <= 1
  BY <1>1 DEF Announces, EndsOne
<1>3. sent'[k].id = p /\ sent'[k].party = rec
  BY <1>2 DEF EndsWithin
<1> QED
  BY <1>2, <1>3 DEF Dropped

-----------------------------------------------------------------------------
(* Handlers that keep every party announce none.                           *)

LEMMA KeptParties ==
    ASSUME RosterInv, NEW p \in PartyIndex, party[p] # None, NEW rec \in Party,
           party' = [party EXCEPT ![p] = rec]
    PROVE  Reserved' = Reserved
  BY NoneAssumption DEF Reserved, RosterInv, RosterType

LEMMA UntouchedParties == ASSUME UNCHANGED party PROVE Reserved' = Reserved
  BY DEF Reserved

\* A party that is destroyed with the members it lists.
LEMMA DestroyAnnounced ==
    ASSUME RosterInv, NEW p \in PartyIndex, party[p] # None,
           DestroyParty(p, party[p], charToParty), EndsWithin(sent', p, party[p])
    PROVE  EndsOne
<1>1. party[p] \in Party /\ p # None
  BY NoneAssumption DEF RosterInv, RosterType
<1>2. Reserved' = Reserved \ {p}
  BY DEF DestroyParty, Reserved, RosterInv, RosterType
<1>3. Dropped(p) = Chars(party[p])
  <2>1. Chars(party[p]) \subseteq Character
    BY <1>1, CharsFacts
  <2>2. \A c \in Character : charToParty[c] = p <=> c \in Chars(party[p])
    BY <1>1, <2>1 DEF RosterInv, RosterConsistent, DictionaryListed, ListedInDictionary
  <2> QED
    BY <1>1, <2>1, <2>2 DEF Dropped, DestroyParty
<1>4. Cardinality(Dropped(p) \ Chars(party[p])) <= 1
  BY <1>3, FS_EmptySet
<1> QED
  BY <1>1, <1>2, <1>3, <1>4 DEF EndsOne

LEMMA ConnectAnnounces ==
    ASSUME RosterInv, NEW w \in World, NEW c \in Character, ClientConnect(w, c)
    PROVE  Silent
<1> DEFINE p == GetPartyByCharacter(c)
<1>1. \A q : ConnectMsg(w, c, q).type = "CLIENT_CONNECT" /\ DataMsg.type = "PARTY_DATA"
  BY DEF ConnectMsg, DataMsg
<1>2. CASE UNCHANGED party /\ sent' = <<ConnectMsg(w, c, None)>>
  BY <1>1, <1>2, UntouchedParties, NotesOfOne DEF Silent
<1>3. ASSUME p # None, NEW k \in Slot(party[p], c),
             party' = [party EXCEPT ![p] = WithWorld(party[p], k, w)],
             sent' = <<ConnectMsg(w, c, p), DataMsg>>
      PROVE  Silent
  <2>1. WithWorld(party[p], k, w) \in Party
    BY <1>3, PartyOfFacts, WithWorldFacts DEF Slot
  <2>2. Reserved' = Reserved
    BY <1>3, <2>1, PartyOfFacts, KeptParties
  <2> QED
    BY <1>1, <1>3, <2>2, NotesOfTwo DEF Silent
<1> QED
  BY <1>2, <1>3 DEF ClientConnect

LEMMA DisconnectAnnounces ==
    ASSUME RosterInv, NEW c \in Character, ClientDisconnect(c)
    PROVE  Announces
<1> DEFINE p == GetPartyByCharacter(c)
<1>1. CASE UNCHANGED roster /\ sent' = <<>>
  <2>1. Notes(sent')
    BY <1>1 DEF Notes
  <2> QED
    BY <1>1, <2>1, UntouchedParties DEF Announces, Silent, roster
<1>2. CASE p # None /\ DestroyParty(p, party[p], charToParty) /\ sent' = <<DestroyMsg(p, party[p])>>
  <2>1. EndsWithin(sent', p, party[p])
    BY <1>2 DEF EndsWithin, DestroyMsg
  <2> QED
    BY <1>2, <2>1, PartyOfFacts, DestroyAnnounced DEF Announces
<1>3. ASSUME p # None, NEW k \in Slot(party[p], c),
             party' = [party EXCEPT ![p] = WithWorld(party[p], k, None)], sent' = <<DataMsg>>
      PROVE  Announces
  <2>1. WithWorld(party[p], k, None) \in Party
    BY <1>3, PartyOfFacts, WithWorldFacts DEF Slot
  <2>2. Reserved' = Reserved
    BY <1>3, <2>1, PartyOfFacts, KeptParties
  <2>3. DataMsg.type = "PARTY_DATA"
    BY DEF DataMsg
  <2> QED
    BY <1>3, <2>2, <2>3, NotesOfOne DEF Announces, Silent
<1> QED
  BY <1>1, <1>2, <1>3 DEF ClientDisconnect

LEMMA InviteAnnounces ==
    ASSUME RosterInv, NEW w \in World, NEW src \in Located, NEW tgt \in Located,
           PartyInvite(w, src, tgt)
    PROVE  Announces
<1>1. InviteAckMsg(w, FALSE).type = "PARTY_INVITE_ACK" /\ InviteMsg(src, tgt).type = "PARTY_INVITE"
  BY DEF InviteAckMsg, InviteMsg
<1>2. CASE InviteRejected(w, src, tgt) \/ InviteIntoParty(src, tgt)
  BY <1>1, <1>2, UntouchedParties, NotesOfOne DEF InviteRejected, InviteIntoParty, Announces, Silent
<1>3. CASE InvitePoolExhausted(src, tgt)
  BY <1>3 DEF InvitePoolExhausted, Crash, Announces, Dies
<1>4. CASE InviteFounding(src, tgt)
  <2>1. PICK p \in PartyIndex :
          /\ party[p] = None /\ party' = [party EXCEPT ![p] = NewParty(src)]
          /\ sent' = <<CreateMsg(p, NewParty(src)), InviteMsg(src, tgt)>>
    BY <1>4 DEF InviteFounding, IsNextBlock, FreeBlocks
  <2>2. NewParty(src) # None
    <3>1. src \in Member
      BY DEF Located, Member
    <3> QED
      BY <3>1, NewPartyFacts, NoneAssumption
  <2>3. Reserved' = Reserved \cup {p}
    BY <2>1, <2>2 DEF Reserved, RosterInv, RosterType
  <2>4. /\ DOMAIN sent' = {1, 2} /\ sent'[1].type = "CREATE_PARTY" /\ sent'[1].id = p
        /\ sent'[1].to = Broadcast /\ sent'[2].type = "PARTY_INVITE"
    BY <1>1, <2>1 DEF CreateMsg
  <2> QED
    BY <2>1, <2>3, <2>4 DEF Announces, FoundsOne, StartsWithin
<1> QED
  BY <1>2, <1>3, <1>4 DEF PartyInvite

LEMMA AckAnnounces ==
    ASSUME RosterInv, NEW src \in Located, NEW tgt \in Located, NEW ok \in BOOLEAN,
           InviteAck(src, tgt, ok)
    PROVE  Announces
<1> DEFINE p == GetPartyByCharacter(src.char)
<1>1. \A x : InviteAckMsg(src.world, x).type = "PARTY_INVITE_ACK" /\ DataMsg.type = "PARTY_DATA"
  BY DEF InviteAckMsg, DataMsg
<1>2. CASE UNCHANGED party /\ sent' = <<InviteAckMsg(src.world, FALSE)>>
  BY <1>1, <1>2, UntouchedParties, NotesOfOne DEF Announces, Silent
<1>3. CASE UNCHANGED party /\ sent' = <<InviteAckMsg(src.world, TRUE), DataMsg>>
  BY <1>1, <1>3, UntouchedParties, NotesOfTwo DEF Announces, Silent
<1>4. CASE /\ p # None /\ DestroyParty(p, party[p], charToParty)
           /\ sent' = <<DestroyMsg(p, party[p]), InviteAckMsg(src.world, FALSE), DataMsg>>
  <2>2. /\ InviteAckMsg(src.world, FALSE).type \notin {"CREATE_PARTY", "DESTROY_PARTY"}
        /\ DataMsg.type \notin {"CREATE_PARTY", "DESTROY_PARTY"}
    BY <1>1
  <2>3. EndsWithin(sent', p, party[p])
    <3> DEFINE m == DestroyMsg(p, party[p])
               a == InviteAckMsg(src.world, FALSE)
    <3>1. m.type = "DESTROY_PARTY" /\ m.id = p /\ m.party = party[p] /\ m.to = Broadcast
      BY DEF DestroyMsg
    <3>2. sent' = <<m, a, DataMsg>>
      BY <1>4
    <3> HIDE DEF m, a
    <3>3. DOMAIN sent' = {1, 2, 3} /\ sent'[1] = m /\ sent'[2] = a /\ sent'[3] = DataMsg
      BY <3>2
    <3>4. \A j \in DOMAIN sent' \ {1} : sent'[j].type \notin {"CREATE_PARTY", "DESTROY_PARTY"}
      BY <2>2, <3>3 DEF a
    <3> QED
      BY <3>1, <3>3, <3>4 DEF EndsWithin
  <2> QED
    BY <1>4, <2>3, PartyOfFacts, DestroyAnnounced DEF Announces, Located
<1> QED
  BY <1>2, <1>3, <1>4 DEF InviteAck

LEMMA CancelAnnounces ==
    ASSUME RosterInv, NEW w, NEW v, NEW c \in Character, NEW d \in Character,
           InviteCancel(w, c, d, v)
    PROVE  Announces
<1> DEFINE p == GetPartyByCharacter(c)
           note == TimeoutMsg(v, d, FALSE, TRUE)
<1>1. note.type = "PARTY_INVITE_TIMEOUT" /\ CancelMsg(w).type = "PARTY_INVITE_CANCEL"
  BY DEF TimeoutMsg, CancelMsg
<1> HIDE DEF note
<1>2. CASE UNCHANGED roster /\ sent' = <<note, CancelMsg(w)>>
  BY <1>1, <1>2, UntouchedParties, NotesOfTwo DEF Announces, Silent, roster
<1>3. CASE /\ p # None /\ DestroyParty(p, party[p], charToParty)
           /\ sent' = <<note, DestroyMsg(p, party[p]), CancelMsg(w)>>
  <2>1. EndsWithin(sent', p, party[p])
    BY <1>1, <1>3 DEF EndsWithin, DestroyMsg
  <2> QED
    BY <1>3, <2>1, PartyOfFacts, DestroyAnnounced DEF Announces
<1> QED
  BY <1>2, <1>3 DEF InviteCancel, note

LEMMA AcceptAnnounces ==
    ASSUME RosterInv, InviteInv, NEW w, NEW v, NEW c \in Character, NEW d \in Character,
           ConfirmAccept(w, c, d, v)
    PROVE  Announces
<1> DEFINE p == GetPartyByCharacter(d)
           m == invite[charToInvite[c]].member
           rec == IF CanAddMember(party[p], m) THEN WithMember(party[p], m) ELSE party[p]
<1>1. m \in Member
  BY DEF ConfirmAccept, HasInvite, InviteInv, InviteType, Invitation
<1>2. p \in PartyIndex /\ party[p] # None /\ party[p] \in Party
  BY PartyOfFacts DEF ConfirmAccept
<1>3. rec \in Party
  <2>1. CASE CanAddMember(party[p], m)
    <3>1. m.char \notin Chars(party[p])
      BY <1>2, <2>1, NoneAssumption DEF CanAddMember, RosterInv, RosterConsistent, ListedInDictionary
    <3> QED
      BY <1>1, <1>2, <2>1, <3>1, PartyOfFacts, WithMemberFacts DEF CanAddMember, ConfirmAccept
  <2> QED
    BY <1>2, <2>1
<1>4. party' = [party EXCEPT ![p] = rec]
      /\ sent' = <<InfoMsg(p, rec), TimeoutMsg(v, d, TRUE, FALSE), ConfirmMsg(w, c, TRUE, p), DataMsg>>
  BY DEF ConfirmAccept
<1> HIDE DEF rec
<1>5. Reserved' = Reserved
  BY <1>2, <1>3, <1>4, KeptParties
<1>6. Notes(sent')
  <2>1. /\ InfoMsg(p, rec).type = "PARTY_INFO" /\ TimeoutMsg(v, d, TRUE, FALSE).type = "PARTY_INVITE_TIMEOUT"
        /\ ConfirmMsg(w, c, TRUE, p).type = "PARTY_INVITE_CONFIRM" /\ DataMsg.type = "PARTY_DATA"
    BY DEF InfoMsg, TimeoutMsg, ConfirmMsg, DataMsg
  <2> QED
    BY <1>4, <2>1, NotesOfFour
<1> QED
  BY <1>5, <1>6 DEF Announces, Silent

LEMMA DeclineAnnounces ==
    ASSUME RosterInv, NEW w, NEW v, NEW c \in Character, NEW d \in Character,
           ConfirmDecline(w, c, d, v)
    PROVE  Announces
<1> DEFINE p == GetPartyByCharacter(d)
           note == TimeoutMsg(v, d, FALSE, FALSE)
           conf == ConfirmMsg(w, c, FALSE, p)
<1>1. /\ note.type = "PARTY_INVITE_TIMEOUT" /\ conf.type = "PARTY_INVITE_CONFIRM"
      /\ DataMsg.type = "PARTY_DATA"
  BY DEF TimeoutMsg, ConfirmMsg, DataMsg
<1>2. \/ UNCHANGED roster /\ sent' = <<note>> \o <<conf, DataMsg>>
      \/ /\ p # None /\ DestroyParty(p, party[p], charToParty)
         /\ sent' = <<note, DestroyMsg(p, party[p])>> \o <<conf, DataMsg>>
  BY DEF ConfirmDecline
<1> HIDE DEF note, conf
<1>3. CASE UNCHANGED roster /\ sent' = <<note>> \o <<conf, DataMsg>>
  <2>1. Notes(sent')
    BY <1>1, <1>3, NotesOfOne, NotesOfTwo, NotesConcat
  <2> QED
    BY <1>3, <2>1, UntouchedParties DEF Announces, Silent, roster
<1>4. CASE /\ p # None /\ DestroyParty(p, party[p], charToParty)
           /\ sent' = <<note, DestroyMsg(p, party[p])>> \o <<conf, DataMsg>>
  <2>1. Notes(<<note>>) /\ Notes(<<conf, DataMsg>>)
    BY <1>1, NotesOfOne, NotesOfTwo
  <2> DEFINE m == DestroyMsg(p, party[p])
  <2>3. <<note, m>> = Append(<<note>>, m) /\ <<note, m>> \in Seq({note, m})
    <3> HIDE DEF m
    <3> QED
      OBVIOUS
  <2>4. EndsWithin(<<note, m>>, p, party[p])
    BY <2>1, <2>3, NotesThenEnd
  <2>2. EndsWithin(sent', p, party[p])
    <3> HIDE DEF m
    <3>1. EndsWithin(<<note, m>> \o <<conf, DataMsg>>, p, party[p])
      BY <2>1, <2>3, <2>4, EndThenNotes
    <3> QED
      BY <1>4, <3>1 DEF m
  <2> QED
    BY <1>4, <2>2, PartyOfFacts, DestroyAnnounced DEF Announces
<1> QED
  BY <1>2, <1>3, <1>4

\* The member that leaves is the one a party that ends does not name.
LEMMA LeaveAnnounces ==
    ASSUME RosterInv, NEW w \in World, NEW c \in Character, Leave(w, c)
    PROVE  Announces
<1> DEFINE p == GetPartyByCharacter(c)
<1>1. CASE UNCHANGED roster /\ sent' = <<LeaveAckMsg(w, c, FALSE)>>
  <2>1. LeaveAckMsg(w, c, FALSE).type = "PARTY_LEAVE_ACK"
    BY DEF LeaveAckMsg
  <2> QED
    BY <1>1, <2>1, UntouchedParties, NotesOfOne DEF Announces, Silent, roster
<1>2. ASSUME p # None, NEW k \in Slot(party[p], c)
      PROVE  LET rec == WithoutSlot(party[p], k)
             IN /\ rec \in Party /\ Chars(rec) = Chars(party[p]) \ {c}
                /\ Notes(<<LeaveAckMsg(w, c, TRUE)>> \o ForEach(rec, LAMBDA m : LeaveMsg(p, m)))
  <2> DEFINE rec == WithoutSlot(party[p], k)
             each == [j \in DOMAIN rec.members |-> LeaveMsg(p, rec.members[j])]
  <2>1. rec \in Party /\ Chars(rec) = Chars(party[p]) \ {c}
    BY <1>2, PartyOfFacts, WithoutSlotFacts DEF Slot
  <2>2. \A j \in DOMAIN rec.members : each[j].type = "PARTY_LEAVE"
    BY DEF LeaveMsg
  <2>3. LeaveAckMsg(w, c, TRUE).type = "PARTY_LEAVE_ACK"
    BY DEF LeaveAckMsg
  <2>4. ForEach(rec, LAMBDA m : LeaveMsg(p, m)) = each
    BY DEF ForEach
  <2>5. each = [j \in DOMAIN rec.members |-> each[j]]
    OBVIOUS
  <2> HIDE DEF rec, each
  <2>6. Notes(each)
    BY <2>1, <2>2, <2>5, NotesToEach
  <2>7. Notes(<<LeaveAckMsg(w, c, TRUE)>> \o each)
    BY <2>3, <2>6, NotesOfOne, NotesConcat
  <2> QED
    BY <2>1, <2>4, <2>7 DEF rec
<1>3. ASSUME p # None, NEW k \in Slot(party[p], c), NEW notes,
             notes = <<LeaveAckMsg(w, c, TRUE)>>
                       \o ForEach(WithoutSlot(party[p], k), LAMBDA m : LeaveMsg(p, m)),
             DestroyParty(p, WithoutSlot(party[p], k), [charToParty EXCEPT ![c] = None]),
             sent' = Append(notes, DestroyMsg(p, WithoutSlot(party[p], k)))
      PROVE  Announces
  <2> DEFINE rec == WithoutSlot(party[p], k)
  <2>1. rec \in Party /\ Chars(rec) = Chars(party[p]) \ {c} /\ Notes(notes)
    BY <1>2, <1>3
  <2>2. /\ p \in PartyIndex /\ p # None /\ party[p] # None
        /\ c \in Chars(party[p]) /\ Chars(party[p]) \subseteq Character
    BY <1>3, NoneAssumption, PartyOfFacts, CharsFacts
  <2>3. EndsWithin(sent', p, rec)
    BY <1>3, <2>1, NotesThenEnd
  <2>4. Reserved' = Reserved \ {p}
    BY <1>3, <2>2 DEF DestroyParty, Reserved, RosterInv, RosterType
  <2>5. \A x \in Character : charToParty[x] = p <=> x \in Chars(party[p])
    BY <2>2 DEF RosterInv, RosterConsistent, DictionaryListed, ListedInDictionary
  <2>6. Dropped(p) = Chars(party[p])
    BY <1>3, <2>1, <2>2, <2>5 DEF Dropped, DestroyParty, RosterInv, RosterType
  <2>7. Dropped(p) \ Chars(rec) = {c}
    BY <2>1, <2>2, <2>6
  <2>8. Cardinality(Dropped(p) \ Chars(rec)) <= 1
    BY <2>7, FS_Singleton
  <2> QED
    BY <2>1, <2>2, <2>3, <2>4, <2>6, <2>8 DEF Announces, EndsOne
<1>4. ASSUME p # None, NEW k \in Slot(party[p], c), NEW notes,
             notes = <<LeaveAckMsg(w, c, TRUE)>>
                       \o ForEach(WithoutSlot(party[p], k), LAMBDA m : LeaveMsg(p, m)),
             party' = [party EXCEPT ![p] = WithoutSlot(party[p], k)],
             sent' = Append(notes, DataMsg)
      PROVE  Announces
  <2>1. WithoutSlot(party[p], k) \in Party /\ Notes(notes)
    BY <1>2, <1>4
  <2>2. Reserved' = Reserved
    BY <1>4, <2>1, PartyOfFacts, KeptParties
  <2>3. DataMsg.type = "PARTY_DATA"
    BY DEF DataMsg
  <2>4. Notes(Append(notes, DataMsg))
    BY <2>1, <2>3, NotesAppend
  <2> QED
    BY <1>4, <2>2, <2>4 DEF Announces, Silent
<1> QED
  BY <1>1, <1>3, <1>4 DEF Leave

LEMMA LeaderAnnounces ==
    ASSUME RosterInv, NEW w \in World, NEW p \in PartyIndex, NEW c \in Character,
           ChangeLeader(w, p, c)
    PROVE  Announces
<1>1. \A ok : LeaderAckMsg(w, ok).type = "PARTY_CHANGE_LEADER_ACK"
  BY DEF LeaderAckMsg
<1>2. CASE UNCHANGED party /\ sent' = <<LeaderAckMsg(w, FALSE)>>
  BY <1>1, <1>2, UntouchedParties, NotesOfOne DEF Announces, Silent
<1>3. CASE /\ party[p] # None /\ party' = [party EXCEPT ![p].leader = c]
           /\ sent' = <<LeaderAckMsg(w, TRUE)>> \o ForEach(party[p], LAMBDA m : LeaderMsg(p, m, c))
  <2> DEFINE rec == party[p]
             each == [j \in DOMAIN rec.members |-> LeaderMsg(p, rec.members[j], c)]
  <2>1. rec \in Party
    BY <1>3 DEF RosterInv, RosterType
  <2>2. \A j \in DOMAIN rec.members : each[j].type = "PARTY_CHANGE_LEADER"
    BY DEF LeaderMsg
  <2>3. ForEach(rec, LAMBDA m : LeaderMsg(p, m, c)) = each
    BY DEF ForEach
  <2>4. each = [j \in DOMAIN rec.members |-> each[j]]
    OBVIOUS
  <2>5. [rec EXCEPT !.leader = c] \in Party
    BY <2>1 DEF Party
  <2>6. Reserved' = Reserved
    BY <1>3, <2>5, KeptParties
  <2> HIDE DEF each, rec
  <2>7. Notes(<<LeaderAckMsg(w, TRUE)>> \o each)
    BY <1>1, <2>1, <2>2, <2>4, NotesToEach, NotesOfOne, NotesConcat
  <2> QED
    BY <1>3, <2>3, <2>6, <2>7 DEF Announces, Silent, rec
<1> QED
  BY <1>2, <1>3 DEF ChangeLeader

LEMMA DataAnnounces ==
    ASSUME RosterInv, NEW m \in Located, PartyData(m)
    PROVE  Announces
<1> DEFINE p == GetPartyByCharacter(m.char)
<1>1. PICK k \in Slot(party[p], m.char) :
        party' = [party EXCEPT ![p] = WithWorld(party[p], k, m.world)] /\ sent' = <<DataMsg>>
  BY DEF PartyData
<1>2. m.char \in Character /\ m.world \in World \cup {None} /\ p # None
  BY DEF Located, PartyData
<1>3. WithWorld(party[p], k, m.world) \in Party
  BY <1>2, PartyOfFacts, WithWorldFacts DEF Slot
<1>4. Reserved' = Reserved
  BY <1>1, <1>2, <1>3, PartyOfFacts, KeptParties
<1>5. DataMsg.type = "PARTY_DATA"
  BY DEF DataMsg
<1> QED
  BY <1>1, <1>4, <1>5, NotesOfOne DEF Announces, Silent

LEMMA RelayAnnounces ==
    ASSUME RosterInv, NEW p \in PartyIndex, BroadcastToParty(p)
    PROVE  Announces
<1> DEFINE rec == party[p]
<1>1. rec \in Party
  BY DEF BroadcastToParty, RosterInv, RosterType
<1>2. sent' = [j \in DOMAIN rec.members |-> RelayMsg(rec.members[j])]
  BY DEF BroadcastToParty, ForEach
<1>3. \A j \in DOMAIN rec.members : sent'[j].type = "BROADCAST_TO_CHARACTER"
  BY <1>2 DEF RelayMsg
<1>4. sent' = [j \in DOMAIN rec.members |-> sent'[j]]
  BY <1>2
<1> HIDE DEF rec
<1>5. Notes(sent')
  BY <1>1, <1>3, <1>4, NotesToEach
<1> QED
  BY <1>5, UntouchedParties DEF Announces, Silent, BroadcastToParty

LEMMA TickAnnounces ==
    ASSUME RosterInv, InviteInv, Tick
    PROVE  Announces
<1>1. PICK first \in Invited : TickAsserts(first) \/ TickExpires(first) \/ TickRepeats(first)
  BY DEF Tick
<1> DEFINE inv == invite[charToInvite[first]]
           p == inv.party
<1>2. p \in PartyIndex
  BY DEF Invited, InviteInv, InviteType, InvitesIndexed, Invitation
<1>3. CASE status' # "running" /\ sent' = <<>> /\ UNCHANGED party
  BY <1>3 DEF Announces, Dies
<1>4. CASE /\ party[p] # None /\ DestroyParty(p, party[p], charToParty)
           /\ sent' = Append(TimeoutNotes(inv), DestroyMsg(p, party[p]))
  <2>1. EndsWithin(sent', p, party[p])
    BY <1>4, TimeoutNotesAre, NotesThenEnd
  <2> QED
    BY <1>2, <1>4, <2>1, DestroyAnnounced DEF Announces
<1>5. CASE TickRepeats(first)
  <2> DEFINE notes == TimeoutNotes(inv)
             n == Len(notes)
             size == Cardinality(Invited) * n
  <2>1. Notes(notes) /\ n \in {0, 1, 2} /\ DOMAIN notes = 1 .. n
    BY TimeoutNotesAre DEF Notes
  <2>2. sent' = [k \in 1 .. size |-> notes[((k - 1) % n) + 1]] /\ UNCHANGED party
    BY <1>5 DEF TickRepeats
  <2>3. Cardinality(Invited) \in Nat
    <3>1. Invited \subseteq Character
      BY DEF Invited
    <3> QED
      BY <3>1, SizeAssumption, FS_Subset, FS_CardinalityType
  <2> HIDE DEF notes, n
  <2>4. size \in Nat /\ (n = 0 => size = 0)
    BY <2>1, <2>3
  <2> HIDE DEF size
  <2>5. \A k \in 1 .. size : ((k - 1) % n) + 1 \in 1 .. n
    <3>1. CASE n = 0
      BY <2>4, <3>1
    <3>2. CASE n = 1
      BY <2>4, <3>2
    <3>3. CASE n = 2
      BY <2>4, <3>3
    <3> QED
      BY <2>1, <3>1, <3>2, <3>3
  <2>6. \A k \in DOMAIN sent' : sent'[k].type \notin {"CREATE_PARTY", "DESTROY_PARTY"}
    BY <2>1, <2>2, <2>5 DEF Notes
  <2>7. DOMAIN sent' = 1 .. size /\ sent' = [k \in 1 .. size |-> sent'[k]] /\ Len(sent') = size
    <3>1. sent' \in [1 .. size -> {notes[i] : i \in 1 .. n}]
      BY <2>2, <2>5
    <3>2. sent' \in Seq({notes[i] : i \in 1 .. n})
      BY <2>4, <3>1, SeqDef
    <3>3. DOMAIN sent' = 1 .. size
      BY <2>2
    <3> QED
      BY <2>4, <3>1, <3>2, <3>3, LenProperties
  <2>8. Notes(sent')
    BY <2>4, <2>6, <2>7 DEF Notes
  <2> QED
    BY <2>2, <2>8, UntouchedParties DEF Announces, Silent
<1> QED
  BY <1>1, <1>3, <1>4, <1>5 DEF TickAsserts, TickExpires, Crash

LEMMA NextAnnounces ==
    ASSUME RosterInv, InviteInv, Next
    PROVE  Announces
<1>1. ASSUME NEW w \in World, NEW c \in Character, ClientConnect(w, c) \/ Leave(w, c)
      PROVE  Announces
  BY <1>1, ConnectAnnounces, LeaveAnnounces DEF Announces
<1>2. ASSUME NEW src \in Located, NEW tgt \in Located, PartyInvite(src.world, src, tgt)
      PROVE  Announces
  BY <1>2, InviteAnnounces DEF Located
<1>3. ASSUME NEW src \in Located, NEW tgt \in Located, NEW ok \in BOOLEAN, InviteAck(src, tgt, ok)
      PROVE  Announces
  BY <1>3, AckAnnounces
<1>4. ASSUME NEW w \in World, NEW c \in Character, NEW d \in Character, ConfirmUnknown(w, c, d)
      PROVE  Announces
  <2>1. ConfirmMsg(w, c, FALSE, None).type = "PARTY_INVITE_CONFIRM"
    BY DEF ConfirmMsg
  <2> QED
    BY <1>4, <2>1, UntouchedParties, NotesOfOne DEF ConfirmUnknown, Announces, Silent
<1>5. ASSUME NEW w \in World, NEW v \in World, NEW c \in Character, NEW d \in Character,
             InviteCancel(w, c, d, v) \/ ConfirmAccept(w, c, d, v) \/ ConfirmDecline(w, c, d, v)
      PROVE  Announces
  BY <1>5, CancelAnnounces, AcceptAnnounces, DeclineAnnounces
<1> QED
  BY <1>1, <1>2, <1>3, <1>4, <1>5, DisconnectAnnounces, LeaderAnnounces, DataAnnounces,
     RelayAnnounces, TickAnnounces
     DEF Next, OnPacket

\* Every handler that founds or ends a party tells all world servers of it in the step that
\* does, and no handler tells of anything else, for any number of parties and members.
THEOREM LifecycleAlwaysAnnounced == Spec => LifecycleAnnounced
<1>1. IInv /\ [Next]_vars =>
        [status' = "running" => /\ Created' = Reserved' \ Reserved
                                /\ Destroyed' = Reserved \ Reserved']_vars
  BY NextAnnounces, AnnouncedLifecycle DEF IInv
<1> QED
  BY <1>1, IndexesExact, PTL DEF Spec, LifecycleAnnounced

\* RTPartyManagerDestroyParty and what is broadcast before it name the same members: those
\* whose entry it removes, without the one whose departure left the party too small.
THEOREM DestroyAlwaysNamesMembers == Spec => DestroyNamesMembers
<1>1. IInv /\ [Next]_vars =>
        [\A k \in DOMAIN sent' : sent'[k].type = "DESTROY_PARTY" =>
           LET p == sent'[k].id
               gone == {c \in Character : charToParty[c] = p /\ charToParty'[c] = None} IN
           /\ Chars(sent'[k].party) \subseteq gone
           /\ Cardinality(gone \ Chars(sent'[k].party)) <= 1]_vars
  BY NextAnnounces, AnnouncedMembers DEF IInv
<1> QED
  BY <1>1, IndexesExact, PTL DEF Spec, DestroyNamesMembers
=================================================================================
