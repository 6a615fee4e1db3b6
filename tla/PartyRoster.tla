------------------------------ MODULE PartyRoster ------------------------------
(***************************************************************************)
(* What the party service promises the rest of the cluster, with its       *)
(* pools, dictionaries, invitations and packets hidden: a character is in  *)
(* at most one party, enters one only while it is in none, a party starts  *)
(* with one member, grows by one at a time up to a limit, loses members    *)
(* one at a time, and otherwise ends for all its members at once.          *)
(***************************************************************************)
EXTENDS Integers, FiniteSets

CONSTANTS
    Character,
    PartyIndex,   \* the identities parties can have; reused once free
    MaxMembers,
    None

VARIABLE memberOf \* the party of each character, or None

Members(p) == {c \in Character : memberOf[c] = p}

Init == memberOf = [c \in Character |-> None]

\* c founds a party under an identity nobody uses.
Found(c, p) ==
    /\ memberOf[c] = None
    /\ Members(p) = {}
    /\ memberOf' = [memberOf EXCEPT ![c] = p]

Join(c, p) ==
    /\ memberOf[c] = None
    /\ Members(p) # {}
    /\ Cardinality(Members(p)) < MaxMembers
    /\ memberOf' = [memberOf EXCEPT ![c] = p]

\* A leaver leaves a real party behind: a party is never left with one member.
Leave(c) ==
    /\ memberOf[c] # None
    /\ Cardinality(Members(memberOf[c])) > 2
    /\ memberOf' = [memberOf EXCEPT ![c] = None]

Disband(p) ==
    /\ Members(p) # {}
    /\ memberOf' = [c \in Character |-> IF c \in Members(p) THEN None ELSE memberOf[c]]

Next ==
    \/ \E c \in Character, p \in PartyIndex : Found(c, p) \/ Join(c, p)
    \/ \E c \in Character : Leave(c)
    \/ \E p \in PartyIndex : Disband(p)

Spec == Init /\ [][Next]_memberOf
=============================================================================
