----------------------------- MODULE MCServers -----------------------------
(***************************************************************************)
(* The servers that meet through the master server, one subject in each     *)
(* behaviour: the party server and the replicas of its parties; or the      *)
(* sessions of an account two persons share and of one person who goes from *)
(* one world server to the other.                                           *)
(***************************************************************************)
EXTENDS MCPartySystem, Sessions

CONSTANTS p1, p2, a1, login, database, master

VARIABLE subject

Persons    == {p1, p2}
OneAccount == [p \in Persons |-> a1]
Accounts1  == {a1}

\* The connections a server accepts; in the shared case, one on the world servers together.
Limits == [s \in {login, w1, w2} |-> IF s = login THEN 2 ELSE 1]
OneAway == Len(conn'[w1]) + Len(conn'[w2]) <= 1

\* One player, and one connection to each server.
OnTour ==
    /\ Len(conn'[login]) <= 1
    /\ \A s \in Servers : \A i \in DOMAIN conn'[s] : conn'[s][i].player = p1

\* The world servers can be interchanged, each with its connection.
Exchange == w1 :> w2 @@ w2 :> w1 @@ k1 :> k2 @@ k2 :> k1
InterchangeAll == Interchange \cup {c @@ Exchange : c \in Interchange}

ASSUME ServersAssumption == SessionsAssumption

-----------------------------------------------------------------------------
InitAll == InitSystem /\ SessionsInit /\ subject \in {"parties", "shared", "tour"}

NextAll ==
    /\ UNCHANGED subject
    /\ \/ subject = "parties" /\ NextSystem /\ UNCHANGED sessionVars
       \/ subject = "shared" /\ SessionsNext /\ OneAway /\ UNCHANGED allVars
       \/ subject = "tour" /\ SessionsNext /\ OnTour /\ UNCHANGED allVars

SpecAll == InitAll /\ [][NextAll]_<<subject, allVars, sessionVars>>

UnsentAll == <<subject, Unsent, sessionVars>>

-----------------------------------------------------------------------------
\* The types of the parties, their replicas and the packets about them, and of the
\* connections and what is counted of them.
TypesOK == SystemTypeOK /\ SessionsTypeOK
=============================================================================
