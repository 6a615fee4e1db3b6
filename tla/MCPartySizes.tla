----------------------------- MODULE MCPartySizes -----------------------------
(* PartySvr with parties of three and with parties of two, in one run: with   *)
(* three players a party of two that loses a member ends, one of three goes   *)
(* on, and one of two can be full while invitations are outstanding.          *)
EXTENDS MCPartySvr

Pairs == INSTANCE PartySvr WITH MaxMembers <- 2

VARIABLE limit

InitSizes ==
    \/ limit = MaxMembers /\ Init
    \/ limit = 2 /\ Pairs!Init

NextSizes ==
    /\ \/ limit = MaxMembers /\ Next
       \/ limit = 2 /\ Pairs!Next
    /\ UNCHANGED limit

SpecSizes == InitSizes /\ [][NextSizes]_<<vars, limit>>

UnsentSizes == <<Unsent, limit>>
=============================================================================
