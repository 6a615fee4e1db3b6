----------------------------- MODULE MCPartySystem -----------------------------
(* Instances of PartySystem for TLC.                                         *)
EXTENDS PartySystem

CONSTANTS c1, c2, w1, w2, k1, k2

Chars2 == {c1, c2}
Worlds2 == {w1, w2}
Conns2 == {k1, k2}
OneEach == k1 :> w1 @@ k2 :> w2

Interchange == Permutations(Chars2)
\* No step reads the packets of the server's last step.
Unsent == <<party, charToParty, invite, charToInvite, charToWorld, status,
            up, down, opened, client, avatar, worlds, moves>>
=============================================================================
