------------------------------ MODULE MCPartySvr ------------------------------
(* Instances of PartySvr for TLC.                                            *)
EXTENDS PartySvr, TLC

CONSTANTS c1, c2, c3, w1

Chars3 == {c1, c2, c3}
Worlds1 == {w1}

\* Characters and world servers are interchangeable in every safety property.
Interchange == Permutations(Chars3)
\* No step reads the packets of the step before it: states that differ only in
\* what was sent last have the same successors.
Unsent == <<party, charToParty, invite, charToInvite, charToWorld, status>>
=============================================================================
