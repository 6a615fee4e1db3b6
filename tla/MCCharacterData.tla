-------------------------- MODULE MCCharacterData --------------------------
(***************************************************************************)
(* CharacterSync and CharacterLayout in one run of TLC: in each behaviour    *)
(* either the saves and loads of a character are followed, or the layout of  *)
(* one save and one load.                                                    *)
(***************************************************************************)
EXTENDS MCCharacterSync

VARIABLES subject, shape, mask, refused, phase, dirty, stored, loaded

Saves  == INSTANCE MCCharacterLayout WITH Cases <- {}
Layout == INSTANCE MCCharacterLayout WITH Cases <- Saves!MCCases

layoutVars == <<shape, mask, refused, phase, dirty, stored, loaded>>
allVars    == <<subject, vars, layoutVars>>

NoLayout == shape = 0 /\ mask = 0 /\ refused = 0 /\ phase = 0 /\ dirty = 0 /\ stored = 0 /\ loaded = 0

InitAll ==
    /\ Init
    /\ \/ subject = "sync" /\ NoLayout
       \/ subject = "layout" /\ Layout!Init

NextAll ==
    /\ \/ subject = "sync" /\ Next /\ UNCHANGED layoutVars
       \/ subject = "layout" /\ Layout!Next /\ UNCHANGED vars
    /\ UNCHANGED subject

SyncStep(A) == subject = "sync" /\ A /\ UNCHANGED <<subject, layoutVars>>

SpecAll ==
    /\ InitAll /\ [][NextAll]_allVars
    /\ \A w \in Worlds :
          /\ WF_allVars(SyncStep(Serve(w)))
          /\ WF_allVars(SyncStep(SyncTimer(w)))
          /\ WF_allVars(SyncStep(client[w].closing /\ Disconnect(w)))

-----------------------------------------------------------------------------
\* The types of what is followed; of a layout, that failures are reported by bits
\* the mask has.
TypesOK == IF subject = "sync" THEN SyncTypeOK ELSE Layout!LayoutTypeOK

\* What a save sends is what the database takes, what a load finds is what the
\* world server takes, and what the database did not take stays marked (see
\* CharacterLayout).
ListsAgree ==
    subject = "layout" =>
        Layout!SavedIntact /\ Layout!LoadedIntact /\ Layout!UnsavedStaysMarked
=============================================================================
