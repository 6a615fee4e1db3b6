------------------------- MODULE MCCharacterLayout -------------------------
(***************************************************************************)
(* The characters that CharacterLayout is checked on: every array has one  *)
(* element, or all are empty; every array but those on which writers and   *)
(* readers are known to disagree has one element, and one array has none,  *)
(* one or two, with every section marked; and arrays of one element with   *)
(* one section, two neighbouring sections or all but one section marked;   *)
(* and a section that is refused.                                          *)
(***************************************************************************)
EXTENDS CharacterLayout

Counters == { CounterOf(column[1], column[2]) : column \in
                  ToSet(Columns(ReadLayout)) \cup ToSet(Columns(SlotArraysAppended)) }

Ones == [c \in Counters |-> 1]

\* What is behind a disagreement is garbled: without these arrays, whatever else goes wrong
\* in the sections behind them is seen.
Disagreeing == {<<"EventPassInfo", "MissionPages">>, <<"CostumeInfo", "AppliedSlots">>,
                <<"PlatinumMeritMasteryInfo", "Mastery">>, <<"DiamondMeritMasteryInfo", "Mastery">>}

Agreeing == [c \in Counters |-> IF c \in Disagreeing THEN 0 ELSE 1]

Shapes == {Ones, [c \in Counters |-> 0]} \cup { [Agreeing EXCEPT ![c] = n] : c \in Counters, n \in 0 .. 2 }

Neighbours == { {SaveLayout[i].name, SaveLayout[i + 1].name} : i \in 1 .. Len(SaveLayout) - 1 }

Masks == { {s} : s \in SyncMaskSections } \cup Neighbours
             \cup { SyncMaskSections \ {s} : s \in SyncMaskSections }

Saved(lengths, marked, refusals) == [shape |-> lengths, mask |-> marked, refused |-> refusals]

MCCases == { Saved(lengths, SyncMaskSections, {}) : lengths \in Shapes }
               \cup { Saved(lengths, marked, {}) : lengths \in {Ones, Agreeing}, marked \in Masks }
               \cup { Saved(Agreeing, {s}, {s}) : s \in SyncMaskSections }

=============================================================================
