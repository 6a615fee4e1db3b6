-------------------------- MODULE MCCharacterSync --------------------------
(***************************************************************************)
(* Instances of CharacterSync for TLC.                                     *)
(***************************************************************************)
EXTENDS CharacterSync
=============================================================================
