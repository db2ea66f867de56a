----------------------------- MODULE MCPageFile -----------------------------
(***************************************************************************)
(* Instances of PageFile for TLC: four page ids and two client images.     *)
(***************************************************************************)
EXTENDS PageFile, TLC

CONSTANTS d1, d2

Images == Permutations({d1, d2})
=============================================================================
