---------------------------- MODULE MCTableManager ----------------------------
(***************************************************************************)
(* Instances of TableManager for TLC: two tables, whose pages have room    *)
(* for one or two rows, or for none.                                       *)
(***************************************************************************)
EXTENDS TableManager, TLC

CONSTANTS A, B, v1, v2

OneAndTwo == (A :> 1) @@ (B :> 2)
TwoAndNone == (A :> 2) @@ (B :> 0)
OneAndNone == (A :> 1) @@ (B :> 0)
=============================================================================
