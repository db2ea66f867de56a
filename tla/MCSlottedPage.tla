---------------------------- MODULE MCSlottedPage ----------------------------
(***************************************************************************)
(* Instances of SlottedPage for TLC: a page with room for 21 bytes of rows *)
(* and entries, and rows of one, four and nine bytes, so that a page fills *)
(* up exactly, with a gap, and with only a slot entry's room left.         *)
(***************************************************************************)
EXTENDS SlottedPage

CONSTANTS v1, v2

RowSizes == {1, 4, 9}
Uniform == {[k \in 1 .. n |-> v] : n \in RowSizes, v \in {v1, v2}}
=============================================================================
