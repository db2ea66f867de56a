---------------------------- MODULE MCTableCalls ----------------------------
(***************************************************************************)
(* Calls over two frames and three pages: the last page of a table may be  *)
(* evicted by the new page that is to be linked to it, or not.             *)
(***************************************************************************)
EXTENDS TableCalls

CONSTANTS p1, p2, p3, d1

Symmetric == Permutations({p1, p2, p3})
=============================================================================
