---------------------------- MODULE MCBufferPool ----------------------------
(***************************************************************************)
(* Instances of BufferPool for TLC: fewer frames than pages, so that pages *)
(* are evicted and read back.                                              *)
(***************************************************************************)
EXTENDS BufferPool

CONSTANTS p1, p2, p3, p4, d1

Symmetric == Permutations({p1, p2, p3, p4})
=============================================================================
