----------------------------- MODULE CachedStore -----------------------------
(***************************************************************************)
(* What the buffer pool promises the table code above it: a page store     *)
(* whose pages are written in memory and become durable later, one by one  *)
(* and in any order.  Allocation is durable at once.  A restart goes back  *)
(* to what is durable.                                                     *)
(***************************************************************************)
CONSTANTS PageIds, Contents, Blank, Absent

VARIABLES store,      \* the pages as the client sees them
          durable     \* the pages as a restart would find them

cachedVars == <<store, durable>>

CachedInit == /\ store = [p \in PageIds |-> Absent]
              /\ durable = store

Flushed(F) == [p \in PageIds |-> IF p \in F THEN store[p] ELSE durable[p]]

(* Making room for the new page may flush others. *)
Allocate(p, F) == /\ store[p] = Absent
                  /\ store' = [store EXCEPT ![p] = Blank]
                  /\ durable' = [Flushed(F) EXCEPT ![p] = Blank]

Write(p, c) == /\ store[p] # Absent
               /\ store' = [store EXCEPT ![p] = c]
               /\ UNCHANGED durable

Flush(F) == durable' = Flushed(F) /\ UNCHANGED store

Restart(F) == durable' = Flushed(F) /\ store' = durable'

CachedNext == \/ \E F \in SUBSET PageIds : \/ Flush(F)
                                           \/ Restart(F)
                                           \/ \E p \in PageIds : Allocate(p, F)
              \/ \E p \in PageIds, c \in Contents : Write(p, c)

CachedSpec == CachedInit /\ [][CachedNext]_cachedVars
=============================================================================
