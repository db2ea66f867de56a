------------------------------ MODULE PageStore ------------------------------
(***************************************************************************)
(* What a page file promises its user: a partial map from page ids to page *)
(* contents.  A page that is handed out was nobody's before and is blank,  *)
(* and a page keeps its contents until its holder writes it or gives it    *)
(* back.  PageFile implements this specification.                          *)
(***************************************************************************)
CONSTANTS PageIds,    \* the ids an allocation may hand out
          Contents,   \* what a holder can write to a page
          Blank,      \* the contents of a page that was just handed out
          Absent      \* the contents of a page that nobody holds

VARIABLE store

StoreInit == store = [p \in PageIds |-> Absent]

Allocate(p) == /\ store[p] = Absent
               /\ store' = [store EXCEPT ![p] = Blank]

Write(p, c) == /\ store[p] # Absent
               /\ store' = [store EXCEPT ![p] = c]

Release(p) == /\ store[p] # Absent
              /\ store' = [store EXCEPT ![p] = Absent]

StoreNext == \E p \in PageIds : \/ Allocate(p)
                                \/ \E c \in Contents : Write(p, c)
                                \/ Release(p)

StoreSpec == StoreInit /\ [][StoreNext]_store
=============================================================================
