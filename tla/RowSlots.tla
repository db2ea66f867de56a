------------------------------- MODULE RowSlots -------------------------------
(***************************************************************************)
(* What a table page promises: numbered rows.  A row keeps its number for  *)
(* ever; a deleted row leaves its number unused; an update keeps the size. *)
(***************************************************************************)
EXTENDS Integers, Sequences

CONSTANTS Payloads,   \* what a row may be: non-empty sequences of bytes
          Deleted

VARIABLE rows         \* by slot number, from 1

RowsInit == rows = <<>>

Insert(p) == rows' = Append(rows, p)

Update(i, p) == /\ rows[i] # Deleted
                /\ Len(p) = Len(rows[i])
                /\ rows' = [rows EXCEPT ![i] = p]

Delete(i) == /\ rows[i] # Deleted
             /\ rows' = [rows EXCEPT ![i] = Deleted]

RowsNext == \/ \E p \in Payloads : Insert(p)
            \/ \E i \in DOMAIN rows : Delete(i) \/ \E p \in Payloads : Update(i, p)

RowsSpec == RowsInit /\ [][RowsNext]_rows
=============================================================================
