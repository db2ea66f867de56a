----------------------------- MODULE SlottedPage -----------------------------
(***************************************************************************)
(* A table page (src/record/SlottedPage.cpp): a header, slot entries that  *)
(* grow up from it, and rows that grow down from the end of the page.  A   *)
(* slot entry is the offset and the size of its row; size 0 marks a row    *)
(* that was deleted.  Slots are never reused and rows never move.          *)
(*                                                                         *)
(* The entries are the sequence slots, whose i-th element is slot id i - 1.*)
(* bytes is the page itself, to see what overwrites what: a byte of the    *)
(* header or of a slot entry is Meta, whatever its value.                  *)
(***************************************************************************)
EXTENDS Integers, Sequences

CONSTANTS PageSize,   \* PAGE_SIZE_BYTES
          Bytes,      \* the bytes of rows
          Payloads,   \* the encoded rows clients insert
          Zero, Meta, \* a byte nobody wrote, a byte of header or entry
          Deleted     \* what a reader gets for a deleted row

HEADER_SIZE == 24
SLOT_ENTRY_SIZE == 4
U16_MODULUS == 65536

ASSUME SlottedPageAssumption ==
  /\ PageSize \in HEADER_SIZE .. U16_MODULUS - 1
  /\ Payloads \subseteq Seq(Bytes) \ {<<>>}
  /\ {Zero, Meta} \cap Bytes = {} /\ Zero # Meta
  /\ Deleted \notin Seq(Bytes \cup {Zero, Meta})

VARIABLES slots, freeStart, freeEnd, bytes

vars == <<slots, freeStart, freeEnd, bytes>>

Offsets == 0 .. PageSize - 1
Slot == [offset : Offsets, size : 0 .. PageSize]

TypeOK == /\ slots \in Seq(Slot)
          /\ freeStart \in 0 .. PageSize
          /\ freeEnd \in 0 .. PageSize
          /\ bytes \in [Offsets -> Bytes \cup {Zero, Meta}]

U16(n) == n % U16_MODULUS
SlotOffset(i) == U16(HEADER_SIZE + (i - 1) * SLOT_ENTRY_SIZE)

EntrySizeIgnored(n) == n <= freeEnd - freeStart   \* mutant: forgets the slot entry
AlwaysSpace(n) == TRUE                            \* mutant: no check
HasSpaceFor(n) == /\ freeStart <= freeEnd
                  /\ n + SLOT_ENTRY_SIZE <= freeEnd - freeStart

(***************************************************************************)
(* A page comes zeroed from the disk manager.  initialize, called once on  *)
(* a page that is new, writes the header.                                  *)
(***************************************************************************)
Init == /\ slots = <<>>
        /\ freeStart = 0
        /\ freeEnd = 0
        /\ bytes = [b \in Offsets |-> Zero]

Initialize == /\ freeStart = 0
              /\ slots' = <<>>
              /\ freeStart' = HEADER_SIZE
              /\ freeEnd' = PageSize
              /\ bytes' = [b \in Offsets |-> IF b < HEADER_SIZE THEN Meta ELSE Zero]

(***************************************************************************)
(* The page after row p was copied to offset o, and after an entry was     *)
(* written at offset e.                                                    *)
(***************************************************************************)
Copied(p, o) == [b \in Offsets |-> IF b \in o .. o + Len(p) - 1 THEN p[b - o + 1] ELSE bytes[b]]
WithEntry(page, e) ==
  [b \in Offsets |-> IF b \in e .. e + SLOT_ENTRY_SIZE - 1 THEN Meta ELSE page[b]]

RowOffsetBelow(p) == U16(freeEnd - Len(p) - 1)    \* mutant: off by one
NewRowOffset(p) == U16(freeEnd - Len(p))

InsertRow(p) ==
  /\ HasSpaceFor(Len(p))
  /\ bytes' = WithEntry(Copied(p, NewRowOffset(p)), SlotOffset(Len(slots) + 1))
  /\ slots' = Append(slots, [offset |-> NewRowOffset(p), size |-> Len(p)])
  /\ freeStart' = U16(freeStart + SLOT_ENTRY_SIZE)
  /\ freeEnd' = U16(freeEnd - Len(p))

(***************************************************************************)
(* deleteRow and updateRow refuse a deleted row; updateRow also refuses    *)
(* a payload of another size, and a row that lies outside the row area.    *)
(***************************************************************************)
Live(i) == slots[i].size # 0

DeleteRow(i) == /\ Live(i)
                /\ slots' = [slots EXCEPT ![i].size = 0]
                /\ UNCHANGED <<freeStart, freeEnd, bytes>>

CorruptBounds(i) == \/ slots[i].offset + slots[i].size > PageSize
                    \/ slots[i].offset < freeEnd

ShorterFits(i, p) == Len(p) <= slots[i].size      \* mutant: shorter rows may replace it
SameSize(i, p) == Len(p) = slots[i].size

UpdateRow(i, p) == /\ Live(i)
                   /\ ~CorruptBounds(i)
                   /\ SameSize(i, p)
                   /\ bytes' = Copied(p, slots[i].offset)
                   /\ UNCHANGED <<slots, freeStart, freeEnd>>

Next == \/ Initialize
        \/ \E p \in Payloads : InsertRow(p)
        \/ \E i \in DOMAIN slots : DeleteRow(i) \/ \E p \in Payloads : UpdateRow(i, p)

Spec == Init /\ [][Next]_vars
-----------------------------------------------------------------------------
(***************************************************************************)
(* The parts of the page stay apart: the entries end at freeStart, below   *)
(* freeEnd, and each row lies below the rows inserted before it and above  *)
(* freeEnd.  A page that was not initialized has no entry and no space.    *)
(***************************************************************************)
LayoutOK ==
  /\ freeStart <= freeEnd
  /\ IF freeStart = 0
       THEN slots = <<>> /\ freeEnd = 0
       ELSE freeStart = HEADER_SIZE + SLOT_ENTRY_SIZE * Len(slots)
  /\ \A i \in DOMAIN slots : /\ freeEnd <= slots[i].offset
                             /\ slots[i].offset + slots[i].size <= PageSize
  /\ \A i, j \in DOMAIN slots :
       i < j => slots[j].offset + slots[j].size <= slots[i].offset

(***************************************************************************)
(* No row is ever copied over the header or a slot entry, and no entry is  *)
(* written over a row.                                                     *)
(***************************************************************************)
MetaIntact == \A b \in Offsets : (bytes[b] = Meta) <=> (b < freeStart)

(***************************************************************************)
(* What readRow returns.                                                   *)
(***************************************************************************)
ReadRow(i) == IF Live(i)
                THEN [k \in 1 .. slots[i].size |-> bytes[slots[i].offset + k - 1]]
                ELSE Deleted

Rows == INSTANCE RowSlots WITH rows <- [i \in DOMAIN slots |-> ReadRow(i)]

(***************************************************************************)
(* A row reads back as it was last written until it is deleted, no matter  *)
(* what happens to its neighbours, and a deleted row never comes back.     *)
(***************************************************************************)
IsRowSlots == Rows!RowsSpec
=============================================================================
