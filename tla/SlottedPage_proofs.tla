-------------------------- MODULE SlottedPage_proofs --------------------------
(***************************************************************************)
(* Proofs about table pages of every size up to 2^16 - 1 and rows of every *)
(* size.  The layout is inductive together with the types: an insertion    *)
(* that has space for the row and its entry subtracts no more than there   *)
(* is, so no 16-bit operation wraps.                                       *)
(***************************************************************************)
EXTENDS SlottedPage, TLAPS

Inv == TypeOK /\ LayoutOK /\ MetaIntact

(***************************************************************************)
(* The 16-bit arithmetic of insertRow is exact on the offsets of a page.   *)
(***************************************************************************)
LEMMA Modulus == U16_MODULUS \in Nat \ {0}
BY SMT DEF U16_MODULUS

LEMMA NoWrap == \A n \in 0 .. U16_MODULUS - 1 : U16(n) = n
BY SMT, Modulus DEF U16

LEMMA PageFacts == PageSize \in 24 .. U16_MODULUS - 1 /\ PageSize \in Nat
BY SMT, Modulus, SlottedPageAssumption DEF HEADER_SIZE

(***************************************************************************)
(* A row that is inserted is not empty.                                    *)
(***************************************************************************)
LEMMA PayloadFacts ==
  ASSUME NEW p \in Payloads
  PROVE  /\ Len(p) \in Nat \ {0}
         /\ \A k \in 1 .. Len(p) : p[k] \in Bytes
BY SlottedPageAssumption

(***************************************************************************)
(* Where insertRow puts the row and its entry: above the entries there     *)
(* are, below the rows there are, within the page.                         *)
(***************************************************************************)
LEMMA InsertOffsets ==
  ASSUME Inv, NEW p \in Payloads, HasSpaceFor(Len(p))
  PROVE  /\ freeStart = HEADER_SIZE + SLOT_ENTRY_SIZE * Len(slots)
         /\ SlotOffset(Len(slots) + 1) = freeStart
         /\ NewRowOffset(p) = freeEnd - Len(p)
         /\ NewRowOffset(p) \in Offsets
         /\ U16(freeEnd - Len(p)) = freeEnd - Len(p)
         /\ U16(freeStart + SLOT_ENTRY_SIZE) = freeStart + SLOT_ENTRY_SIZE
         /\ freeStart + SLOT_ENTRY_SIZE <= freeEnd - Len(p)
<1>1. Len(p) \in Nat \ {0} /\ Len(slots) \in Nat
  BY PayloadFacts DEF Inv, TypeOK
<1>2. freeStart \in 0 .. PageSize /\ freeEnd \in 0 .. PageSize /\ PageSize \in 24 .. U16_MODULUS - 1
  BY PageFacts DEF Inv, TypeOK
<1>3. Len(p) + 4 <= freeEnd - freeStart
  BY DEF HasSpaceFor, SLOT_ENTRY_SIZE
<1>4. freeStart = 24 + 4 * Len(slots)
  BY <1>1, <1>2, <1>3 DEF Inv, LayoutOK, HEADER_SIZE, SLOT_ENTRY_SIZE
<1>5. freeEnd - Len(p) \in 0 .. U16_MODULUS - 1 /\ freeStart + 4 \in 0 .. U16_MODULUS - 1 /\ freeStart \in 0 .. U16_MODULUS - 1
  BY <1>1, <1>2, <1>3, Modulus
<1>6. 24 + (Len(slots) + 1 - 1) * 4 = freeStart
  BY <1>1, <1>4
<1> QED BY <1>1, <1>2, <1>3, <1>4, <1>5, <1>6, NoWrap
        DEF SlotOffset, NewRowOffset, Offsets, HEADER_SIZE, SLOT_ENTRY_SIZE

(***************************************************************************)
(* The page after insertRow, byte by byte.                                 *)
(***************************************************************************)
LEMMA InsertedBytes ==
  ASSUME Inv, NEW p \in Payloads, InsertRow(p)
  PROVE  /\ freeStart' = freeStart + SLOT_ENTRY_SIZE
         /\ freeEnd' = freeEnd - Len(p)
         /\ slots' = Append(slots, [offset |-> freeEnd - Len(p), size |-> Len(p)])
         /\ bytes' = [b \in Offsets |->
              IF b \in freeStart .. freeStart + SLOT_ENTRY_SIZE - 1 THEN Meta
              ELSE IF b \in freeEnd - Len(p) .. freeEnd - Len(p) + Len(p) - 1
                     THEN p[b - (freeEnd - Len(p)) + 1]
                     ELSE bytes[b]]
<1>1. HasSpaceFor(Len(p)) BY DEF InsertRow
<1>2. SlotOffset(Len(slots) + 1) = freeStart /\ NewRowOffset(p) = freeEnd - Len(p)
      /\ U16(freeEnd - Len(p)) = freeEnd - Len(p)
      /\ U16(freeStart + SLOT_ENTRY_SIZE) = freeStart + SLOT_ENTRY_SIZE
  BY <1>1, InsertOffsets
<1> QED BY <1>2 DEF InsertRow, WithEntry, Copied

LEMMA InsertInv ==
  ASSUME Inv, NEW p \in Payloads, InsertRow(p)
  PROVE  Inv'
<1>1. HasSpaceFor(Len(p)) BY DEF InsertRow
<1> DEFINE n == Len(p)
           o == freeEnd - Len(p)
           new == [offset |-> o, size |-> n]
<1>2. /\ n \in Nat \ {0}
      /\ \A k \in 1 .. n : p[k] \in Bytes
  BY PayloadFacts
<1>3. /\ slots \in Seq(Slot)
      /\ Len(slots) \in Nat
      /\ freeStart \in 0 .. PageSize
      /\ freeEnd \in 0 .. PageSize
      /\ bytes \in [Offsets -> Bytes \cup {Zero, Meta}]
      /\ PageSize \in 24 .. U16_MODULUS - 1
  BY PageFacts DEF Inv, TypeOK
<1>4. /\ freeStart = 24 + 4 * Len(slots)
      /\ o \in Offsets
      /\ freeStart + 4 <= o
  BY <1>1, InsertOffsets DEF HEADER_SIZE, SLOT_ENTRY_SIZE, NewRowOffset
<1>5. /\ freeStart' = freeStart + 4
      /\ freeEnd' = o
      /\ slots' = Append(slots, new)
      /\ bytes' = [b \in Offsets |->
           IF b \in freeStart .. freeStart + 4 - 1 THEN Meta
           ELSE IF b \in o .. o + n - 1 THEN p[b - o + 1] ELSE bytes[b]]
  BY InsertedBytes DEF SLOT_ENTRY_SIZE
<1>6. new \in Slot
  BY <1>2, <1>3, <1>4 DEF Slot, Offsets
<1>7. /\ slots' \in Seq(Slot)
      /\ Len(slots') = Len(slots) + 1
      /\ DOMAIN slots' = 1 .. Len(slots) + 1
      /\ \A i \in 1 .. Len(slots) : slots'[i] = slots[i]
      /\ slots'[Len(slots) + 1] = new
  BY <1>3, <1>5, <1>6
<1> HIDE DEF n, new
<1>8. TypeOK'
  <2>1. ASSUME NEW b \in Offsets, b \in o .. o + n - 1
        PROVE  p[b - o + 1] \in Bytes
    BY <1>2, <1>3, <1>4, <2>1 DEF Offsets
  <2>2. bytes' \in [Offsets -> Bytes \cup {Zero, Meta}]
    BY <1>3, <1>5, <2>1
  <2> QED BY <1>2, <1>3, <1>4, <1>5, <1>7, <2>2 DEF TypeOK, Offsets
<1>9. LayoutOK'
  <2>1. freeStart' <= freeEnd' /\ freeStart' = 24 + 4 * Len(slots')
    BY <1>3, <1>4, <1>5, <1>7 DEF Offsets
  <2>2. \A i \in 1 .. Len(slots) : /\ slots[i].offset \in Nat /\ slots[i].size \in Nat
                                   /\ freeEnd <= slots[i].offset
                                   /\ slots[i].offset + slots[i].size <= PageSize
    <3>1. \A i \in 1 .. Len(slots) : slots[i] \in Slot
      BY <1>3
    <3> QED BY <1>3, <3>1 DEF Inv, LayoutOK, Slot, Offsets
  <2>3. \A i, j \in 1 .. Len(slots) :
          i < j => slots[j].offset + slots[j].size <= slots[i].offset
    BY <1>3 DEF Inv, LayoutOK
  <2>4. /\ new.offset = o /\ new.size = n /\ o + n = freeEnd
        /\ freeEnd' \in Nat /\ freeEnd' <= freeEnd
    BY <1>2, <1>3, <1>4, <1>5 DEF new, n, Offsets
  <2>5. \A i \in 1 .. Len(slots) + 1 : /\ freeEnd' <= slots'[i].offset
                                       /\ slots'[i].offset + slots'[i].size <= PageSize
    <3> TAKE i \in 1 .. Len(slots) + 1
    <3>1. CASE i \in 1 .. Len(slots)
      BY <1>3, <1>7, <2>2, <2>4, <3>1
    <3>2. CASE i = Len(slots) + 1
      BY <1>3, <1>4, <1>5, <1>7, <2>4, <3>2 DEF Offsets
    <3> QED BY <1>3, <3>1, <3>2
  <2>6. \A i, j \in 1 .. Len(slots) + 1 :
          i < j => slots'[j].offset + slots'[j].size <= slots'[i].offset
    <3> SUFFICES ASSUME NEW i \in 1 .. Len(slots) + 1, NEW j \in 1 .. Len(slots) + 1, i < j
                 PROVE  slots'[j].offset + slots'[j].size <= slots'[i].offset
      OBVIOUS
    <3>1. i \in 1 .. Len(slots)
      BY <1>3
    <3>2. CASE j \in 1 .. Len(slots)
      BY <1>7, <2>3, <3>1, <3>2
    <3>3. CASE j = Len(slots) + 1
      <4>1. slots'[j].offset + slots'[j].size = freeEnd
        BY <1>7, <2>4, <3>3
      <4> QED BY <1>7, <2>2, <3>1, <4>1
    <3> QED BY <1>3, <3>2, <3>3
  <2>7. freeStart' # 0
    BY <1>3, <1>5
  <2> QED BY <1>7, <2>1, <2>5, <2>6, <2>7 DEF LayoutOK, HEADER_SIZE, SLOT_ENTRY_SIZE
<1>10. MetaIntact'
  <2> SUFFICES ASSUME NEW b \in Offsets
               PROVE  (bytes'[b] = Meta) <=> (b < freeStart')
    BY DEF MetaIntact
  <2>1. b \in Nat /\ (bytes[b] = Meta <=> b < freeStart)
    BY <1>3 DEF Inv, MetaIntact, Offsets
  <2>2. CASE b \in freeStart .. freeStart + 4 - 1
    BY <1>3, <1>5, <2>1, <2>2
  <2>3. CASE b \in o .. o + n - 1
    <3>1. p[b - o + 1] # Meta
      BY <1>2, <1>3, <1>4, <2>3, SlottedPageAssumption DEF Offsets
    <3>2. ~(b < freeStart') /\ b \notin freeStart .. freeStart + 4 - 1
      BY <1>2, <1>3, <1>4, <1>5, <2>1, <2>3 DEF Offsets
    <3> QED BY <1>5, <2>3, <3>1, <3>2
  <2>4. CASE b \notin freeStart .. freeStart + 4 - 1 /\ b \notin o .. o + n - 1
    BY <1>3, <1>5, <2>1, <2>4
  <2> QED BY <2>2, <2>3, <2>4
<1> QED BY <1>8, <1>9, <1>10 DEF Inv

LEMMA DeleteInv ==
  ASSUME Inv, NEW i \in DOMAIN slots, DeleteRow(i)
  PROVE  Inv'
<1>1. /\ slots \in Seq(Slot)
      /\ \A j \in DOMAIN slots : slots[j] \in Slot
      /\ PageSize \in 24 .. U16_MODULUS - 1
  BY PageFacts DEF Inv, TypeOK
<1>2. /\ slots' = [slots EXCEPT ![i] = [slots[i] EXCEPT !.size = 0]]
      /\ UNCHANGED <<freeStart, freeEnd, bytes>>
  BY DEF DeleteRow
<1>3. [slots[i] EXCEPT !.size = 0] \in Slot
  BY <1>1 DEF Slot
<1>4. /\ slots' \in Seq(Slot) /\ Len(slots') = Len(slots) /\ DOMAIN slots' = DOMAIN slots
      /\ \A j \in DOMAIN slots : /\ slots'[j].offset = slots[j].offset
                                 /\ slots'[j].size \in 0 .. slots[j].size
  BY <1>1, <1>2, <1>3 DEF Slot
<1>5. TypeOK'
  BY <1>2, <1>4 DEF Inv, TypeOK
<1>6. LayoutOK'
  <2>1. \A j \in DOMAIN slots : /\ slots[j].offset \in Nat
                                /\ slots[j].size \in Nat /\ slots'[j].size \in Nat
                                /\ slots'[j].size <= slots[j].size
    BY <1>1, <1>4 DEF Slot, Offsets
  <2>2. \A j \in DOMAIN slots : /\ freeEnd <= slots'[j].offset
                                /\ slots'[j].offset + slots'[j].size <= PageSize
    <3>1. \A j \in DOMAIN slots : /\ freeEnd <= slots[j].offset
                                  /\ slots[j].offset + slots[j].size <= PageSize
      BY DEF Inv, LayoutOK
    <3> QED BY <1>1, <1>4, <2>1, <3>1
  <2>3. \A j, k \in DOMAIN slots :
          j < k => slots'[k].offset + slots'[k].size <= slots'[j].offset
    <3> SUFFICES ASSUME NEW j \in DOMAIN slots, NEW k \in DOMAIN slots, j < k
                 PROVE  slots'[k].offset + slots'[k].size <= slots'[j].offset
      OBVIOUS
    <3>1. slots[k].offset + slots[k].size <= slots[j].offset
      BY DEF Inv, LayoutOK
    <3>2. slots'[k].offset = slots[k].offset /\ slots'[j].offset = slots[j].offset
      BY <1>4
    <3> QED BY <2>1, <3>1, <3>2
  <2>4. freeStart # 0
    BY <1>1 DEF Inv, LayoutOK
  <2> QED BY <1>2, <1>4, <2>2, <2>3, <2>4 DEF Inv, LayoutOK
<1> QED BY <1>2, <1>5, <1>6 DEF Inv, MetaIntact

LEMMA UpdateInv ==
  ASSUME Inv, NEW i \in DOMAIN slots, NEW p \in Payloads, UpdateRow(i, p)
  PROVE  Inv'
<1> DEFINE o == slots[i].offset
<1>1. /\ Len(p) \in Nat \ {0}
      /\ \A k \in 1 .. Len(p) : p[k] \in Bytes
  BY PayloadFacts
<1>2. /\ slots[i] \in Slot
      /\ freeStart \in 0 .. PageSize /\ freeEnd \in 0 .. PageSize
      /\ bytes \in [Offsets -> Bytes \cup {Zero, Meta}]
      /\ PageSize \in 24 .. U16_MODULUS - 1
  BY PageFacts DEF Inv, TypeOK
<1>3. /\ bytes' = [b \in Offsets |-> IF b \in o .. o + Len(p) - 1 THEN p[b - o + 1] ELSE bytes[b]]
      /\ UNCHANGED <<slots, freeStart, freeEnd>>
  BY DEF UpdateRow, Copied
<1>4. o \in Offsets /\ freeStart <= o
  BY <1>2 DEF Inv, LayoutOK, Slot, Offsets
<1>5. ASSUME NEW b \in Offsets, b \in o .. o + Len(p) - 1
      PROVE  p[b - o + 1] \in Bytes /\ p[b - o + 1] # Meta /\ ~(b < freeStart)
  <2>1. b - o + 1 \in 1 .. Len(p)
    BY <1>1, <1>4, <1>5 DEF Offsets
  <2>2. ~(b < freeStart)
    BY <1>1, <1>2, <1>4, <1>5 DEF Offsets
  <2> QED BY <1>1, <2>1, <2>2, SlottedPageAssumption
<1> HIDE DEF o
<1>6. TypeOK'
  BY <1>2, <1>3, <1>5 DEF Inv, TypeOK
<1>7. MetaIntact'
  BY <1>2, <1>3, <1>5 DEF Inv, MetaIntact
<1>8. LayoutOK'
  BY <1>3 DEF Inv, LayoutOK
<1> QED BY <1>6, <1>7, <1>8 DEF Inv

LEMMA InvInit == Init => Inv
BY SlottedPageAssumption DEF Init, Inv, TypeOK, LayoutOK, MetaIntact, Offsets, HEADER_SIZE

LEMMA InvNext == Inv /\ [Next]_vars => Inv'
<1> SUFFICES ASSUME Inv, [Next]_vars PROVE Inv'
  OBVIOUS
<1>1. CASE Initialize
  BY <1>1, SlottedPageAssumption
  DEF Initialize, Inv, TypeOK, LayoutOK, MetaIntact, Offsets, HEADER_SIZE, SLOT_ENTRY_SIZE
<1>2. CASE \E p \in Payloads : InsertRow(p)
  BY <1>2, InsertInv
<1>3. ASSUME NEW i \in DOMAIN slots, DeleteRow(i) PROVE Inv'
  BY <1>3, DeleteInv
<1>4. ASSUME NEW i \in DOMAIN slots, NEW p \in Payloads, UpdateRow(i, p) PROVE Inv'
  BY <1>4, UpdateInv
<1>5. CASE UNCHANGED vars
  BY <1>5 DEF vars, Inv, TypeOK, LayoutOK, MetaIntact
<1> QED BY <1>1, <1>2, <1>3, <1>4, <1>5 DEF Next

LEMMA InvAlways == Spec => []Inv
BY InvInit, InvNext, PTL DEF Spec

(***************************************************************************)
(* The types of a page's state: the two offsets that the header keeps in   *)
(* 16 bits never leave the page.                                           *)
(***************************************************************************)
THEOREM PageTypeCorrect == Spec => []TypeOK
<1>1. Inv => TypeOK BY DEF Inv
<1> QED BY <1>1, InvAlways, PTL

(***************************************************************************)
(* Header, entries and rows of a page stay apart, for every page size.     *)
(***************************************************************************)
THEOREM LayoutAlwaysOK == Spec => []LayoutOK
<1>1. Inv => LayoutOK BY DEF Inv
<1> QED BY <1>1, InvAlways, PTL

(***************************************************************************)
(* No row is copied over the header or an entry, for every page size.      *)
(***************************************************************************)
THEOREM MetaAlwaysIntact == Spec => []MetaIntact
<1>1. Inv => MetaIntact BY DEF Inv
<1> QED BY <1>1, InvAlways, PTL

(***************************************************************************)
(* updateRow never finds the corrupt row bounds that it checks for.        *)
(***************************************************************************)
THEOREM BoundsNeverCorrupt == Spec => [](\A i \in DOMAIN slots : ~CorruptBounds(i))
<1>1. Inv => \A i \in DOMAIN slots : ~CorruptBounds(i)
  <2> SUFFICES ASSUME Inv, NEW i \in DOMAIN slots PROVE ~CorruptBounds(i)
    OBVIOUS
  <2>1. slots[i] \in Slot /\ freeEnd \in 0 .. PageSize
    BY DEF Inv, TypeOK
  <2> QED BY <2>1, SlottedPageAssumption DEF Inv, LayoutOK, CorruptBounds, Slot, Offsets, HEADER_SIZE
<1> QED BY <1>1, InvAlways, PTL
-----------------------------------------------------------------------------
(***************************************************************************)
(* The page implements numbered rows: what readRow returns for a slot is   *)
(* what was last written there, because no other row shares a byte with it.*)
(***************************************************************************)
NumberedRows == [i \in DOMAIN slots |-> ReadRow(i)]

LEMMA SlotFacts ==
  ASSUME Inv, NEW i \in DOMAIN slots
  PROVE  /\ slots \in Seq(Slot) /\ Len(slots) \in Nat /\ DOMAIN slots = 1 .. Len(slots) /\ i \in Nat
         /\ slots[i].offset \in Nat /\ slots[i].size \in Nat
         /\ slots[i].offset + slots[i].size <= PageSize
         /\ freeEnd <= slots[i].offset /\ freeStart <= freeEnd
         /\ freeEnd \in Nat /\ freeStart \in Nat
<1>1. slots \in Seq(Slot) /\ slots[i] \in Slot /\ freeEnd \in 0 .. PageSize /\ freeStart \in 0 .. PageSize
  BY DEF Inv, TypeOK
<1>2. slots[i].offset \in Nat /\ slots[i].size \in Nat
  BY <1>1, PageFacts DEF Slot, Offsets
<1> QED BY <1>1, <1>2, PageFacts DEF Inv, LayoutOK

LEMMA ReadUnchanged ==
  ASSUME Inv, NEW i \in DOMAIN slots, slots'[i] = slots[i],
         \A b \in Offsets : slots[i].offset <= b /\ b < slots[i].offset + slots[i].size
                               => bytes'[b] = bytes[b]
  PROVE  ReadRow(i)' = ReadRow(i)
<1>1. \A k \in 1 .. slots[i].size : slots[i].offset + k - 1 \in Offsets
                                     /\ slots[i].offset <= slots[i].offset + k - 1
                                     /\ slots[i].offset + k - 1 < slots[i].offset + slots[i].size
  BY SlotFacts, PageFacts DEF Offsets
<1>2. \A k \in 1 .. slots[i].size :
        bytes'[slots[i].offset + k - 1] = bytes[slots[i].offset + k - 1]
  BY <1>1
<1> QED BY <1>2 DEF ReadRow, Live

(***************************************************************************)
(* A live row is a sequence of bytes, as long as its entry says.           *)
(***************************************************************************)
LEMMA LiveRow ==
  ASSUME Inv, NEW i \in DOMAIN slots, Live(i)
  PROVE  ReadRow(i) # Deleted /\ Len(ReadRow(i)) = slots[i].size
<1> DEFINE n == slots[i].size
           row == [k \in 1 .. n |-> bytes[slots[i].offset + k - 1]]
<1>1. n \in Nat /\ \A k \in 1 .. n : slots[i].offset + k - 1 \in Offsets
  BY SlotFacts, PageFacts DEF Offsets
<1>2. bytes \in [Offsets -> Bytes \cup {Zero, Meta}]
  BY DEF Inv, TypeOK
<1>3. \A k \in 1 .. n : bytes[slots[i].offset + k - 1] \in Bytes \cup {Zero, Meta}
  BY <1>1, <1>2
<1>4. ReadRow(i) = row
  BY DEF ReadRow
<1> HIDE DEF n
<1>5. row \in Seq(Bytes \cup {Zero, Meta}) /\ Len(row) = n
  BY <1>1, <1>3
<1> QED BY <1>4, <1>5, SlottedPageAssumption DEF n

(***************************************************************************)
(* A row that was just copied to its place reads back.                     *)
(***************************************************************************)
LEMMA ReadCopied ==
  ASSUME Inv, Inv', NEW p \in Payloads, NEW i \in DOMAIN slots',
         slots'[i].size = Len(p),
         \A k \in 1 .. Len(p) : bytes'[slots'[i].offset + k - 1] = p[k]
  PROVE  ReadRow(i)' = p
<1>1. Len(p) \in Nat \ {0} /\ p \in Seq(Bytes)
  BY PayloadFacts, SlottedPageAssumption
<1>2. ReadRow(i)' = [k \in 1 .. Len(p) |-> bytes'[slots'[i].offset + k - 1]]
  BY <1>1 DEF ReadRow, Live
<1>3. p = [k \in 1 .. Len(p) |-> p[k]]
  BY <1>1
<1> QED BY <1>2, <1>3

(***************************************************************************)
(* A sequence that has one more element is the sequence with it appended.  *)
(***************************************************************************)
LEMMA AppendRow ==
  ASSUME NEW f, NEW g, NEW m \in Nat, NEW p,
         f = [i \in 1 .. m |-> f[i]], g = [i \in 1 .. m + 1 |-> g[i]],
         \A i \in 1 .. m : g[i] = f[i], g[m + 1] = p
  PROVE  g = Append(f, p)
<1> DEFINE S == {f[i] : i \in 1 .. m} \cup {p}
<1>1. f \in Seq(S) 
  BY DEF S
<1>2. Len(f) = m
  BY <1>1
<1>3. p \in S 
  OBVIOUS
<1> HIDE DEF S
<1>4. /\ Append(f, p) \in Seq(S) /\ Len(Append(f, p)) = m + 1
      /\ \A i \in 1 .. m : Append(f, p)[i] = f[i]
      /\ Append(f, p)[m + 1] = p
  BY <1>1, <1>2, <1>3
<1>5. Append(f, p) = [i \in 1 .. m + 1 |-> Append(f, p)[i]]
  BY <1>4
<1>6. \A i \in 1 .. m + 1 : Append(f, p)[i] = g[i]
  <2> TAKE i \in 1 .. m + 1
  <2>1. i \in 1 .. m \/ i = m + 1 OBVIOUS
  <2> QED BY <1>4, <2>1
<1> QED BY <1>5, <1>6

LEMMA InsertsRow ==
  ASSUME Inv, Inv', NEW p \in Payloads, InsertRow(p)
  PROVE  NumberedRows' = Append(NumberedRows, p)
<1> DEFINE n == Len(p)
           o == freeEnd - Len(p)
<1>0. PICK m \in Nat : m = Len(slots)
  BY DEF Inv, TypeOK
<1>1. HasSpaceFor(n) BY DEF InsertRow
<1>2. /\ n \in Nat \ {0} /\ m \in Nat /\ slots \in Seq(Slot) /\ DOMAIN slots = 1 .. m
      /\ freeEnd \in Nat /\ freeStart \in Nat
      /\ o \in Offsets /\ o \in Nat /\ freeStart + 4 <= o /\ o + n = freeEnd
      /\ PageSize \in Nat /\ freeEnd <= PageSize
  BY <1>0, <1>1, PayloadFacts, PageFacts, InsertOffsets
     DEF Inv, TypeOK, Offsets, NewRowOffset, SLOT_ENTRY_SIZE
<1>3. /\ slots' = Append(slots, [offset |-> o, size |-> n])
      /\ bytes' = [b \in Offsets |->
           IF b \in freeStart .. freeStart + 4 - 1 THEN Meta
           ELSE IF b \in o .. o + n - 1 THEN p[b - o + 1] ELSE bytes[b]]
  BY InsertedBytes DEF SLOT_ENTRY_SIZE
<1>4. /\ DOMAIN slots' = 1 .. m + 1
      /\ \A i \in 1 .. m : slots'[i] = slots[i]
      /\ slots'[m + 1] = [offset |-> o, size |-> n]
  BY <1>0, <1>2, <1>3
<1> HIDE DEF n, o
<1>5. \A i \in 1 .. m : ReadRow(i)' = ReadRow(i)
  <2> TAKE i \in 1 .. m
  <2>1. i \in DOMAIN slots /\ freeEnd <= slots[i].offset /\ slots[i].offset \in Nat
    BY <1>2, SlotFacts
  <2>2. ASSUME NEW b \in Offsets, slots[i].offset <= b PROVE bytes'[b] = bytes[b]
    <3>1. b \in Nat /\ b \notin freeStart .. freeStart + 4 - 1 /\ b \notin o .. o + n - 1
      BY <1>2, <2>1, <2>2 DEF Offsets
    <3> QED BY <1>3, <3>1
  <2> QED BY <1>4, <2>1, <2>2, ReadUnchanged
<1>6. ReadRow(m + 1)' = p
  <2>1. \A k \in 1 .. n : bytes'[o + k - 1] = p[k]
    <3> TAKE k \in 1 .. n
    <3> DEFINE b == o + k - 1
    <3>1. /\ b \in Offsets /\ b \notin freeStart .. freeStart + 4 - 1
          /\ b \in o .. o + n - 1 /\ b - o + 1 = k
      BY <1>2 DEF Offsets
    <3> HIDE DEF b
    <3>2. bytes'[b] = p[k]
      BY <1>3, <3>1
    <3> QED BY <3>2 DEF b
  <2>2. m + 1 \in DOMAIN slots' /\ slots'[m + 1].offset = o /\ slots'[m + 1].size = n
    BY <1>2, <1>4
  <2>3. \A k \in 1 .. Len(p) : bytes'[slots'[m + 1].offset + k - 1] = p[k]
    BY <2>1, <2>2 DEF n
  <2>4. slots'[m + 1].size = Len(p)
    BY <2>2 DEF n
  <2> QED BY <2>2, <2>3, <2>4, ReadCopied
<1>7. NumberedRows' = [i \in 1 .. m + 1 |-> ReadRow(i)'] /\ NumberedRows = [i \in 1 .. m |-> ReadRow(i)]
  BY <1>2, <1>4 DEF NumberedRows
<1>8. /\ NumberedRows = [i \in 1 .. m |-> NumberedRows[i]]
      /\ NumberedRows' = [i \in 1 .. m + 1 |-> NumberedRows'[i]]
      /\ \A i \in 1 .. m : NumberedRows'[i] = NumberedRows[i]
      /\ NumberedRows'[m + 1] = p
  <2>1. \A i \in 1 .. m : i \in 1 .. m + 1
    BY <1>2
  <2>2. m + 1 \in 1 .. m + 1
    BY <1>2
  <2>3. \A i \in 1 .. m + 1 : NumberedRows'[i] = ReadRow(i)'
    BY <1>7
  <2>4. \A i \in 1 .. m : NumberedRows[i] = ReadRow(i)
    BY <1>7
  <2>5. NumberedRows = [i \in 1 .. m |-> NumberedRows[i]]
    BY <1>7, <2>4
  <2>6. NumberedRows' = [i \in 1 .. m + 1 |-> NumberedRows'[i]]
    BY <1>7, <2>3
  <2>7. \A i \in 1 .. m : NumberedRows'[i] = NumberedRows[i]
    BY <1>5, <2>1, <2>3, <2>4
  <2>8. NumberedRows'[m + 1] = p
    BY <1>6, <2>2, <2>3
  <2> QED BY <2>5, <2>6, <2>7, <2>8
<1> QED BY <1>2, <1>8, AppendRow

LEMMA DeletesRow ==
  ASSUME Inv, NEW i \in DOMAIN slots, DeleteRow(i)
  PROVE  Rows!Delete(i)
<1>1. /\ Live(i) /\ bytes' = bytes
      /\ slots' = [slots EXCEPT ![i] = [slots[i] EXCEPT !.size = 0]]
  BY DEF DeleteRow
<1>2. /\ slots'[i].size = 0 /\ DOMAIN slots' = DOMAIN slots
      /\ \A j \in DOMAIN slots : j # i => slots'[j] = slots[j]
  <2>1. slots \in Seq(Slot) /\ DOMAIN slots = 1 .. Len(slots)
    BY SlotFacts
  <2>2. slots[i] \in Slot
    BY <2>1
  <2>3. slots'[i] = [slots[i] EXCEPT !.size = 0]
    BY <1>1, <2>1
  <2>4. slots'[i].size = 0
    BY <2>2, <2>3 DEF Slot
  <2> QED BY <1>1, <2>1, <2>4
<1>3. ReadRow(i)' = Deleted
  BY <1>2 DEF ReadRow, Live
<1>4. \A j \in DOMAIN slots : j # i => ReadRow(j)' = ReadRow(j)
  BY <1>1, <1>2, ReadUnchanged
<1>5. NumberedRows' = [NumberedRows EXCEPT ![i] = Deleted]
  BY <1>2, <1>3, <1>4 DEF NumberedRows
<1>6. NumberedRows[i] # Deleted
  BY <1>1, LiveRow DEF NumberedRows
<1> QED BY <1>5, <1>6 DEF Rows!Delete, NumberedRows

LEMMA UpdatesRow ==
  ASSUME Inv, Inv', NEW i \in DOMAIN slots, NEW p \in Payloads, UpdateRow(i, p)
  PROVE  Rows!Update(i, p)
<1> DEFINE o == slots[i].offset
<1>1. /\ Live(i) /\ slots[i].size = Len(p)
      /\ slots' = slots /\ UNCHANGED <<freeStart, freeEnd>>
      /\ bytes' = [b \in Offsets |-> IF b \in o .. o + Len(p) - 1 THEN p[b - o + 1] ELSE bytes[b]]
  BY DEF UpdateRow, SameSize, Copied
<1>2. /\ Len(p) \in Nat \ {0} /\ o \in Nat /\ PageSize \in Nat /\ o + Len(p) <= PageSize
  BY <1>1, PayloadFacts, SlotFacts, PageFacts
<1> HIDE DEF o
<1>3. ReadRow(i)' = p
  <2>1. \A k \in 1 .. Len(p) : bytes'[o + k - 1] = p[k]
    <3> TAKE k \in 1 .. Len(p)
    <3> DEFINE b == o + k - 1
    <3>1. b \in Offsets /\ b \in o .. o + Len(p) - 1 /\ b - o + 1 = k
      BY <1>2 DEF Offsets
    <3> HIDE DEF b
    <3>2. bytes'[b] = p[k]
      BY <1>1, <3>1
    <3> QED BY <3>2 DEF b
  <2>2. i \in DOMAIN slots' /\ slots'[i].offset = o /\ slots'[i].size = Len(p)
    BY <1>1 DEF o
  <2> QED BY <2>1, <2>2, ReadCopied
<1>4. \A j \in DOMAIN slots : j # i => ReadRow(j)' = ReadRow(j)
  <2> SUFFICES ASSUME NEW j \in DOMAIN slots, j # i PROVE ReadRow(j)' = ReadRow(j)
    OBVIOUS
  <2>1. \/ o + Len(p) <= slots[j].offset
        \/ slots[j].offset + slots[j].size <= o
    <3>1. i \in Nat /\ j \in Nat
      BY SlotFacts
    <3>2. i < j \/ j < i
      BY <3>1
    <3> QED BY <1>1, <3>2 DEF Inv, LayoutOK, o
  <2>2. slots[j].offset \in Nat /\ slots[j].size \in Nat
    BY SlotFacts
  <2>3. ASSUME NEW b \in Offsets, slots[j].offset <= b, b < slots[j].offset + slots[j].size
        PROVE  bytes'[b] = bytes[b]
    <3>1. b \notin o .. o + Len(p) - 1
      BY <1>2, <2>1, <2>2, <2>3 DEF Offsets
    <3> QED BY <1>1, <3>1
  <2>4. slots'[j] = slots[j]
    BY <1>1
  <2> QED BY <2>3, <2>4, ReadUnchanged
<1>5. NumberedRows' = [NumberedRows EXCEPT ![i] = p]
  BY <1>1, <1>3, <1>4 DEF NumberedRows
<1>6. NumberedRows[i] # Deleted /\ Len(NumberedRows[i]) = Len(p)
  BY <1>1, LiveRow DEF NumberedRows
<1> QED BY <1>5, <1>6 DEF Rows!Update, NumberedRows

LEMMA StepOfRows ==
  ASSUME Inv, Inv', [Next]_vars
  PROVE  [Rows!RowsNext]_NumberedRows
<1>1. DOMAIN NumberedRows = DOMAIN slots
  BY DEF NumberedRows
<1>2. CASE Initialize
  <2>1. slots = <<>> /\ slots' = <<>>
    BY <1>2 DEF Initialize, Inv, LayoutOK
  <2> QED BY <2>1 DEF NumberedRows
<1>3. ASSUME NEW p \in Payloads, InsertRow(p) PROVE Rows!RowsNext
  BY <1>3, InsertsRow DEF Rows!RowsNext, Rows!Insert, NumberedRows
<1>4. ASSUME NEW i \in DOMAIN slots, DeleteRow(i) PROVE Rows!RowsNext
  BY <1>1, <1>4, DeletesRow DEF Rows!RowsNext, NumberedRows
<1>5. ASSUME NEW i \in DOMAIN slots, NEW p \in Payloads, UpdateRow(i, p) PROVE Rows!RowsNext
  BY <1>1, <1>5, UpdatesRow DEF Rows!RowsNext, NumberedRows
<1>6. CASE UNCHANGED vars
  BY <1>6 DEF vars, NumberedRows, ReadRow, Live
<1> QED BY <1>2, <1>3, <1>4, <1>5, <1>6 DEF Next

(***************************************************************************)
(* A row reads back as it was last written until it is deleted, for every  *)
(* page size and every set of rows.                                        *)
(***************************************************************************)
THEOREM PageIsRowSlots == Spec => IsRowSlots
<1>1. Init => Rows!RowsInit
  BY DEF Init, Rows!RowsInit
<1>2. Inv /\ Inv' /\ [Next]_vars => [Rows!RowsNext]_NumberedRows
  BY StepOfRows
<1> QED BY <1>1, <1>2, InvAlways, PTL DEF Spec, IsRowSlots, Rows!RowsSpec, NumberedRows
=============================================================================
