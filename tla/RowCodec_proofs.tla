--------------------------- MODULE RowCodec_proofs ---------------------------
EXTENDS RowCodec, WellFoundedInduction, TLAPS

(***************************************************************************)
(* Induction.  A set of numbers that has 0, and with each number the next, *)
(* has them all, since the least number it lacks would have a predecessor. *)
(***************************************************************************)
Less == {pair \in Nat \X Nat : pair[1] < pair[2]}

(* Every set of numbers that is not empty has a least one.                 *)
LEMMA Least ==
  ASSUME NEW T \in SUBSET Nat, T # {}
  PROVE  \E x \in T : \A y \in T : x <= y
<1>1. IsWellFoundedOn(Less, Nat)
  BY NatLessThanWellFounded DEF OpToRel, Less
<1>2. PICK x \in T : \A y \in T : <<y, x>> \notin Less
  BY <1>1, WFMin
<1>3. \A a, b \in Nat : <<a, b>> \in Less <=> a < b
  BY DEF Less
<1>4. x \in Nat /\ \A y \in T : y \in Nat
  OBVIOUS
<1>5. ASSUME NEW y \in T PROVE x <= y
  <2>1. ~(y < x)
    BY <1>2, <1>3, <1>4
  <2> QED BY <1>4, <2>1
<1> QED BY <1>5

(* Every set of numbers up to n that is not empty has a greatest one.      *)
LEMMA Greatest ==
  ASSUME NEW n \in Nat, NEW T \in SUBSET (0 .. n), T # {}
  PROVE  \E x \in T : \A y \in T : x >= y
<1> DEFINE U == {n - y : y \in T}
<1>1. U \in SUBSET Nat
  OBVIOUS
<1>2. U # {}
  <2>1. PICK y \in T : TRUE
    OBVIOUS
  <2>2. n - y \in U
    OBVIOUS
  <2> QED BY <2>2
<1> HIDE DEF U
<1>3. PICK u \in U : \A v \in U : u <= v
  BY <1>1, <1>2, Least
<1>4. PICK x \in T : u = n - x
  BY DEF U
<1>5. ASSUME NEW y \in T PROVE x >= y
  <2>1. n - y \in U
    BY DEF U
  <2>2. n - x <= n - y
    BY <1>3, <1>4, <2>1
  <2> QED BY <2>2
<1> QED BY <1>5

(* What holds of 0, and of k + 1 if it holds of k, holds up to n.          *)
LEMMA Induction ==
  ASSUME NEW n \in Nat, NEW T, 0 \in T, \A k \in 0 .. n - 1 : k \in T => k + 1 \in T
  PROVE  \A k \in 0 .. n : k \in T
<1> SUFFICES ASSUME (0 .. n) \ T # {} PROVE FALSE
  OBVIOUS
<1> DEFINE U == (0 .. n) \ T
<1>0. U \in SUBSET Nat /\ U # {}
  OBVIOUS
<1>1. PICK x \in U : \A y \in U : x <= y
  BY <1>0, Least
<1>2. x # 0 /\ x - 1 \in 0 .. n - 1 /\ x = (x - 1) + 1
  BY <1>1
<1>3. x - 1 \in T
  BY <1>1, <1>2
<1> QED BY <1>1, <1>2, <1>3
-----------------------------------------------------------------------------
(***************************************************************************)
(* The layout: offsets grow, a value lies after the one before it, and all *)
(* of them lie between the null bitmap and EncodedSize.                    *)
(***************************************************************************)
IsSchema(s) == s \in Seq(Columns) /\ Len(s) \in 1 .. 255

LayoutStep(s, offset, i) ==
  IF i = 0 THEN AlignTo(1 + NullBitmapSize(Len(s)), 8)
           ELSE AlignTo(offset, ValueAlignment(s[i].type)) + ValueSize(s[i])

(* The offset after i values, and the one at which value i starts.         *)
Offset(s) ==
  LET offset[i \in 0 .. Len(s)] ==
        IF i = 0 THEN AlignTo(1 + NullBitmapSize(Len(s)), 8)
                 ELSE AlignTo(offset[i - 1], ValueAlignment(s[i].type))
                        + ValueSize(s[i])
  IN  offset
At(s, i) == AlignTo(Offset(s)[i - 1], ValueAlignment(s[i].type))

LEMMA ColumnFacts ==
  ASSUME NEW s, IsSchema(s), NEW i \in 1 .. Len(s)
  PROVE  /\ s[i].type \in Types /\ s[i].nullable \in BOOLEAN /\ s[i].stringCapacity \in Nat
         /\ ValueAlignment(s[i].type) \in {1, 4, 8}
         /\ ValueSize(s[i]) \in Nat
<1>1. s[i] \in Columns
  BY DEF IsSchema
<1>2. s[i].type \in Types /\ s[i].nullable \in BOOLEAN /\ s[i].stringCapacity \in Nat
  BY <1>1 DEF Columns
<1>3. ValueAlignment(s[i].type) \in {1, 4, 8}
  BY <1>2 DEF ValueAlignment, SizeOf, Types
<1>4. ValueSize(s[i]) \in Nat
  BY <1>2 DEF ValueSize, SizeOf, Types
<1> QED BY <1>2, <1>3, <1>4

LEMMA AlignAbove ==
  ASSUME NEW offset \in Nat, NEW alignment \in {1, 4, 8}
  PROVE  AlignTo(offset, alignment) \in Nat /\ AlignTo(offset, alignment) >= offset
<1>1. CASE alignment = 1
  BY <1>1 DEF AlignTo
<1>2. CASE alignment = 4
  BY <1>2 DEF AlignTo
<1>3. CASE alignment = 8
  BY <1>3 DEF AlignTo
<1> QED BY <1>1, <1>2, <1>3

LEMMA OffsetExists ==
  ASSUME NEW s, Len(s) \in Nat
  PROVE  \E h : h = [i \in 0 .. Len(s) |-> LayoutStep(s, h[i - 1], i)]
<1> DEFINE T == {k \in Nat : \E h : h = [i \in 0 .. k |-> LayoutStep(s, h[i - 1], i)]}
<1>1. 0 \in T
  <2> DEFINE h == [i \in 0 .. 0 |-> LayoutStep(s, 0, 0)]
  <2>1. h = [i \in 0 .. 0 |-> LayoutStep(s, h[i - 1], i)]
    BY DEF LayoutStep
  <2> QED BY <2>1
<1>2. ASSUME NEW k \in 0 .. Len(s) - 1, k \in T PROVE k + 1 \in T
  <2>1. PICK h : h = [i \in 0 .. k |-> LayoutStep(s, h[i - 1], i)]
    BY <1>2
  <2> DEFINE g == [i \in 0 .. k + 1 |-> IF i = k + 1 THEN LayoutStep(s, h[k], k + 1) ELSE h[i]]
  <2>2. \A i \in 0 .. k + 1 : g[i] = LayoutStep(s, g[i - 1], i)
    <3> SUFFICES ASSUME NEW i \in 0 .. k + 1 PROVE g[i] = LayoutStep(s, g[i - 1], i)
      OBVIOUS
    <3>1. CASE i = k + 1
      BY <3>1
    <3>2. CASE i \in 1 .. k
      BY <2>1, <3>2
    <3>3. CASE i = 0
      BY <2>1, <3>3 DEF LayoutStep
    <3> QED BY <3>1, <3>2, <3>3
  <2>3. g = [i \in 0 .. k + 1 |-> LayoutStep(s, g[i - 1], i)]
    BY <2>2
  <2>4. \E f : f = [i \in 0 .. k + 1 |-> LayoutStep(s, f[i - 1], i)]
    BY <2>3
  <2> QED BY <2>4
<1> HIDE DEF T
<1>3. Len(s) \in 0 .. Len(s)
  OBVIOUS
<1>4. Len(s) \in T
  BY <1>1, <1>2, <1>3, Induction
<1> QED BY <1>4 DEF T

LEMMA OffsetIs ==
  ASSUME NEW s, Len(s) \in Nat
  PROVE  /\ Offset(s)[0] = FirstValueAt(Len(s))
         /\ \A i \in 1 .. Len(s) : Offset(s)[i] = At(s, i) + ValueSize(s[i])
<1>1. \E h : h = [i \in 0 .. Len(s) |->
                    IF i = 0 THEN AlignTo(1 + NullBitmapSize(Len(s)), 8)
                             ELSE AlignTo(h[i - 1], ValueAlignment(s[i].type))
                                    + ValueSize(s[i])]
  BY OffsetExists DEF LayoutStep
<1>2. Offset(s) = [i \in 0 .. Len(s) |->
                    IF i = 0 THEN AlignTo(1 + NullBitmapSize(Len(s)), 8)
                             ELSE AlignTo(Offset(s)[i - 1], ValueAlignment(s[i].type))
                                    + ValueSize(s[i])]
  BY <1>1 DEF Offset
<1> QED BY <1>2 DEF FirstValueAt, At

LEMMA SizeIs == \A s : EncodedSize(s) = AlignTo(Offset(s)[Len(s)], 8)
  BY DEF EncodedSize, Offset

LEMMA HeaderLength ==
  ASSUME NEW n \in 1 .. 255
  PROVE  /\ NullBitmapSize(n) \in Nat /\ NullBitmapSize(n) >= 1
         /\ FirstValueAt(n) \in Nat /\ FirstValueAt(n) >= 1 + NullBitmapSize(n)
<1>1. NullBitmapSize(n) \in Nat /\ NullBitmapSize(n) >= 1
  BY DEF NullBitmapSize
<1> QED BY <1>1, AlignAbove DEF FirstValueAt

LEMMA OffsetType ==
  ASSUME NEW s, IsSchema(s)
  PROVE  /\ \A i \in 0 .. Len(s) : Offset(s)[i] \in Nat
         /\ \A i \in 1 .. Len(s) : At(s, i) \in Nat /\ At(s, i) >= Offset(s)[i - 1]
<1> DEFINE T == {k \in Nat : Offset(s)[k] \in Nat}
<1>0. Len(s) \in Nat /\ Len(s) \in 1 .. 255
  BY DEF IsSchema
<1>1. 0 \in T
  BY <1>0, OffsetIs, HeaderLength
<1>2. ASSUME NEW k \in 0 .. Len(s) - 1, k \in T PROVE k + 1 \in T
  <2>1. k + 1 \in 1 .. Len(s) /\ (k + 1) - 1 = k /\ k + 1 \in Nat
    BY <1>0
  <2>2. At(s, k + 1) \in Nat
    BY <1>2, <2>1, ColumnFacts, AlignAbove DEF At
  <2>3. Offset(s)[k + 1] \in Nat
    BY <1>0, <2>1, <2>2, ColumnFacts, OffsetIs
  <2> QED BY <2>1, <2>3
<1> HIDE DEF T
<1>3. \A k \in 0 .. Len(s) : k \in T
  BY <1>0, <1>1, <1>2, Induction
<1>4. \A i \in 0 .. Len(s) : Offset(s)[i] \in Nat
  BY <1>3 DEF T
<1>5. ASSUME NEW i \in 1 .. Len(s) PROVE At(s, i) \in Nat /\ At(s, i) >= Offset(s)[i - 1]
  <2>1. Offset(s)[i - 1] \in Nat
    BY <1>0, <1>4
  <2> QED BY <2>1, ColumnFacts, AlignAbove DEF At
<1> QED BY <1>4, <1>5

LEMMA OffsetsGrow ==
  ASSUME NEW s, IsSchema(s), NEW i \in 0 .. Len(s)
  PROVE  \A j \in i .. Len(s) : Offset(s)[i] <= Offset(s)[j]
<1>0. Len(s) \in Nat
  BY DEF IsSchema
<1> DEFINE T == {k \in Nat : k >= i => Offset(s)[i] <= Offset(s)[k]}
<1>1. 0 \in T
  BY <1>0, OffsetType
<1>2. ASSUME NEW k \in 0 .. Len(s) - 1, k \in T PROVE k + 1 \in T
  <2>1. k + 1 \in 1 .. Len(s) /\ (k + 1) - 1 = k /\ k + 1 \in Nat /\ k \in 0 .. Len(s)
    BY <1>0
  <2>2. /\ Offset(s)[k + 1] = At(s, k + 1) + ValueSize(s[k + 1])
        /\ At(s, k + 1) \in Nat /\ At(s, k + 1) >= Offset(s)[k]
        /\ Offset(s)[k] \in Nat /\ Offset(s)[i] \in Nat /\ ValueSize(s[k + 1]) \in Nat
    BY <1>0, <2>1, OffsetIs, OffsetType, ColumnFacts
  <2>3. Offset(s)[k] <= Offset(s)[k + 1] /\ Offset(s)[k + 1] \in Nat
    BY <2>2
  <2>4. CASE k >= i
    BY <1>2, <2>1, <2>2, <2>3, <2>4
  <2>5. CASE ~(k >= i)
    BY <2>1, <2>2, <2>3, <2>5
  <2> QED BY <2>4, <2>5
<1> HIDE DEF T
<1>3. \A k \in 0 .. Len(s) : k \in T
  BY <1>0, <1>1, <1>2, Induction
<1> QED BY <1>0, <1>3 DEF T

(* Where the values lie.                                                   *)
LEMMA Layout ==
  ASSUME NEW s, IsSchema(s)
  PROVE  /\ EncodedSize(s) \in Nat
         /\ \A i \in 0 .. Len(s) : Offset(s)[i] \in Nat /\ Offset(s)[i] <= EncodedSize(s)
         /\ 1 + NullBitmapSize(Len(s)) <= Offset(s)[0]
         /\ \A i \in 1 .. Len(s) : /\ At(s, i) \in Nat
                                   /\ Offset(s)[0] <= At(s, i)
                                   /\ Offset(s)[i] = At(s, i) + ValueSize(s[i])
         /\ \A i, j \in 1 .. Len(s) : i < j => Offset(s)[i] <= At(s, j)
<1>0. Len(s) \in Nat /\ Len(s) \in 1 .. 255 /\ Len(s) \in 0 .. Len(s)
  BY DEF IsSchema
<1>1. EncodedSize(s) \in Nat /\ EncodedSize(s) >= Offset(s)[Len(s)] /\ Offset(s)[Len(s)] \in Nat
  BY <1>0, SizeIs, OffsetType, AlignAbove
<1>2. ASSUME NEW i \in 0 .. Len(s)
      PROVE  Offset(s)[i] \in Nat /\ Offset(s)[i] <= EncodedSize(s)
  <2>1. Offset(s)[i] \in Nat /\ Offset(s)[i] <= Offset(s)[Len(s)]
    BY <1>0, OffsetType, OffsetsGrow
  <2> QED BY <1>1, <2>1
<1>3. 1 + NullBitmapSize(Len(s)) <= Offset(s)[0]
  BY <1>0, OffsetIs, HeaderLength
<1>4. ASSUME NEW j \in 1 .. Len(s), NEW i \in 0 .. j - 1
      PROVE  At(s, j) \in Nat /\ Offset(s)[i] <= At(s, j)
  <2>1. j - 1 \in 0 .. Len(s) /\ j - 1 \in i .. Len(s) /\ i \in 0 .. Len(s)
    BY <1>0
  <2>2. Offset(s)[i] <= Offset(s)[j - 1] /\ At(s, j) >= Offset(s)[j - 1] /\ At(s, j) \in Nat
    BY <2>1, OffsetsGrow, OffsetType
  <2>3. Offset(s)[i] \in Nat /\ Offset(s)[j - 1] \in Nat
    BY <2>1, <1>2
  <2> QED BY <2>2, <2>3
<1>5. ASSUME NEW i \in 1 .. Len(s)
      PROVE  At(s, i) \in Nat /\ Offset(s)[0] <= At(s, i) /\ Offset(s)[i] = At(s, i) + ValueSize(s[i])
  BY <1>0, <1>4, OffsetIs
<1>6. \A i, j \in 1 .. Len(s) : i < j => Offset(s)[i] <= At(s, j)
  BY <1>0, <1>4
<1> QED BY <1>1, <1>2, <1>3, <1>5, <1>6
-----------------------------------------------------------------------------
(***************************************************************************)
(* Values as bytes: what is read where the cell of a value was written is  *)
(* that value, up to the first zero byte of a string.                      *)
(***************************************************************************)
Reads(bytes, at, column, cell) ==
  \A j \in 0 .. ValueSize(column) - 1 :
    bytes[at + j] = IF j < Len(cell) THEN cell[j + 1] ELSE 0

LEMMA FunctionIsSeq ==
  ASSUME NEW S, NEW n \in Nat, NEW f \in [1 .. n -> S]
  PROVE  f \in Seq(S) /\ Len(f) = n
OBVIOUS

LEMMA ShortSeq ==
  ASSUME NEW S, NEW x \in S, NEW y \in S
  PROVE  /\ <<x>> \in Seq(S) /\ Len(<<x>>) = 1 /\ <<x>>[1] = x
         /\ <<x, y>> \in Seq(S) /\ Len(<<x, y>>) = 2 /\ <<x, y>>[1] = x /\ <<x, y>>[2] = y
OBVIOUS

LEMMA ConcatFacts ==
  ASSUME NEW S, NEW n \in Nat, NEW a \in Seq(S), NEW b \in Seq(S), Len(a) = n, Len(b) = n
  PROVE  /\ a \o b \in Seq(S) /\ Len(a \o b) = n + n
         /\ \A i \in 1 .. n : (a \o b)[i] = a[i]
         /\ \A i \in 1 .. n : (a \o b)[n + i] = b[i]
OBVIOUS

LEMMA TwoWords ==
  ASSUME NEW S, NEW a \in Seq(S), NEW b \in Seq(S), Len(a) = 4, Len(b) = 4
  PROVE  /\ a \o b \in Seq(S) /\ Len(a \o b) = 8
         /\ \A j \in 0 .. 3 : (a \o b)[j + 1] = a[j + 1] /\ (a \o b)[j + 5] = b[j + 1]
<1> PICK n \in Nat : n = 4
  OBVIOUS
<1>1. Len(a) = n /\ Len(b) = n
  OBVIOUS
<1>2. /\ a \o b \in Seq(S) /\ Len(a \o b) = n + n
      /\ \A i \in 1 .. n : (a \o b)[i] = a[i]
      /\ \A i \in 1 .. n : (a \o b)[n + i] = b[i]
  BY ONLY <1>1, n \in Nat, ConcatFacts
<1>3. \A j \in 0 .. 3 : j + 1 \in 1 .. n /\ n + (j + 1) = j + 5
  BY ONLY n = 4
<1>4. \A j \in 0 .. 3 : (a \o b)[j + 1] = a[j + 1] /\ (a \o b)[j + 5] = b[j + 1]
  BY ONLY <1>2, <1>3
<1>5. Len(a \o b) = 8
  BY ONLY <1>2, n = 4
<1> QED BY ONLY <1>2, <1>4, <1>5

LEMMA ValueFacts ==
  ASSUME NEW v \in Values
  PROVE  /\ v.type \in Types /\ v.isNull \in BOOLEAN /\ v.payload \in Seq(Word)
         /\ v.isNull => v.payload = <<>>
         /\ ~v.isNull => v.payload \in Payloads(v.type)
         /\ v = [type |-> v.type, isNull |-> v.isNull, payload |-> v.payload]
<1>1. /\ v \in [type : Types, isNull : BOOLEAN, payload : Seq(Word)]
      /\ v.payload \in IF v.isNull THEN {<<>>} ELSE Payloads(v.type)
  BY DEF Values
<1>2. /\ v.type \in Types /\ v.isNull \in BOOLEAN /\ v.payload \in Seq(Word)
      /\ v = [type |-> v.type, isNull |-> v.isNull, payload |-> v.payload]
  BY <1>1
<1>3. v.isNull => v.payload = <<>>
  BY <1>1
<1>4. ~v.isNull => v.payload \in Payloads(v.type)
  BY <1>1
<1> QED BY <1>2, <1>3, <1>4

LEMMA WordIsBytes ==
  ASSUME NEW w \in Word
  PROVE  /\ WordBytes(w, 4) \in Seq(Byte) /\ Len(WordBytes(w, 4)) = 4
         /\ w = WordBytes(w, 4)[1] + 256 * WordBytes(w, 4)[2] + 65536 * WordBytes(w, 4)[3]
                  + 16777216 * Signed(WordBytes(w, 4)[4])
<1> DEFINE c == WordBytes(w, 4)
<1>1. c = [i \in 1 .. 4 |-> (w \div Scale[i]) % 256]
  BY DEF WordBytes
<1>2. Scale[1] = 1 /\ Scale[2] = 256 /\ Scale[3] = 65536 /\ Scale[4] = 16777216
  BY SMT DEF Scale
<1>3. w \in Int /\ -2147483648 <= w /\ w <= 2147483647
  BY SMT DEF Word
<1>4. /\ c[1] = (w \div 1) % 256 /\ c[2] = (w \div 256) % 256
      /\ c[3] = (w \div 65536) % 256 /\ c[4] = (w \div 16777216) % 256
  BY SMT, <1>1, <1>2
<1>5. c[1] \in Byte /\ c[2] \in Byte /\ c[3] \in Byte /\ c[4] \in Byte
  BY SMT, <1>3, <1>4 DEF Byte
<1>6. c \in Seq(Byte) /\ Len(c) = 4
  <2>1. c \in [1 .. 4 -> Byte]
    <3>1. \A i \in 1 .. 4 : c[i] \in Byte
      BY <1>5
    <3> HIDE DEF c
    <3> QED BY <1>1, <3>1
  <2> HIDE DEF c
  <2> QED BY <2>1, FunctionIsSeq
<1>7. w = c[1] + 256 * c[2] + 65536 * c[3] + 16777216 * Signed(c[4])
  BY SMT, <1>3, <1>4 DEF Signed
<1> QED BY SMT, <1>6, <1>7

LEMMA WordCell ==
  ASSUME NEW w \in Word
  PROVE  WordBytes(w, 4) \in Seq(Byte) /\ Len(WordBytes(w, 4)) = 4
BY SMT, WordIsBytes

LEMMA ReadsWord ==
  ASSUME NEW b, NEW o \in Nat, NEW w \in Word,
         \A j \in 0 .. 3 : b[o + j] = WordBytes(w, 4)[j + 1]
  PROVE  ReadWord(b, o) = w
<1>1. /\ 0 \in 0 .. 3 /\ 1 \in 0 .. 3 /\ 2 \in 0 .. 3 /\ 3 \in 0 .. 3 /\ o + 0 = o
      /\ 0 + 1 = 1 /\ 1 + 1 = 2 /\ 2 + 1 = 3 /\ 3 + 1 = 4
  OBVIOUS
<1>2. /\ b[o] = WordBytes(w, 4)[1] /\ b[o + 1] = WordBytes(w, 4)[2]
      /\ b[o + 2] = WordBytes(w, 4)[3] /\ b[o + 3] = WordBytes(w, 4)[4]
  BY <1>1
<1> QED BY SMT, <1>2, WordIsBytes DEF ReadWord

LEMMA SignedByte ==
  /\ \A b \in Byte : Signed(b) \in -128 .. 127
  /\ \A w \in -128 .. 127 : w % 256 \in Byte
  /\ \A w \in -128 .. 127 : Signed(w % 256) = w
<1>1. \A b \in Byte : Signed(b) \in -128 .. 127
  BY DEF Byte, Signed
<1>2. \A w \in -128 .. 127 : w % 256 \in Byte
  BY DEF Byte
<1>3. \A w \in -128 .. 127 : Signed(w % 256) = w
  BY DEF Signed
<1> QED BY <1>1, <1>2, <1>3

LEMMA WordIsRead ==
  ASSUME NEW b, NEW o \in Nat, \A j \in 0 .. 3 : b[o + j] \in Byte
  PROVE  ReadWord(b, o) \in Word
<1>1. b[o] \in Byte /\ b[o + 1] \in Byte /\ b[o + 2] \in Byte /\ b[o + 3] \in Byte
  <2>1. 0 \in 0 .. 3 /\ 1 \in 0 .. 3 /\ 2 \in 0 .. 3 /\ 3 \in 0 .. 3 /\ o + 0 = o
    OBVIOUS
  <2> QED BY <2>1
<1>2. PICK b0 \in Byte, b1 \in Byte, b2 \in Byte, b3 \in Byte :
        b0 = b[o] /\ b1 = b[o + 1] /\ b2 = b[o + 2] /\ b3 = b[o + 3]
  BY <1>1
<1>3. b0 + 256 * b1 + 65536 * b2 + 16777216 * Signed(b3) \in Word
  BY SMT, SignedByte DEF Byte, Word
<1> QED BY SMT, <1>2, <1>3 DEF ReadWord

(* Where a text ends.                                                      *)
Ends(text, k) ==
  /\ k \in 0 .. Len(text)
  /\ \A j \in 1 .. k : text[j] # 0
  /\ k = Len(text) \/ text[k + 1] = 0

LEMMA TextEnds ==
  ASSUME NEW text, text \in Seq(Byte)
  PROVE  \E k \in 0 .. Len(text) : Ends(text, k) /\ UpToZero(text) = SubSeq(text, 1, k)
<1> DEFINE T == {k \in 0 .. Len(text) : \A j \in 1 .. k : text[j] # 0}
<1>1. T \in SUBSET (0 .. Len(text)) /\ 0 \in T /\ Len(text) \in Nat
  OBVIOUS
<1>2. \E x \in T : \A y \in T : x >= y
  BY <1>1, Greatest
<1>3. Max(T) \in T /\ \A y \in T : Max(T) >= y
  BY <1>2 DEF Max
<1>4. PICK k \in T : k = Max(T)
  BY <1>3
<1>5. k \in 0 .. Len(text) /\ \A j \in 1 .. k : text[j] # 0
  BY <1>4
<1>6. k = Len(text) \/ text[k + 1] = 0
  <2> SUFFICES ASSUME k # Len(text), text[k + 1] # 0 PROVE FALSE
    OBVIOUS
  <2>1. k + 1 \in 0 .. Len(text) /\ \A j \in 1 .. k + 1 : text[j] # 0
    BY <1>1, <1>5
  <2>2. k + 1 \in T
    BY <2>1
  <2>3. k >= k + 1
    BY <1>3, <1>4, <2>2
  <2> QED BY <1>5, <2>3
<1>7. UpToZero(text) = SubSeq(text, 1, k)
  BY <1>4 DEF UpToZero
<1> QED BY <1>5, <1>6, <1>7 DEF Ends

LEMMA EndIsUnique ==
  ASSUME NEW text, text \in Seq(Byte), NEW k, NEW l, Ends(text, k), Ends(text, l)
  PROVE  k = l
<1>1. Len(text) \in Nat /\ k \in 0 .. Len(text) /\ l \in 0 .. Len(text)
  BY DEF Ends
<1>2. ~(k < l)
  <2> SUFFICES ASSUME k < l PROVE FALSE
    OBVIOUS
  <2>1. k + 1 \in 1 .. l /\ k # Len(text)
    BY <1>1
  <2> QED BY <2>1 DEF Ends
<1>3. ~(l < k)
  <2> SUFFICES ASSUME l < k PROVE FALSE
    OBVIOUS
  <2>1. l + 1 \in 1 .. k /\ l # Len(text)
    BY <1>1
  <2> QED BY <2>1 DEF Ends
<1> QED BY <1>1, <1>2, <1>3

(* Zero bytes after a text do not change where it ends.                    *)
LEMMA PaddedText ==
  ASSUME NEW text, text \in Seq(Byte), NEW padded, padded \in Seq(Byte),
         Len(text) <= Len(padded),
         \A j \in 1 .. Len(padded) : padded[j] = IF j <= Len(text) THEN text[j] ELSE 0
  PROVE  UpToZero(padded) = UpToZero(text)
<1>1. PICK k \in 0 .. Len(text) : Ends(text, k) /\ UpToZero(text) = SubSeq(text, 1, k)
  BY TextEnds
<1>2. PICK l \in 0 .. Len(padded) : Ends(padded, l) /\ UpToZero(padded) = SubSeq(padded, 1, l)
  BY TextEnds
<1>3. Len(text) \in Nat /\ Len(padded) \in Nat
  OBVIOUS
<1>4. Ends(padded, k)
  <2>1. k \in 0 .. Len(padded)
    BY <1>3
  <2>2. \A j \in 1 .. k : padded[j] # 0
    BY <1>1, <1>3, <2>1 DEF Ends
  <2>3. CASE k = Len(text)
    BY <1>3, <2>1, <2>2, <2>3 DEF Ends
  <2>4. CASE k # Len(text)
    <3>1. text[k + 1] = 0 /\ k + 1 \in 1 .. Len(padded) /\ k + 1 <= Len(text)
      BY <1>1, <1>3, <2>4 DEF Ends
    <3>2. padded[k + 1] = 0
      BY <3>1
    <3> QED BY <2>1, <2>2, <3>2 DEF Ends
  <2> QED BY <2>3, <2>4
<1>5. l = k
  BY <1>2, <1>4, EndIsUnique
<1>6. SubSeq(padded, 1, k) = SubSeq(text, 1, k)
  <2>1. SubSeq(padded, 1, k) = [j \in 1 .. k |-> padded[j]]
    BY <1>3
  <2>2. SubSeq(text, 1, k) = [j \in 1 .. k |-> text[j]]
    BY <1>3
  <2>3. \A j \in 1 .. k : padded[j] = text[j]
    BY <1>3
  <2> QED BY <2>1, <2>2, <2>3
<1> QED BY <1>1, <1>2, <1>5, <1>6

LEMMA UpToZeroType ==
  ASSUME NEW text, text \in Seq(Byte)
  PROVE  UpToZero(text) \in Seq(Byte) /\ Len(UpToZero(text)) <= Len(text)
<1>1. PICK k \in 0 .. Len(text) : Ends(text, k) /\ UpToZero(text) = SubSeq(text, 1, k)
  BY TextEnds
<1> QED BY <1>1

(***************************************************************************)
(* The cell of a value is made of bytes, and fits its column.              *)
(***************************************************************************)
Suits(column, value) ==
  /\ value.type = column.type
  /\ value.isNull => column.nullable
  /\ value.type = "String" /\ ~value.isNull => Len(value.payload) <= column.stringCapacity

LEMMA CellFits ==
  ASSUME NEW v \in Values, ~v.isNull, NEW column \in Columns, Suits(column, v)
  PROVE  /\ Cell(v) \in Seq(Byte)
         /\ Len(Cell(v)) <= ValueSize(column)
<1>1. v.type \in Types /\ v.payload \in Payloads(v.type) /\ column.type = v.type
  BY ValueFacts DEF Suits
<1>2. CASE v.type = "Boolean"
  <2>1. Cell(v) = v.payload /\ v.payload \in {<<0>>, <<1>>}
    BY <1>1, <1>2 DEF Cell, Payloads
  <2>2. PICK x \in Byte : Cell(v) = <<x>>
    BY <2>1 DEF Byte
  <2>3. ValueSize(column) = 1
    BY <1>1, <1>2 DEF ValueSize, SizeOf, Types
  <2> QED BY <2>2, <2>3, ShortSeq
<1>3. CASE v.type = "Byte"
  <2>1. Cell(v) = WordBytes(v.payload[1], 1) /\ v.payload[1] \in -128 .. 127
    BY <1>1, <1>3 DEF Cell, Payloads
  <2>2. Cell(v) = [i \in 1 .. 1 |-> (v.payload[1] \div Scale[i]) % 256]
    BY <2>1 DEF WordBytes
  <2>3. \A i \in 1 .. 1 : (v.payload[1] \div Scale[i]) % 256 \in Byte
    BY <2>1 DEF Scale, Byte
  <2>4. Cell(v) \in [1 .. 1 -> Byte] /\ 1 \in Nat
    BY <2>2, <2>3
  <2>5. Cell(v) \in Seq(Byte) /\ Len(Cell(v)) = 1
    BY <2>4, FunctionIsSeq
  <2>6. ValueSize(column) = 1
    BY <1>1, <1>3 DEF ValueSize, SizeOf, Types
  <2> QED BY <2>5, <2>6
<1>4. CASE v.type = "Int32"
  <2>1. Cell(v) = WordBytes(v.payload[1], 4) /\ v.payload[1] \in Word
    BY <1>1, <1>4 DEF Cell, Payloads, Words
  <2>2. ValueSize(column) = 4
    BY <1>1, <1>4 DEF ValueSize, SizeOf, Types
  <2>3. PICK c \in Seq(Byte) : Cell(v) = c /\ Len(c) = 4
    BY <2>1, WordCell
  <2> QED BY <2>2, <2>3
<1>5. CASE v.type \in {"Int64", "Double"}
  <2>1. /\ Cell(v) = WordBytes(v.payload[1], 4) \o WordBytes(v.payload[2], 4)
        /\ v.payload[1] \in Word /\ v.payload[2] \in Word
    BY <1>1, <1>5 DEF Cell, Payloads, Words
  <2>2. ValueSize(column) = 8
    BY <1>1, <1>5 DEF ValueSize, SizeOf, Types
  <2>3. PICK a \in Seq(Byte) : a = WordBytes(v.payload[1], 4) /\ Len(a) = 4
    BY <2>1, WordCell
  <2>4. PICK b \in Seq(Byte) : b = WordBytes(v.payload[2], 4) /\ Len(b) = 4
    BY <2>1, WordCell
  <2>5. a \o b \in Seq(Byte) /\ Len(a \o b) = 8
    BY ONLY <2>3, <2>4, a \in Seq(Byte), b \in Seq(Byte), TwoWords, Zenon
  <2> QED BY <2>1, <2>2, <2>3, <2>4, <2>5
<1>6. CASE v.type = "String"
  <2>1. Cell(v) = v.payload /\ v.payload \in Seq(Byte)
    BY <1>1, <1>6 DEF Cell, Payloads
  <2>2. ValueSize(column) = column.stringCapacity
    BY <1>1, <1>6 DEF ValueSize
  <2> QED BY <1>6, <2>1, <2>2 DEF Suits
<1> QED BY <1>1, <1>2, <1>3, <1>4, <1>5, <1>6 DEF Types

(***************************************************************************)
(* Any bytes are read as a value of the column.                            *)
(***************************************************************************)
LEMMA ReadIsValue ==
  ASSUME NEW bytes, NEW at \in Nat, NEW column \in Columns,
         \A j \in 0 .. ValueSize(column) - 1 : bytes[at + j] \in Byte
  PROVE  /\ ReadValue(bytes, at, column) \in Values
         /\ ~ReadValue(bytes, at, column).isNull
         /\ Suits(column, ReadValue(bytes, at, column))
<1> DEFINE v == ReadValue(bytes, at, column)
           p == v.payload
<1>1. column.type \in Types /\ column.stringCapacity \in Nat
  BY DEF Columns
<1>2. /\ v.type = column.type /\ v.isNull = FALSE
      /\ v = [type |-> column.type, isNull |-> FALSE, payload |-> p]
  BY DEF ReadValue, Value
<1>3. SUFFICES p \in Payloads(column.type) /\ p \in Seq(Word)
                 /\ (column.type = "String" => Len(p) <= column.stringCapacity)
  <2> HIDE DEF v
  <2>1. v \in [type : Types, isNull : BOOLEAN, payload : Seq(Word)]
    BY <1>1, <1>2, <1>3
  <2>2. v \in Values
    BY <1>2, <1>3, <2>1 DEF Values
  <2>3. Suits(column, v)
    BY <1>2, <1>3 DEF Suits
  <2> QED BY <1>2, <2>2, <2>3 DEF v
<1>4. 0 \in Word /\ 1 \in Word /\ \A w \in -128 .. 127 : w \in Word
  BY SMT DEF Word
<1>5. CASE column.type = "Boolean"
  <2>1. p = <<IF bytes[at] # 0 THEN 1 ELSE 0>>
    BY <1>5 DEF ReadValue, Value, ReadPayload
  <2>2. PICK x \in Word : p = <<x>> /\ p \in {<<0>>, <<1>>}
    BY <1>4, <2>1
  <2> QED BY <1>5, <2>2, ShortSeq DEF Payloads
<1>6. CASE column.type = "Byte"
  <2>1. p = <<Signed(bytes[at])>>
    BY <1>6 DEF ReadValue, Value, ReadPayload
  <2>2. ValueSize(column) = 1
    BY <1>6 DEF ValueSize, SizeOf, Types
  <2>3. bytes[at] \in Byte
    <3>1. 0 \in 0 .. ValueSize(column) - 1 /\ at + 0 = at
      BY <2>2
    <3> QED BY <3>1
  <2>4. PICK w \in -128 .. 127 : w = Signed(bytes[at])
    BY <2>3, SignedByte
  <2>5. p = <<w>> /\ w \in Word
    BY <1>4, <2>1, <2>4
  <2> QED BY <1>6, <2>4, <2>5, ShortSeq DEF Payloads, Words
<1>7. CASE column.type = "Int32"
  <2>1. p = <<ReadWord(bytes, at)>>
    BY <1>7 DEF ReadValue, Value, ReadPayload
  <2>2. ValueSize(column) = 4
    BY <1>7 DEF ValueSize, SizeOf, Types
  <2>3. ReadWord(bytes, at) \in Word
    BY <2>2, WordIsRead
  <2> QED BY <1>7, <2>1, <2>3, ShortSeq DEF Payloads, Words
<1>8. CASE column.type \in {"Int64", "Double"}
  <2>1. p = <<ReadWord(bytes, at), ReadWord(bytes, at + 4)>>
    BY <1>8 DEF ReadValue, Value, ReadPayload
  <2>2. ValueSize(column) = 8
    BY <1>8 DEF ValueSize, SizeOf, Types
  <2>3. ReadWord(bytes, at) \in Word
    BY <2>2, WordIsRead
  <2>4. at + 4 \in Nat /\ \A j \in 0 .. 3 : bytes[(at + 4) + j] \in Byte
    <3>1. \A j \in 0 .. 3 : (at + 4) + j = at + (j + 4) /\ j + 4 \in 0 .. 7
      OBVIOUS
    <3> QED BY <2>2, <3>1
  <2>5. ReadWord(bytes, at + 4) \in Word
    BY <2>4, WordIsRead
  <2>6. p \in Seq(Word) /\ Len(p) = 2
    BY <2>1, <2>3, <2>5, ShortSeq
  <2> QED BY <1>8, <2>6 DEF Payloads, Words
<1>9. CASE column.type = "String"
  <2> DEFINE text == [j \in 1 .. column.stringCapacity |-> bytes[at + j - 1]]
  <2>1. p = UpToZero(text)
    BY <1>9 DEF ReadValue, Value, ReadPayload
  <2>2. ValueSize(column) = column.stringCapacity
    BY <1>9 DEF ValueSize
  <2>3. \A j \in 1 .. column.stringCapacity : bytes[at + j - 1] \in Byte
    <3>1. \A j \in 1 .. column.stringCapacity :
            at + j - 1 = at + (j - 1) /\ j - 1 \in 0 .. column.stringCapacity - 1
      BY <1>1
    <3> QED BY <2>2, <3>1
  <2>4. text \in [1 .. column.stringCapacity -> Byte]
    BY <2>3
  <2> HIDE DEF text
  <2>5. text \in Seq(Byte) /\ Len(text) = column.stringCapacity
    BY <1>1, <2>4, FunctionIsSeq
  <2>6. p \in Seq(Byte) /\ Len(p) <= column.stringCapacity
    BY <2>1, <2>5, UpToZeroType
  <2>7. \A b \in Byte : b \in Word
    BY SMT DEF Byte, Word
  <2>8. p \in Seq(Word)
    BY <2>6, <2>7
  <2> QED BY <1>9, <2>6, <2>8 DEF Payloads
<1> HIDE DEF p
<1> QED BY <1>1, <1>5, <1>6, <1>7, <1>8, <1>9 DEF Types

(***************************************************************************)
(* Reading the cell of a value gives the value.                            *)
(***************************************************************************)
LEMMA ReadBack ==
  ASSUME NEW bytes, NEW at \in Nat, NEW column \in Columns,
         NEW v \in Values, ~v.isNull, Suits(column, v),
         Reads(bytes, at, column, Cell(v))
  PROVE  ReadValue(bytes, at, column) = ZeroEnds(v)
<1> DEFINE q == ReadValue(bytes, at, column).payload
<1>1. v.type \in Types /\ v.payload \in Payloads(v.type) /\ column.type = v.type
  BY ValueFacts DEF Suits
<1>2. ReadValue(bytes, at, column) = [type |-> v.type, isNull |-> FALSE, payload |-> q]
  BY <1>1 DEF ReadValue, Value
<1>3. v = [type |-> v.type, isNull |-> FALSE, payload |-> v.payload]
  BY ValueFacts
<1>4. SUFFICES q = IF v.type = "String" THEN UpToZero(v.payload) ELSE v.payload
  <2> HIDE DEF q
  <2>1. CASE v.type = "String"
    <3>1. ZeroEnds(v) = [type |-> "String", isNull |-> FALSE, payload |-> UpToZero(v.payload)]
      BY <2>1 DEF ZeroEnds, Value
    <3> QED BY <1>2, <1>4, <2>1, <3>1
  <2>2. CASE v.type # "String"
    BY <1>2, <1>3, <1>4, <2>2 DEF ZeroEnds
  <2> QED BY <2>1, <2>2
<1>5. \A j \in 0 .. ValueSize(column) - 1 :
        bytes[at + j] = IF j < Len(Cell(v)) THEN Cell(v)[j + 1] ELSE 0
  BY DEF Reads
<1>6. CASE v.type = "Boolean"
  <2>1. Cell(v) = v.payload /\ v.payload \in {<<0>>, <<1>>}
    BY <1>1, <1>6 DEF Cell, Payloads
  <2>2. ValueSize(column) = 1
    BY <1>1, <1>6 DEF ValueSize, SizeOf, Types
  <2>3. q = <<IF bytes[at] # 0 THEN 1 ELSE 0>>
    BY <1>1, <1>6 DEF ReadValue, Value, ReadPayload
  <2>4. bytes[at] = Cell(v)[1]
    <3>1. 0 \in 0 .. ValueSize(column) - 1 /\ at + 0 = at /\ Len(Cell(v)) = 1 /\ 0 + 1 = 1
      BY <2>1, <2>2
    <3> QED BY <1>5, <3>1
  <2> QED BY <1>6, <2>1, <2>3, <2>4
<1>7. CASE v.type = "Byte"
  <2>1. /\ Cell(v) = WordBytes(v.payload[1], 1) /\ v.payload[1] \in -128 .. 127
        /\ v.payload = <<v.payload[1]>>
    BY <1>1, <1>7 DEF Cell, Payloads, Words
  <2>2. ValueSize(column) = 1
    BY <1>1, <1>7 DEF ValueSize, SizeOf, Types
  <2>3. q = <<Signed(bytes[at])>>
    BY <1>1, <1>7 DEF ReadValue, Value, ReadPayload
  <2>4. Cell(v) = [i \in 1 .. 1 |-> (v.payload[1] \div Scale[i]) % 256]
    BY <2>1 DEF WordBytes
  <2>5. Cell(v)[1] = v.payload[1] % 256
    BY <2>1, <2>4 DEF Scale
  <2>6. bytes[at] = Cell(v)[1]
    <3>1. 0 \in 0 .. ValueSize(column) - 1 /\ at + 0 = at /\ Len(Cell(v)) = 1 /\ 0 + 1 = 1
      BY <2>2, <2>4
    <3> QED BY <1>5, <3>1
  <2>7. Signed(v.payload[1] % 256) = v.payload[1]
    BY <2>1, SignedByte
  <2>8. q = <<v.payload[1]>>
    BY <2>3, <2>5, <2>6, <2>7
  <2> QED BY <1>7, <2>1, <2>8
<1>8. CASE v.type = "Int32"
  <2>1. /\ Cell(v) = WordBytes(v.payload[1], 4) /\ v.payload[1] \in Word
        /\ v.payload = <<v.payload[1]>>
    BY <1>1, <1>8 DEF Cell, Payloads, Words
  <2>2. ValueSize(column) = 4
    BY <1>1, <1>8 DEF ValueSize, SizeOf, Types
  <2>3. q = <<ReadWord(bytes, at)>>
    BY <1>1, <1>8 DEF ReadValue, Value, ReadPayload
  <2>4. \A j \in 0 .. 3 : bytes[at + j] = WordBytes(v.payload[1], 4)[j + 1]
    BY <1>5, <2>1, <2>2, WordCell
  <2>5. ReadWord(bytes, at) = v.payload[1]
    BY <2>1, <2>4, ReadsWord
  <2> QED BY <1>8, <2>1, <2>3, <2>5
<1>9. CASE v.type \in {"Int64", "Double"}
  <2>1. /\ Cell(v) = WordBytes(v.payload[1], 4) \o WordBytes(v.payload[2], 4)
        /\ v.payload[1] \in Word /\ v.payload[2] \in Word
        /\ v.payload = <<v.payload[1], v.payload[2]>>
    BY <1>1, <1>9 DEF Cell, Payloads, Words
  <2>2. ValueSize(column) = 8
    BY <1>1, <1>9 DEF ValueSize, SizeOf, Types
  <2>3. q = <<ReadWord(bytes, at), ReadWord(bytes, at + 4)>>
    BY <1>1, <1>9 DEF ReadValue, Value, ReadPayload
  <2>4. /\ Len(Cell(v)) = 8
        /\ \A j \in 0 .. 3 : /\ Cell(v)[j + 1] = WordBytes(v.payload[1], 4)[j + 1]
                             /\ Cell(v)[j + 5] = WordBytes(v.payload[2], 4)[j + 1]
    <3>0. PICK a \in Seq(Byte) : a = WordBytes(v.payload[1], 4) /\ Len(a) = 4
      BY <2>1, WordCell
    <3>1. PICK b \in Seq(Byte) : b = WordBytes(v.payload[2], 4) /\ Len(b) = 4
      BY <2>1, WordCell
    <3>2. Len(a \o b) = 8
      BY ONLY <3>0, <3>1, a \in Seq(Byte), b \in Seq(Byte), TwoWords, Zenon
    <3>3. \A j \in 0 .. 3 : (a \o b)[j + 1] = a[j + 1] /\ (a \o b)[j + 5] = b[j + 1]
      BY ONLY <3>0, <3>1, a \in Seq(Byte), b \in Seq(Byte), TwoWords, SMT
    <3> QED BY <2>1, <3>0, <3>1, <3>2, <3>3, Zenon
  <2>5. \A j \in 0 .. 3 : bytes[at + j] = WordBytes(v.payload[1], 4)[j + 1]
    BY <1>5, <2>2, <2>4
  <2>6. \A j \in 0 .. 3 : bytes[(at + 4) + j] = WordBytes(v.payload[2], 4)[j + 1]
    <3>1. \A j \in 0 .. 3 : (at + 4) + j = at + (j + 4) /\ j + 4 \in 0 .. 7
                            /\ (j + 4) + 1 = j + 5
      OBVIOUS
    <3> QED BY <1>5, <2>2, <2>4, <3>1
  <2>7. ReadWord(bytes, at) = v.payload[1]
    BY <2>1, <2>5, ReadsWord
  <2>8. at + 4 \in Nat
    OBVIOUS
  <2>9. ReadWord(bytes, at + 4) = v.payload[2]
    BY <2>1, <2>6, <2>8, ReadsWord
  <2> QED BY <1>9, <2>1, <2>3, <2>7, <2>9
<1>10. CASE v.type = "String"
  <2> DEFINE text == [j \in 1 .. column.stringCapacity |-> bytes[at + j - 1]]
  <2>1. Cell(v) = v.payload /\ v.payload \in Seq(Byte)
          /\ Len(v.payload) <= column.stringCapacity
    BY <1>1, <1>10 DEF Cell, Payloads, Suits
  <2>2. ValueSize(column) = column.stringCapacity /\ column.stringCapacity \in Nat
    BY <1>1, <1>10 DEF ValueSize, Columns
  <2>3. q = UpToZero(text)
    BY <1>1, <1>10 DEF ReadValue, Value, ReadPayload
  <2>4. \A j \in 1 .. column.stringCapacity :
          bytes[at + j - 1] = IF j <= Len(v.payload) THEN v.payload[j] ELSE 0
    <3>1. \A j \in 1 .. column.stringCapacity :
            /\ at + j - 1 = at + (j - 1) /\ j - 1 \in 0 .. column.stringCapacity - 1
            /\ (j - 1) + 1 = j
      BY <2>2
    <3> QED BY <1>5, <2>1, <2>2, <3>1
  <2>5. text \in [1 .. column.stringCapacity -> Byte]
    <3>1. 0 \in Byte
      BY DEF Byte
    <3>2. \A j \in 1 .. Len(v.payload) : v.payload[j] \in Byte
      BY <2>1
    <3> QED BY <2>1, <2>2, <2>4, <3>1, <3>2
  <2>6. \A j \in 1 .. column.stringCapacity :
          text[j] = IF j <= Len(v.payload) THEN v.payload[j] ELSE 0
    BY <2>4
  <2> HIDE DEF text
  <2>7. text \in Seq(Byte) /\ Len(text) = column.stringCapacity
    BY <2>2, <2>5, FunctionIsSeq
  <2>8. UpToZero(text) = UpToZero(v.payload)
    BY <2>1, <2>6, <2>7, PaddedText
  <2> QED BY <1>10, <2>3, <2>8
<1> HIDE DEF q
<1> QED BY <1>1, <1>6, <1>7, <1>8, <1>9, <1>10 DEF Types
-----------------------------------------------------------------------------
(***************************************************************************)
(* The null bitmap.                                                        *)
(***************************************************************************)
Sum8(b) == b[1] + 2 * b[2] + 4 * b[3] + 8 * b[4] + 16 * b[5] + 32 * b[6] + 64 * b[7] + 128 * b[8]
NullsAt(r, k) == [j \in 1 .. 8 |-> IF 8 * (k - 1) + j \in DOMAIN r /\ r[8 * (k - 1) + j].isNull
                                     THEN 1 ELSE 0]

LEMMA Bits ==
  ASSUME NEW b \in [1 .. 8 -> {0, 1}]
  PROVE  /\ Sum8(b) \in Byte
         /\ \A j \in 1 .. 8 : (Sum8(b) \div Bit[j]) % 2 = b[j]
         /\ \A m \in 1 .. 7 : (\A j \in m + 1 .. 8 : b[j] = 0) => Sum8(b) < Bit[1 + m]
<1> PICK b1 \in 0 .. 1 : b1 = b[1]
  OBVIOUS
<1> PICK b2 \in 0 .. 1 : b2 = b[2]
  OBVIOUS
<1> PICK b3 \in 0 .. 1 : b3 = b[3]
  OBVIOUS
<1> PICK b4 \in 0 .. 1 : b4 = b[4]
  OBVIOUS
<1> PICK b5 \in 0 .. 1 : b5 = b[5]
  OBVIOUS
<1> PICK b6 \in 0 .. 1 : b6 = b[6]
  OBVIOUS
<1> PICK b7 \in 0 .. 1 : b7 = b[7]
  OBVIOUS
<1> PICK b8 \in 0 .. 1 : b8 = b[8]
  OBVIOUS
<1> PICK sum : sum = b1 + 2 * b2 + 4 * b3 + 8 * b4 + 16 * b5 + 32 * b6 + 64 * b7 + 128 * b8
  OBVIOUS
<1>0. /\ b1 \in 0 .. 1 /\ b2 \in 0 .. 1 /\ b3 \in 0 .. 1 /\ b4 \in 0 .. 1
      /\ b5 \in 0 .. 1 /\ b6 \in 0 .. 1 /\ b7 \in 0 .. 1 /\ b8 \in 0 .. 1
      /\ sum = b1 + 2 * b2 + 4 * b3 + 8 * b4 + 16 * b5 + 32 * b6 + 64 * b7 + 128 * b8
  OBVIOUS
<1>1. Sum8(b) = sum
  BY DEF Sum8
<1>2. /\ Bit[1] = 1 /\ Bit[2] = 2 /\ Bit[3] = 4 /\ Bit[4] = 8
      /\ Bit[5] = 16 /\ Bit[6] = 32 /\ Bit[7] = 64 /\ Bit[8] = 128
  BY DEF Bit
<1>3. Sum8(b) \in Byte
  <2>1. sum \in Byte
    BY ONLY <1>0 DEF Byte
  <2> QED BY <1>1, <2>1
<1>4. \A j \in 1 .. 8 : (Sum8(b) \div Bit[j]) % 2 = b[j]
  <2>1. (Sum8(b) \div Bit[1]) % 2 = b[1]
    <3>1. (sum \div 1) % 2 = b1
      BY ONLY <1>0
    <3> QED BY <1>1, <1>2, <3>1
  <2>2. (Sum8(b) \div Bit[2]) % 2 = b[2]
    <3>1. (sum \div 2) % 2 = b2
      BY ONLY <1>0
    <3> QED BY <1>1, <1>2, <3>1
  <2>3. (Sum8(b) \div Bit[3]) % 2 = b[3]
    <3>1. (sum \div 4) % 2 = b3
      BY ONLY <1>0
    <3> QED BY <1>1, <1>2, <3>1
  <2>4. (Sum8(b) \div Bit[4]) % 2 = b[4]
    <3>1. (sum \div 8) % 2 = b4
      BY ONLY <1>0
    <3> QED BY <1>1, <1>2, <3>1
  <2>5. (Sum8(b) \div Bit[5]) % 2 = b[5]
    <3>1. (sum \div 16) % 2 = b5
      BY ONLY <1>0
    <3> QED BY <1>1, <1>2, <3>1
  <2>6. (Sum8(b) \div Bit[6]) % 2 = b[6]
    <3>1. (sum \div 32) % 2 = b6
      BY ONLY <1>0
    <3> QED BY <1>1, <1>2, <3>1
  <2>7. (Sum8(b) \div Bit[7]) % 2 = b[7]
    <3>1. (sum \div 64) % 2 = b7
      BY ONLY <1>0
    <3> QED BY <1>1, <1>2, <3>1
  <2>8. (Sum8(b) \div Bit[8]) % 2 = b[8]
    <3>1. (sum \div 128) % 2 = b8
      BY ONLY <1>0
    <3> QED BY <1>1, <1>2, <3>1
  <2>9. \A j \in 1 .. 8 : j = 1 \/ j = 2 \/ j = 3 \/ j = 4 \/ j = 5 \/ j = 6 \/ j = 7 \/ j = 8
    OBVIOUS
  <2> QED BY ONLY <2>1, <2>2, <2>3, <2>4, <2>5, <2>6, <2>7, <2>8, <2>9
<1>5. ASSUME NEW m \in 1 .. 7, \A j \in m + 1 .. 8 : b[j] = 0
      PROVE  Sum8(b) < Bit[1 + m]
  <2>1. CASE m = 1
    <3>1. b2 = 0 /\ b3 = 0 /\ b4 = 0 /\ b5 = 0 /\ b6 = 0 /\ b7 = 0 /\ b8 = 0
      BY <1>5, <2>1
    <3>2. sum < 2
      BY ONLY <1>0, <3>1
    <3> QED BY <1>1, <1>2, <2>1, <3>2
  <2>2. CASE m = 2
    <3>1. b3 = 0 /\ b4 = 0 /\ b5 = 0 /\ b6 = 0 /\ b7 = 0 /\ b8 = 0
      BY <1>5, <2>2
    <3>2. sum < 4
      BY ONLY <1>0, <3>1
    <3> QED BY <1>1, <1>2, <2>2, <3>2
  <2>3. CASE m = 3
    <3>1. b4 = 0 /\ b5 = 0 /\ b6 = 0 /\ b7 = 0 /\ b8 = 0
      BY <1>5, <2>3
    <3>2. sum < 8
      BY ONLY <1>0, <3>1
    <3> QED BY <1>1, <1>2, <2>3, <3>2
  <2>4. CASE m = 4
    <3>1. b5 = 0 /\ b6 = 0 /\ b7 = 0 /\ b8 = 0
      BY <1>5, <2>4
    <3>2. sum < 16
      BY ONLY <1>0, <3>1
    <3> QED BY <1>1, <1>2, <2>4, <3>2
  <2>5. CASE m = 5
    <3>1. b6 = 0 /\ b7 = 0 /\ b8 = 0
      BY <1>5, <2>5
    <3>2. sum < 32
      BY ONLY <1>0, <3>1
    <3> QED BY <1>1, <1>2, <2>5, <3>2
  <2>6. CASE m = 6
    <3>1. b7 = 0 /\ b8 = 0
      BY <1>5, <2>6
    <3>2. sum < 64
      BY ONLY <1>0, <3>1
    <3> QED BY <1>1, <1>2, <2>6, <3>2
  <2>7. CASE m = 7
    <3>1. b8 = 0
      BY <1>5, <2>7
    <3>2. sum < 128
      BY ONLY <1>0, <3>1
    <3> QED BY <1>1, <1>2, <2>7, <3>2
  <2> QED BY <2>1, <2>2, <2>3, <2>4, <2>5, <2>6, <2>7
<1> QED BY <1>3, <1>4, <1>5

LEMMA NullBitmapIs ==
  ASSUME NEW r \in Seq(Values)
  PROVE  /\ NullBitmap(r) \in Seq(Byte) /\ Len(NullBitmap(r)) = NullBitmapSize(Len(r))
         /\ \A k \in 1 .. NullBitmapSize(Len(r)) :
              NullBitmap(r)[k] = Sum8(NullsAt(r, k)) /\ NullsAt(r, k) \in [1 .. 8 -> {0, 1}]
<1> DEFINE size == NullBitmapSize(Len(r))
<1>1. size \in Nat
  BY DEF NullBitmapSize
<1>2. \A k \in Nat : NullsAt(r, k) \in [1 .. 8 -> {0, 1}]
  BY DEF NullsAt
<1>3. NullBitmap(r) = [k \in 1 .. size |-> Sum8(NullsAt(r, k))]
  BY DEF NullBitmap, Sum8, NullsAt
<1>4. \A k \in 1 .. size : Sum8(NullsAt(r, k)) \in Byte
  BY <1>1, <1>2, Bits
<1> HIDE DEF size
<1>5. NullBitmap(r) \in [1 .. size -> Byte]
  BY <1>3, <1>4
<1>6. NullBitmap(r) \in Seq(Byte) /\ Len(NullBitmap(r)) = size
  BY <1>1, <1>5, FunctionIsSeq
<1>7. \A k \in 1 .. size : k \in Nat
  BY <1>1
<1> QED BY <1>2, <1>3, <1>6, <1>7 DEF size

LEMMA NullBitIs ==
  ASSUME NEW r \in Seq(Values), NEW i \in 1 .. Len(r), NEW bytes,
         \A k \in 1 .. NullBitmapSize(Len(r)) : bytes[k] = NullBitmap(r)[k]
  PROVE  NullBit(bytes, i) <=> r[i].isNull
<1> PICK k \in Nat : k = 1 + ((i - 1) \div 8)
  OBVIOUS
<1> PICK j \in 1 .. 8 : j = 1 + ((i - 1) % 8)
  OBVIOUS
<1>1. k \in 1 .. NullBitmapSize(Len(r)) /\ 8 * (k - 1) + j = i
  BY DEF NullBitmapSize
<1>2. bytes[k] = Sum8(NullsAt(r, k)) /\ NullsAt(r, k) \in [1 .. 8 -> {0, 1}]
  BY <1>1, NullBitmapIs
<1>3. (bytes[k] \div Bit[j]) % 2 = NullsAt(r, k)[j]
  BY <1>2, Bits
<1>4. NullsAt(r, k)[j] = IF r[i].isNull THEN 1 ELSE 0
  <2>1. NullsAt(r, k)[j] = IF 8 * (k - 1) + j \in DOMAIN r /\ r[8 * (k - 1) + j].isNull
                             THEN 1 ELSE 0
    BY DEF NullsAt
  <2>2. i \in DOMAIN r
    OBVIOUS
  <2> QED BY <1>1, <2>1, <2>2
<1>5. NullBit(bytes, i) <=> (bytes[k] \div Bit[j]) % 2 = 1
  BY DEF NullBit
<1> QED BY <1>3, <1>4, <1>5

LEMMA UnusedBits ==
  ASSUME NEW r \in Seq(Values), Len(r) >= 1, Len(r) % 8 # 0
  PROVE  NullBitmap(r)[NullBitmapSize(Len(r))] < Bit[1 + (Len(r) % 8)]
<1> PICK n \in Nat : n = Len(r)
  OBVIOUS
<1> PICK k \in Nat : k = NullBitmapSize(n)
  BY DEF NullBitmapSize
<1> PICK m \in 1 .. 7 : m = n % 8
  OBVIOUS
<1>1. k \in 1 .. NullBitmapSize(Len(r)) /\ 8 * (k - 1) + m = n
  BY DEF NullBitmapSize
<1>2. NullBitmap(r)[k] = Sum8(NullsAt(r, k)) /\ NullsAt(r, k) \in [1 .. 8 -> {0, 1}]
  BY <1>1, NullBitmapIs
<1>3. \A j \in m + 1 .. 8 : NullsAt(r, k)[j] = 0
  <2> SUFFICES ASSUME NEW j \in m + 1 .. 8 PROVE NullsAt(r, k)[j] = 0
    OBVIOUS
  <2>1. j \in 1 .. 8 /\ 8 * (k - 1) + j > n
    BY <1>1
  <2>2. 8 * (k - 1) + j \notin DOMAIN r
    BY <2>1
  <2> QED BY <2>1, <2>2 DEF NullsAt
<1>4. Sum8(NullsAt(r, k)) < Bit[1 + m]
  BY <1>2, <1>3, Bits
<1> QED BY <1>2, <1>4
-----------------------------------------------------------------------------
(***************************************************************************)
(* What encode has written after i values: the header, the i values at     *)
(* their places, and zero bytes beyond them.                               *)
(***************************************************************************)
Describes(s, r) == IsSchema(s) /\ r \in Seq(Values) /\ Encodable(s, r)

Header(s, r) == Written(Zeros(EncodedSize(s)), 0, <<Len(r) % 256>> \o NullBitmap(r))
FirstPut(s, r) == [at |-> FirstValueAt(Len(r)), bytes |-> Header(s, r)]
PutStep(s, r, acc, i) == IF i = 0 THEN FirstPut(s, r) ELSE Put(acc, s[i], r[i])
PutAll(s, r) ==
  LET header == Written(Zeros(EncodedSize(s)), 0, <<Len(r) % 256>> \o NullBitmap(r))
      put[i \in 0 .. Len(s)] == IF i = 0 THEN [at |-> FirstValueAt(Len(r)), bytes |-> header]
                                         ELSE Put(put[i - 1], s[i], r[i])
  IN  put

LEMMA PutExists ==
  ASSUME NEW s, NEW r, Len(s) \in Nat
  PROVE  \E h : h = [i \in 0 .. Len(s) |-> PutStep(s, r, h[i - 1], i)]
<1> DEFINE T == {k \in Nat : \E h : h = [i \in 0 .. k |-> PutStep(s, r, h[i - 1], i)]}
<1>1. 0 \in T
  <2> DEFINE h == [i \in 0 .. 0 |-> PutStep(s, r, 0, 0)]
  <2>1. h = [i \in 0 .. 0 |-> PutStep(s, r, h[i - 1], i)]
    BY DEF PutStep
  <2> QED BY <2>1
<1>2. ASSUME NEW k \in 0 .. Len(s) - 1, k \in T PROVE k + 1 \in T
  <2>1. PICK h : h = [i \in 0 .. k |-> PutStep(s, r, h[i - 1], i)]
    BY <1>2
  <2> DEFINE g == [i \in 0 .. k + 1 |-> IF i = k + 1 THEN PutStep(s, r, h[k], k + 1) ELSE h[i]]
  <2>2. \A i \in 0 .. k + 1 : g[i] = PutStep(s, r, g[i - 1], i)
    <3> SUFFICES ASSUME NEW i \in 0 .. k + 1 PROVE g[i] = PutStep(s, r, g[i - 1], i)
      OBVIOUS
    <3>1. CASE i = k + 1
      BY <3>1
    <3>2. CASE i \in 1 .. k
      BY <2>1, <3>2
    <3>3. CASE i = 0
      BY <2>1, <3>3 DEF PutStep
    <3> QED BY <3>1, <3>2, <3>3
  <2>3. g = [i \in 0 .. k + 1 |-> PutStep(s, r, g[i - 1], i)]
    BY <2>2
  <2>4. \E f : f = [i \in 0 .. k + 1 |-> PutStep(s, r, f[i - 1], i)]
    BY <2>3
  <2> QED BY <2>4
<1> HIDE DEF T
<1>3. Len(s) \in 0 .. Len(s)
  OBVIOUS
<1>4. Len(s) \in T
  BY <1>1, <1>2, <1>3, Induction
<1> QED BY <1>4 DEF T

LEMMA PutIs ==
  ASSUME NEW s, NEW r, Len(s) \in Nat
  PROVE  /\ PutAll(s, r)[0] = FirstPut(s, r)
         /\ \A i \in 1 .. Len(s) : PutAll(s, r)[i] = Put(PutAll(s, r)[i - 1], s[i], r[i])
<1>1. \E h : h = [i \in 0 .. Len(s) |->
                    IF i = 0 THEN FirstPut(s, r) ELSE Put(h[i - 1], s[i], r[i])]
  BY PutExists DEF PutStep
<1>2. PutAll(s, r) = [i \in 0 .. Len(s) |->
                    IF i = 0 THEN FirstPut(s, r) ELSE Put(PutAll(s, r)[i - 1], s[i], r[i])]
  BY <1>1 DEF PutAll, FirstPut, Header
<1> QED BY <1>2

LEMMA EncodeIs ==
  ASSUME NEW s, NEW r
  PROVE  Encode(s, r) = IF Encodable(s, r) THEN PutAll(s, r)[Len(s)].bytes ELSE Refused
BY DEF Encode, PutAll

LEMMA WrittenIs ==
  ASSUME NEW m \in Nat, NEW b \in [0 .. m - 1 -> Byte], NEW at \in Nat, NEW c \in Seq(Byte),
         at + Len(c) <= m
  PROVE  /\ Written(b, at, c) \in [0 .. m - 1 -> Byte]
         /\ \A o \in 0 .. m - 1 :
              Written(b, at, c)[o] = IF at <= o /\ o < at + Len(c) THEN c[o - at + 1] ELSE b[o]
<1> DEFINE there == at .. at + Len(c) - 1
<1>1. Len(c) \in Nat
  OBVIOUS
<1>2. DOMAIN b \cup there = 0 .. m - 1
  BY <1>1
<1>3. Written(b, at, c) = [o \in 0 .. m - 1 |-> IF o \in there THEN c[o - at + 1] ELSE b[o]]
  BY <1>2 DEF Written
<1>4. \A o \in 0 .. m - 1 : o \in there <=> at <= o /\ o < at + Len(c)
  BY <1>1
<1>5. \A o \in there : c[o - at + 1] \in Byte
  <2> SUFFICES ASSUME NEW o \in there PROVE c[o - at + 1] \in Byte
    OBVIOUS
  <2>1. o - at + 1 \in 1 .. Len(c)
    BY <1>1
  <2> QED BY <2>1
<1> HIDE DEF there
<1>6. \A o \in 0 .. m - 1 : (IF o \in there THEN c[o - at + 1] ELSE b[o]) \in Byte
  BY <1>5
<1> QED BY <1>3, <1>4, <1>6

LEMMA HeaderIs ==
  ASSUME NEW s, NEW r, Describes(s, r)
  PROVE  /\ Header(s, r) \in [0 .. EncodedSize(s) - 1 -> Byte]
         /\ Header(s, r)[0] = Len(s)
         /\ \A k \in 1 .. NullBitmapSize(Len(s)) : Header(s, r)[k] = NullBitmap(r)[k]
         /\ \A o \in 0 .. EncodedSize(s) - 1 : o > NullBitmapSize(Len(s)) => Header(s, r)[o] = 0
<1> DEFINE head == <<Len(r) % 256>>
           size == NullBitmapSize(Len(s))
           c == head \o NullBitmap(r)
<1>1. /\ Len(s) \in 1 .. 255 /\ Len(r) = Len(s) /\ r \in Seq(Values) /\ IsSchema(s)
  BY Zenon DEF Describes, IsSchema, Encodable
<1>2. Len(r) % 256 = Len(s) /\ Len(r) % 256 \in Byte
  <2>1. PICK n \in 1 .. 255 : n = Len(s) /\ n = Len(r)
    BY <1>1
  <2>2. n % 256 = n /\ n \in Byte
    BY DEF Byte
  <2> QED BY <2>1, <2>2
<1>3. head \in Seq(Byte) /\ Len(head) = 1 /\ head[1] = Len(s)
  BY <1>2, ShortSeq
<1>4. NullBitmap(r) \in Seq(Byte) /\ Len(NullBitmap(r)) = size
  BY <1>1, NullBitmapIs
<1>5. size \in Nat /\ size >= 1
  BY <1>1, HeaderLength
<1>6. PICK n \in Seq(Byte) : n = NullBitmap(r) /\ Len(n) = size
  BY <1>4
<1> HIDE DEF head, size
<1>7. PICK h \in Seq(Byte) : h = head /\ Len(h) = 1 /\ h[1] = Len(s)
  BY <1>3
<1>8. /\ h \o n \in Seq(Byte) /\ Len(h \o n) = 1 + size
      /\ (h \o n)[1] = Len(s)
      /\ \A k \in 1 .. size : (h \o n)[1 + k] = n[k]
  <2>1. h \o n \in Seq(Byte) /\ Len(h \o n) = Len(h) + Len(n)
    OBVIOUS
  <2>2. Len(h \o n) = 1 + size
    BY <1>6, <1>7, <2>1
  <2>3. (h \o n)[1] = h[1]
    <3>1. \A i \in 1 .. Len(h) : (h \o n)[i] = h[i]
      OBVIOUS
    <3> QED BY <1>7, <3>1
  <2>4. \A k \in 1 .. Len(n) : (h \o n)[Len(h) + k] = n[k]
    OBVIOUS
  <2> QED BY <1>6, <1>7, <2>1, <2>2, <2>3, <2>4
<1>9. c \in Seq(Byte) /\ Len(c) = 1 + size /\ c[1] = Len(s)
        /\ \A k \in 1 .. size : c[1 + k] = n[k]
  BY <1>6, <1>7, <1>8
<1> HIDE DEF c
<1>10. EncodedSize(s) \in Nat /\ 0 + (1 + size) <= EncodedSize(s)
  <2>1. /\ EncodedSize(s) \in Nat /\ 1 + size <= Offset(s)[0]
        /\ Offset(s)[0] \in Nat /\ Offset(s)[0] <= EncodedSize(s)
    BY <1>1, Layout DEF size
  <2> QED BY <1>5, <2>1
<1>11. Zeros(EncodedSize(s)) \in [0 .. EncodedSize(s) - 1 -> Byte]
         /\ \A o \in 0 .. EncodedSize(s) - 1 : Zeros(EncodedSize(s))[o] = 0
  BY DEF Zeros, Byte
<1>12. Header(s, r) = Written(Zeros(EncodedSize(s)), 0, c)
  BY DEF Header, c, head
<1>13. /\ Header(s, r) \in [0 .. EncodedSize(s) - 1 -> Byte]
       /\ \A o \in 0 .. EncodedSize(s) - 1 :
            Header(s, r)[o] = IF 0 <= o /\ o < 0 + Len(c) THEN c[o - 0 + 1]
                                                         ELSE Zeros(EncodedSize(s))[o]
  <2>1. PICK m \in Nat : m = EncodedSize(s)
    BY <1>10
  <2>2. PICK z \in [0 .. m - 1 -> Byte] : z = Zeros(EncodedSize(s))
    BY <1>11, <2>1
  <2>3. PICK d \in Seq(Byte) : d = c
    BY <1>9
  <2>4. 0 \in Nat /\ 0 + Len(d) <= m
    BY <1>9, <1>10, <2>1, <2>3
  <2>5. /\ Written(z, 0, d) \in [0 .. m - 1 -> Byte]
        /\ \A o \in 0 .. m - 1 :
             Written(z, 0, d)[o] = IF 0 <= o /\ o < 0 + Len(d) THEN d[o - 0 + 1] ELSE z[o]
    BY <2>4, WrittenIs
  <2> QED BY <1>12, <2>1, <2>2, <2>3, <2>5
<1>14. Header(s, r)[0] = Len(s)
  <2>1. 0 \in 0 .. EncodedSize(s) - 1 /\ 0 < 0 + Len(c) /\ 0 - 0 + 1 = 1
    BY <1>5, <1>9, <1>10
  <2> QED BY <1>9, <1>13, <2>1
<1>15. \A k \in 1 .. size : Header(s, r)[k] = n[k]
  <2> SUFFICES ASSUME NEW k \in 1 .. size PROVE Header(s, r)[k] = n[k]
    OBVIOUS
  <2>1. k \in 0 .. EncodedSize(s) - 1 /\ 0 <= k /\ k < 0 + Len(c) /\ k - 0 + 1 = 1 + k
    BY <1>5, <1>9, <1>10
  <2> QED BY <1>9, <1>13, <2>1
<1>16. \A o \in 0 .. EncodedSize(s) - 1 : o > size => Header(s, r)[o] = 0
  BY <1>5, <1>9, <1>11, <1>13
<1> QED BY <1>6, <1>13, <1>14, <1>15, <1>16 DEF size

(* The bytes of value i: none is written for a null value.                 *)
CellOf(value) == IF value.isNull THEN <<>> ELSE Cell(value)

PutSoFar(s, r, k) ==
  LET put == PutAll(s, r)[k]
  IN  /\ put.at = Offset(s)[k]
      /\ put.bytes \in [0 .. EncodedSize(s) - 1 -> Byte]
      /\ \A o \in 0 .. EncodedSize(s) - 1 :
           /\ o < Offset(s)[0] => put.bytes[o] = Header(s, r)[o]
           /\ o >= Offset(s)[k] => put.bytes[o] = 0
      /\ \A i \in 1 .. k : Reads(put.bytes, At(s, i), s[i], CellOf(r[i]))

LEMMA Parts ==
  ASSUME NEW s, NEW r, Describes(s, r)
  PROVE  /\ IsSchema(s) /\ s \in Seq(Columns) /\ Len(s) \in 1 .. 255 /\ Len(s) \in Nat
         /\ Len(s) \in 0 .. Len(s)
         /\ r \in Seq(Values) /\ Len(r) = Len(s) /\ Encodable(s, r)
<1>1. IsSchema(s) /\ r \in Seq(Values) /\ Encodable(s, r)
  BY DEF Describes
<1>2. s \in Seq(Columns) /\ Len(s) \in 1 .. 255
  BY <1>1 DEF IsSchema
<1>3. Len(s) \in Nat /\ Len(s) \in 0 .. Len(s)
  BY <1>2
<1>4. Len(r) = Len(s)
  BY <1>1 DEF Encodable
<1> QED BY <1>1, <1>2, <1>3, <1>4

LEMMA Description ==
  ASSUME NEW s, NEW r, Describes(s, r), NEW i \in 1 .. Len(s)
  PROVE  /\ s[i] \in Columns /\ r[i] \in Values /\ Suits(s[i], r[i])
         /\ CellOf(r[i]) \in Seq(Byte) /\ Len(CellOf(r[i])) <= ValueSize(s[i])
<1>1. /\ IsSchema(s) /\ r \in Seq(Values) /\ Len(r) = Len(s) /\ s \in Seq(Columns)
      /\ Len(s) \in Nat
  BY Parts
<1>2. s[i] \in Columns /\ r[i] \in Values /\ i \in DOMAIN s
  BY <1>1
<1>3. Suits(s[i], r[i])
  BY <1>2 DEF Describes, Encodable, Suits
<1>4. CASE r[i].isNull
  <2>1. CellOf(r[i]) = <<>>
    BY <1>4 DEF CellOf
  <2>2. ValueSize(s[i]) \in Nat
    BY <1>1, ColumnFacts
  <2> QED BY <1>2, <1>3, <2>1, <2>2
<1>5. CASE ~r[i].isNull
  <2>1. CellOf(r[i]) = Cell(r[i])
    BY <1>5 DEF CellOf
  <2> QED BY <1>2, <1>3, <1>5, <2>1, CellFits
<1> QED BY <1>4, <1>5

LEMMA PutOne ==
  ASSUME NEW s, NEW r, Describes(s, r), NEW k \in 0 .. Len(s) - 1, PutSoFar(s, r, k)
  PROVE  PutSoFar(s, r, k + 1)
<1>1. IsSchema(s) /\ Len(s) \in Nat
  BY DEF Describes, IsSchema
<1>2. k + 1 \in 1 .. Len(s) /\ k + 1 \in 0 .. Len(s) /\ k \in 0 .. Len(s) /\ 0 \in 0 .. Len(s)
        /\ (k + 1) - 1 = k
  BY <1>1
<1> PICK m \in Nat : m = EncodedSize(s)
  BY <1>1, Layout
<1> PICK first \in Nat : first = Offset(s)[0]
  BY <1>1, <1>2, Layout
<1> PICK from \in Nat : from = Offset(s)[k]
  BY <1>1, <1>2, Layout
<1> PICK to \in Nat : to = Offset(s)[k + 1]
  BY <1>1, <1>2, Layout
<1> PICK at \in Nat : at = At(s, k + 1)
  BY <1>1, <1>2, Layout
<1> PICK size \in Nat : size = ValueSize(s[k + 1])
  BY <1>1, <1>2, ColumnFacts
<1> PICK c \in Seq(Byte) : c = CellOf(r[k + 1])
  BY <1>2, Description
<1> PICK len \in Nat : len = Len(c)
  OBVIOUS
<1>3. /\ m \in Nat /\ first \in Nat /\ from \in Nat /\ to \in Nat
      /\ at \in Nat /\ size \in Nat /\ len \in Nat
      /\ first <= at /\ from <= at /\ to = at + size /\ to <= m /\ len <= size
  <2>1. from <= at
    BY <1>1, <1>2, OffsetType
  <2>2. first <= at /\ to = at + size /\ to <= m
    BY <1>1, <1>2, Layout
  <2>3. len <= size
    BY <1>2, Description
  <2> QED BY <2>1, <2>2, <2>3
<1>4. \A i \in 1 .. k : /\ At(s, i) \in Nat /\ ValueSize(s[i]) \in Nat
                        /\ At(s, i) + ValueSize(s[i]) <= at
  <2> SUFFICES ASSUME NEW i \in 1 .. k
               PROVE  /\ At(s, i) \in Nat /\ ValueSize(s[i]) \in Nat
                      /\ At(s, i) + ValueSize(s[i]) <= at
    OBVIOUS
  <2>1. i \in 1 .. Len(s) /\ i < k + 1
    BY <1>1
  <2>2. Offset(s)[i] <= at /\ Offset(s)[i] = At(s, i) + ValueSize(s[i]) /\ At(s, i) \in Nat
    BY <1>1, <1>2, <2>1, Layout
  <2> QED BY <1>1, <2>1, <2>2, ColumnFacts
<1>5. PICK b \in [0 .. m - 1 -> Byte] : b = PutAll(s, r)[k].bytes
  BY DEF PutSoFar
<1>6. /\ PutAll(s, r)[k].at = from
      /\ \A o \in 0 .. m - 1 : o < first => b[o] = Header(s, r)[o]
      /\ \A o \in 0 .. m - 1 : o >= from => b[o] = 0
      /\ \A i \in 1 .. k : Reads(b, At(s, i), s[i], CellOf(r[i]))
  BY <1>5 DEF PutSoFar
<1>7. PutAll(s, r)[k + 1] = Put(PutAll(s, r)[k], s[k + 1], r[k + 1])
  BY <1>1, <1>2, PutIs
<1>8. Aligned(from, s[k + 1]) = at
  BY <1>2 DEF Aligned, At
<1>9. /\ PutAll(s, r)[k + 1].at = at + size
      /\ PutAll(s, r)[k + 1].bytes = IF r[k + 1].isNull THEN b ELSE Written(b, at, Cell(r[k + 1]))
  BY <1>5, <1>6, <1>7, <1>8 DEF Put
<1>10. PICK d : d = PutAll(s, r)[k + 1].bytes
  OBVIOUS
<1>11. /\ d \in [0 .. m - 1 -> Byte]
       /\ \A o \in 0 .. m - 1 : d[o] = IF at <= o /\ o < at + len THEN c[o - at + 1] ELSE b[o]
  <2>1. CASE r[k + 1].isNull
    <3>1. d = b /\ c = <<>>
      BY <1>9, <1>10, <2>1 DEF CellOf
    <3>2. len = 0
      BY <3>1
    <3>3. \A o \in 0 .. m - 1 : ~(at <= o /\ o < at + len)
      BY ONLY <1>3, <3>2
    <3> QED BY <3>1, <3>3
  <2>2. CASE ~r[k + 1].isNull
    <3>1. d = Written(b, at, c)
      BY <1>9, <1>10, <2>2 DEF CellOf
    <3>2. at + len <= m
      BY ONLY <1>3
    <3>3. at + Len(c) <= m
      BY <3>2
    <3>4. Written(b, at, c) \in [0 .. m - 1 -> Byte]
      BY ONLY <3>3, m \in Nat, at \in Nat, b \in [0 .. m - 1 -> Byte], c \in Seq(Byte), WrittenIs
    <3>5. \A o \in 0 .. m - 1 : Written(b, at, c)[o] =
            IF at <= o /\ o < at + Len(c) THEN c[o - at + 1] ELSE b[o]
      BY ONLY <3>3, m \in Nat, at \in Nat, b \in [0 .. m - 1 -> Byte], c \in Seq(Byte), WrittenIs
    <3> QED BY <3>1, <3>4, <3>5
  <2> QED BY <2>1, <2>2
<1>12. \A o \in 0 .. m - 1 : o < first => d[o] = Header(s, r)[o]
  <2>1. \A o \in 0 .. m - 1 : o < first => ~(at <= o /\ o < at + len)
    BY ONLY <1>3
  <2> QED BY <1>6, <1>11, <2>1
<1>13. \A o \in 0 .. m - 1 : o >= to => d[o] = 0
  <2>1. \A o \in 0 .. m - 1 : o >= to => o >= from /\ ~(at <= o /\ o < at + len)
    BY ONLY <1>3
  <2> QED BY <1>6, <1>11, <2>1
<1>14. ASSUME NEW i \in 1 .. k PROVE Reads(d, At(s, i), s[i], CellOf(r[i]))
  <2> SUFFICES ASSUME NEW j \in 0 .. ValueSize(s[i]) - 1
               PROVE  d[At(s, i) + j] = IF j < Len(CellOf(r[i])) THEN CellOf(r[i])[j + 1] ELSE 0
    BY DEF Reads
  <2>1. b[At(s, i) + j] = IF j < Len(CellOf(r[i])) THEN CellOf(r[i])[j + 1] ELSE 0
    BY <1>6 DEF Reads
  <2>2. PICK a \in Nat : a = At(s, i)
    BY <1>4
  <2>3. PICK z \in Nat : z = ValueSize(s[i])
    BY <1>4
  <2>4. a \in Nat /\ z \in Nat /\ j \in 0 .. z - 1 /\ a + z <= at
    BY <1>4, <2>2, <2>3
  <2>5. a + j \in 0 .. m - 1 /\ ~(at <= a + j)
    BY ONLY <1>3, <2>4
  <2>6. d[a + j] = b[a + j]
    BY <1>11, <2>5
  <2> QED BY <2>1, <2>2, <2>6
<1>15. Reads(d, at, s[k + 1], c)
  <2> SUFFICES ASSUME NEW j \in 0 .. size - 1
               PROVE  d[at + j] = IF j < len THEN c[j + 1] ELSE 0
    BY DEF Reads
  <2>0. j \in 0 .. size - 1
    OBVIOUS
  <2>1. /\ at + j \in 0 .. m - 1 /\ at + j >= from /\ (at + j) - at + 1 = j + 1
        /\ at <= at + j /\ (at + j < at + len <=> j < len)
    BY ONLY <1>3, <2>0
  <2>2. d[at + j] = IF j < len THEN c[j + 1] ELSE b[at + j]
    <3>1. d[at + j] = IF at <= at + j /\ at + j < at + len THEN c[(at + j) - at + 1]
                                                            ELSE b[at + j]
      BY <1>11, <2>1
    <3> QED BY ONLY <2>1, <3>1
  <2>3. b[at + j] = 0
    BY <1>6, <2>1
  <2> QED BY ONLY <2>2, <2>3
<1>16. \A i \in 1 .. k + 1 : Reads(d, At(s, i), s[i], CellOf(r[i]))
  <2>1. \A i \in 1 .. k + 1 : i \in 1 .. k \/ i = k + 1
    OBVIOUS
  <2> QED BY <1>14, <1>15, <2>1
<1> QED BY <1>3, <1>9, <1>10, <1>11, <1>12, <1>13, <1>16 DEF PutSoFar

LEMMA EncodeWrites ==
  ASSUME NEW s, NEW r, Describes(s, r)
  PROVE  /\ Encode(s, r) \in [0 .. EncodedSize(s) - 1 -> Byte]
         /\ \A o \in 0 .. EncodedSize(s) - 1 :
              o < Offset(s)[0] => Encode(s, r)[o] = Header(s, r)[o]
         /\ \A i \in 1 .. Len(s) : Reads(Encode(s, r), At(s, i), s[i], CellOf(r[i]))
<1>1. /\ IsSchema(s) /\ Len(s) \in Nat /\ Len(s) \in 1 .. 255 /\ Len(s) \in 0 .. Len(s)
      /\ Len(r) = Len(s) /\ Encodable(s, r)
  BY Parts
<1> DEFINE T == {k \in Nat : PutSoFar(s, r, k)}
<1>2. 0 \in T
  <2>1. PutAll(s, r)[0] = [at |-> Offset(s)[0], bytes |-> Header(s, r)]
    BY <1>1, PutIs, OffsetIs DEF FirstPut
  <2>2. PICK p : p = PutAll(s, r)[0]
    OBVIOUS
  <2>3. p.at = Offset(s)[0] /\ p.bytes = Header(s, r)
    BY <2>1, <2>2
  <2>4. Header(s, r) \in [0 .. EncodedSize(s) - 1 -> Byte]
    BY HeaderIs
  <2>5. \A o \in 0 .. EncodedSize(s) - 1 : o >= Offset(s)[0] => Header(s, r)[o] = 0
    <3>1. PICK size \in Nat : size = NullBitmapSize(Len(s))
      BY <1>1, HeaderLength
    <3>2. PICK first \in Nat : first = Offset(s)[0]
      BY <1>1, Layout
    <3>3. 1 + size <= first
      BY <1>1, <3>1, <3>2, Layout
    <3>4. \A o \in Nat : o >= first => o > size
      BY <3>3
    <3>5. \A o \in 0 .. EncodedSize(s) - 1 : o >= Offset(s)[0] => o > NullBitmapSize(Len(s))
      <4>1. EncodedSize(s) \in Nat
        BY <1>1, Layout
      <4>2. \A o \in 0 .. EncodedSize(s) - 1 : o \in Nat
        BY <4>1
      <4> QED BY <3>1, <3>2, <3>4, <4>2
    <3> QED BY <3>5, HeaderIs
  <2>6. PutSoFar(s, r, 0)
    BY <2>2, <2>3, <2>4, <2>5 DEF PutSoFar
  <2> QED BY <2>6
<1>3. ASSUME NEW k \in 0 .. Len(s) - 1, k \in T PROVE k + 1 \in T
  BY <1>1, <1>3, PutOne
<1> HIDE DEF T
<1>4. Len(s) \in T
  BY <1>1, <1>2, <1>3, Induction
<1>5. PutSoFar(s, r, Len(s))
  BY <1>4 DEF T
<1>6. Encode(s, r) = PutAll(s, r)[Len(s)].bytes
  BY <1>1, EncodeIs
<1> QED BY <1>5, <1>6 DEF PutSoFar
-----------------------------------------------------------------------------
(***************************************************************************)
(* What decode has read after i values: it is at the offset where encode   *)
(* is, and has refused the bytes or holds i values that suit the columns.  *)
(***************************************************************************)
FirstTake(s) == [at |-> FirstValueAt(Len(s)), row |-> <<>>]
TakeStep(s, bytes, acc, i) ==
  IF i = 0 THEN FirstTake(s) ELSE Take(acc, bytes, s[i], NullBit(bytes, i))
TakeAll(s, bytes) ==
  LET take[i \in 0 .. Len(s)] == IF i = 0 THEN [at |-> FirstValueAt(Len(s)), row |-> <<>>]
                                          ELSE Take(take[i - 1], bytes, s[i], NullBit(bytes, i))
  IN  take

LEMMA TakeExists ==
  ASSUME NEW s, NEW b, Len(s) \in Nat
  PROVE  \E h : h = [i \in 0 .. Len(s) |-> TakeStep(s, b, h[i - 1], i)]
<1> DEFINE T == {k \in Nat : \E h : h = [i \in 0 .. k |-> TakeStep(s, b, h[i - 1], i)]}
<1>1. 0 \in T
  <2> DEFINE h == [i \in 0 .. 0 |-> TakeStep(s, b, 0, 0)]
  <2>1. h = [i \in 0 .. 0 |-> TakeStep(s, b, h[i - 1], i)]
    BY DEF TakeStep
  <2> QED BY <2>1
<1>2. ASSUME NEW k \in 0 .. Len(s) - 1, k \in T PROVE k + 1 \in T
  <2>1. PICK h : h = [i \in 0 .. k |-> TakeStep(s, b, h[i - 1], i)]
    BY <1>2
  <2> DEFINE g == [i \in 0 .. k + 1 |-> IF i = k + 1 THEN TakeStep(s, b, h[k], k + 1) ELSE h[i]]
  <2>2. \A i \in 0 .. k + 1 : g[i] = TakeStep(s, b, g[i - 1], i)
    <3> SUFFICES ASSUME NEW i \in 0 .. k + 1 PROVE g[i] = TakeStep(s, b, g[i - 1], i)
      OBVIOUS
    <3>1. CASE i = k + 1
      BY <3>1
    <3>2. CASE i \in 1 .. k
      BY <2>1, <3>2
    <3>3. CASE i = 0
      BY <2>1, <3>3 DEF TakeStep
    <3> QED BY <3>1, <3>2, <3>3
  <2>3. g = [i \in 0 .. k + 1 |-> TakeStep(s, b, g[i - 1], i)]
    BY <2>2
  <2>4. \E f : f = [i \in 0 .. k + 1 |-> TakeStep(s, b, f[i - 1], i)]
    BY <2>3
  <2> QED BY <2>4
<1> HIDE DEF T
<1>3. Len(s) \in 0 .. Len(s)
  OBVIOUS
<1>4. Len(s) \in T
  BY <1>1, <1>2, <1>3, Induction
<1> QED BY <1>4 DEF T

LEMMA TakeIs ==
  ASSUME NEW s, NEW b, Len(s) \in Nat
  PROVE  /\ TakeAll(s, b)[0] = FirstTake(s)
         /\ \A i \in 1 .. Len(s) :
              TakeAll(s, b)[i] = Take(TakeAll(s, b)[i - 1], b, s[i], NullBit(b, i))
<1>1. \E h : h = [i \in 0 .. Len(s) |->
                    IF i = 0 THEN FirstTake(s) ELSE Take(h[i - 1], b, s[i], NullBit(b, i))]
  BY TakeExists DEF TakeStep
<1>2. TakeAll(s, b) = [i \in 0 .. Len(s) |->
                    IF i = 0 THEN FirstTake(s)
                             ELSE Take(TakeAll(s, b)[i - 1], b, s[i], NullBit(b, i))]
  BY <1>1 DEF TakeAll, FirstTake
<1> QED BY <1>2

LEMMA DecodeIs ==
  ASSUME NEW s, NEW b
  PROVE  Decode(s, b) = IF HeaderFits(s, b) THEN TakeAll(s, b)[Len(s)].row ELSE Refused
BY DEF Decode, TakeAll

(* One step of decode, at the offset of the layout.                        *)
OneTaken(s, b, k) ==
  LET old == TakeAll(s, b)[k].row
      new == TakeAll(s, b)[k + 1].row
  IN  /\ TakeAll(s, b)[k + 1].at = Offset(s)[k + 1]
      /\ old = Refused => new = Refused
      /\ old # Refused /\ ~NullBit(b, k + 1) =>
           new = Append(old, ReadValue(b, At(s, k + 1), s[k + 1]))
      /\ old # Refused /\ NullBit(b, k + 1) =>
           new = IF NullAllowed(b, At(s, k + 1), s[k + 1])
                   THEN Append(old, NullValue(s[k + 1].type)) ELSE Refused

LEMMA TakeOne ==
  ASSUME NEW s, IsSchema(s), NEW b, NEW k \in 0 .. Len(s) - 1,
         TakeAll(s, b)[k].at = Offset(s)[k]
  PROVE  OneTaken(s, b, k)
<1>1. Len(s) \in Nat /\ k + 1 \in 1 .. Len(s) /\ (k + 1) - 1 = k
  BY DEF IsSchema
<1>2. TakeAll(s, b)[k + 1] = Take(TakeAll(s, b)[k], b, s[k + 1], NullBit(b, k + 1))
  BY <1>1, TakeIs
<1>3. DecodeAligned(Offset(s)[k], s[k + 1]) = At(s, k + 1)
  BY <1>1 DEF DecodeAligned, At
<1>4. Offset(s)[k + 1] = At(s, k + 1) + ValueSize(s[k + 1])
  BY <1>1, OffsetIs
<1> PICK acc : acc = TakeAll(s, b)[k]
  OBVIOUS
<1> PICK isNull \in BOOLEAN : isNull = NullBit(b, k + 1)
  BY DEF NullBit
<1>5. TakeAll(s, b)[k + 1] = Take(acc, b, s[k + 1], isNull) /\ acc.at = Offset(s)[k]
  BY <1>2
<1>6. /\ TakeAll(s, b)[k + 1].at = Offset(s)[k + 1]
      /\ TakeAll(s, b)[k + 1].row =
           CASE acc.row = Refused -> Refused
             [] acc.row # Refused /\ ~isNull ->
                  Append(acc.row, ReadValue(b, At(s, k + 1), s[k + 1]))
             [] OTHER -> IF NullAllowed(b, At(s, k + 1), s[k + 1])
                           THEN Append(acc.row, NullValue(s[k + 1].type)) ELSE Refused
  BY <1>3, <1>4, <1>5 DEF Take
<1> QED BY <1>6 DEF OneTaken

LEMMA RefusedIsNoRow == RowCodecAssumption => Refused \notin Seq(Values)
  BY DEF RowCodecAssumption

LEMMA NullFits ==
  ASSUME NEW column \in Columns
  PROVE  /\ NullValue(column.type) \in Values
         /\ column.nullable => Suits(column, NullValue(column.type))
<1>1. column.type \in Types
  BY DEF Columns
<1>2. <<>> \in Seq(Word)
  OBVIOUS
<1>3. PICK v : v = NullValue(column.type)
  OBVIOUS
<1>4. /\ v \in [type : Types, isNull : BOOLEAN, payload : Seq(Word)]
      /\ v.isNull = TRUE /\ v.payload = <<>> /\ v.type = column.type
  BY <1>1, <1>2, <1>3 DEF NullValue
<1>5. v \in Values
  BY <1>4 DEF Values
<1>6. column.nullable => Suits(column, v)
  BY <1>4 DEF Suits
<1> QED BY <1>3, <1>5, <1>6

LEMMA AppendOne ==
  ASSUME NEW S, NEW f \in Seq(S), NEW x \in S, NEW k \in Nat, Len(f) = k
  PROVE  /\ Append(f, x) \in Seq(S) /\ Len(Append(f, x)) = k + 1
         /\ \A i \in 1 .. k : Append(f, x)[i] = f[i]
         /\ Append(f, x)[k + 1] = x
OBVIOUS

TookSoFar(s, bytes, k) ==
  LET take == TakeAll(s, bytes)[k]
  IN  /\ take.at = Offset(s)[k]
      /\ \/ take.row = Refused
         \/ /\ take.row \in Seq(Values) /\ Len(take.row) = k
            /\ \A i \in 1 .. k : Suits(s[i], take.row[i])

LEMMA ReadColumn ==
  ASSUME NEW s, IsSchema(s), NEW b \in [0 .. EncodedSize(s) - 1 -> Byte], NEW i \in 1 .. Len(s)
  PROVE  /\ ReadValue(b, At(s, i), s[i]) \in Values
         /\ Suits(s[i], ReadValue(b, At(s, i), s[i]))
<1>1. PICK at \in Nat : at = At(s, i)
  BY Layout
<1>2. PICK size \in Nat : size = ValueSize(s[i])
  BY ColumnFacts
<1>3. PICK m \in Nat : m = EncodedSize(s)
  BY Layout
<1>4. at + size <= m
  <2>1. i \in 0 .. Len(s)
    BY DEF IsSchema
  <2>2. Offset(s)[i] <= m /\ Offset(s)[i] = at + size
    BY <1>1, <1>2, <1>3, <2>1, Layout
  <2> QED BY <2>2
<1>5. at \in Nat /\ size \in Nat /\ m \in Nat
  OBVIOUS
<1>6. \A j \in 0 .. size - 1 : at + j \in 0 .. m - 1
  BY ONLY <1>4, <1>5
<1>7. \A j \in 0 .. ValueSize(s[i]) - 1 : b[at + j] \in Byte
  BY <1>2, <1>3, <1>6
<1>8. s[i] \in Columns
  BY DEF IsSchema
<1> QED BY <1>1, <1>7, <1>8, ReadIsValue

(* What decode accepts is a row of its table, whatever the bytes are.      *)
LEMMA DecodedFits ==
  ASSUME NEW s, IsSchema(s), NEW b \in [0 .. EncodedSize(s) - 1 -> Byte]
  PROVE  \/ Decode(s, b) = Refused
         \/ Describes(s, Decode(s, b))
<1>1. Len(s) \in Nat /\ Len(s) \in 0 .. Len(s)
  BY DEF IsSchema
<1> DEFINE T == {k \in Nat : TookSoFar(s, b, k)}
<1>2. 0 \in T
  <2>1. PICK p : p = TakeAll(s, b)[0]
    OBVIOUS
  <2>2. p.at = Offset(s)[0] /\ p.row = <<>>
    <3>1. TakeAll(s, b)[0] = FirstTake(s) /\ Offset(s)[0] = FirstValueAt(Len(s))
      BY <1>1, TakeIs, OffsetIs
    <3> QED BY <2>1, <3>1 DEF FirstTake
  <2>3. <<>> \in Seq(Values) /\ Len(<<>>) = 0
    OBVIOUS
  <2>4. TookSoFar(s, b, 0)
    BY <2>1, <2>2, <2>3 DEF TookSoFar
  <2> QED BY <2>4
<1>3. ASSUME NEW k \in 0 .. Len(s) - 1, k \in T PROVE k + 1 \in T
  <2> k + 1 \in 1 .. Len(s) /\ (k + 1) - 1 = k /\ k \in Nat /\ k + 1 \in Nat
    BY <1>1
  <2>1. PICK old : old = TakeAll(s, b)[k].row
    OBVIOUS
  <2>2. PICK new : new = TakeAll(s, b)[k + 1].row
    OBVIOUS
  <2>3. TakeAll(s, b)[k].at = Offset(s)[k]
    BY <1>3 DEF TookSoFar
  <2>4. \/ old = Refused
        \/ old \in Seq(Values) /\ Len(old) = k /\ \A i \in 1 .. k : Suits(s[i], old[i])
    BY <1>3, <2>1 DEF TookSoFar
  <2>0. OneTaken(s, b, k)
    BY <2>3, TakeOne
  <2>5. TakeAll(s, b)[k + 1].at = Offset(s)[k + 1]
    BY <2>0 DEF OneTaken
  <2>6. /\ old = Refused => new = Refused
        /\ old # Refused /\ ~NullBit(b, k + 1) =>
             new = Append(old, ReadValue(b, At(s, k + 1), s[k + 1]))
        /\ old # Refused /\ NullBit(b, k + 1) =>
             new = IF NullAllowed(b, At(s, k + 1), s[k + 1])
                     THEN Append(old, NullValue(s[k + 1].type)) ELSE Refused
    BY <2>0, <2>1, <2>2 DEF OneTaken
  <2>7. s[k + 1] \in Columns
    BY DEF IsSchema
  <2>8. ReadValue(b, At(s, k + 1), s[k + 1]) \in Values
          /\ Suits(s[k + 1], ReadValue(b, At(s, k + 1), s[k + 1]))
    BY <2>7, ReadColumn
  <2>9. CASE new = Refused
    BY <2>2, <2>5, <2>9 DEF TookSoFar
  <2>10. CASE new # Refused
    <3>1. old # Refused /\ old \in Seq(Values) /\ Len(old) = k
            /\ \A i \in 1 .. k : Suits(s[i], old[i])
      BY <2>4, <2>6, <2>10
    <3>2. PICK v \in Values : new = Append(old, v) /\ Suits(s[k + 1], v)
      <4>1. CASE ~NullBit(b, k + 1)
        BY <2>6, <2>8, <3>1, <4>1
      <4>2. CASE NullBit(b, k + 1)
        <5>1. NullAllowed(b, At(s, k + 1), s[k + 1]) /\ new = Append(old, NullValue(s[k + 1].type))
          BY <2>6, <2>10, <3>1, <4>2
        <5>2. s[k + 1].nullable
          BY <5>1 DEF NullAllowed
        <5> QED BY <2>7, <5>1, <5>2, NullFits
      <4> QED BY <4>1, <4>2
    <3>3. new \in Seq(Values) /\ Len(new) = k + 1
      BY <3>1, <3>2, AppendOne
    <3>4. \A i \in 1 .. k + 1 : Suits(s[i], new[i])
      <4>1. \A i \in 1 .. k : new[i] = old[i]
        BY <3>1, <3>2, AppendOne
      <4>2. new[k + 1] = v
        BY <3>1, <3>2, AppendOne
      <4>3. \A i \in 1 .. k + 1 : i \in 1 .. k \/ i = k + 1
        OBVIOUS
      <4> QED BY <3>1, <3>2, <4>1, <4>2, <4>3
    <3> QED BY <2>2, <2>5, <3>3, <3>4 DEF TookSoFar
  <2> QED BY <2>9, <2>10
<1> HIDE DEF T
<1>4. Len(s) \in T
  BY <1>1, <1>2, <1>3, Induction
<1>5. TookSoFar(s, b, Len(s))
  BY <1>4 DEF T
<1>6. CASE ~HeaderFits(s, b)
  BY <1>6, DecodeIs
<1>7. CASE HeaderFits(s, b)
  <2>1. PICK d : d = Decode(s, b)
    OBVIOUS
  <2>2. d = TakeAll(s, b)[Len(s)].row
    BY <1>7, <2>1, DecodeIs
  <2>3. \/ d = Refused
        \/ d \in Seq(Values) /\ Len(d) = Len(s) /\ \A i \in 1 .. Len(s) : Suits(s[i], d[i])
    BY <1>5, <2>2 DEF TookSoFar
  <2>4. DOMAIN s = 1 .. Len(s)
    BY DEF IsSchema
  <2>5. CASE d # Refused
    <3>1. Encodable(s, d)
      BY <2>3, <2>4, <2>5 DEF Encodable, Suits
    <3> QED BY <2>1, <2>3, <2>5, <3>1 DEF Describes
  <2> QED BY <2>1, <2>5
<1> QED BY <1>6, <1>7

(* decode undoes encode, up to the first zero byte of a string.            *)
LEMMA HeaderAccepted ==
  ASSUME NEW s, NEW r, Describes(s, r)
  PROVE  /\ HeaderFits(s, Encode(s, r))
         /\ \A i \in 1 .. Len(s) : NullBit(Encode(s, r), i) <=> r[i].isNull
<1>1. /\ IsSchema(s) /\ Len(s) \in 1 .. 255 /\ Len(s) \in Nat /\ r \in Seq(Values)
      /\ Len(r) = Len(s)
  BY Parts
<1> PICK b : b = Encode(s, r)
  OBVIOUS
<1> PICK size \in Nat : size = NullBitmapSize(Len(s))
  BY <1>1, HeaderLength
<1> PICK first \in Nat : first = Offset(s)[0]
  BY <1>1, Layout
<1> PICK m \in Nat : m = EncodedSize(s)
  BY <1>1, Layout
<1>2. size \in Nat /\ first \in Nat /\ m \in Nat /\ 1 <= size /\ 1 + size <= first /\ first <= m
  <2>1. 0 \in 0 .. Len(s)
    BY <1>1
  <2>2. 1 <= size
    BY <1>1, HeaderLength
  <2>3. 1 + size <= first
    BY <1>1, Layout
  <2>4. first <= m
    BY <1>1, <2>1, Layout
  <2> QED BY <2>2, <2>3, <2>4
<1>3. b \in [0 .. m - 1 -> Byte] /\ \A o \in 0 .. m - 1 : o < first => b[o] = Header(s, r)[o]
  BY EncodeWrites
<1>4. \A o \in 0 .. size : o \in 0 .. m - 1 /\ o < first
  BY ONLY <1>2
<1>5. b[0] = Len(s)
  <2>1. 0 \in 0 .. size
    BY <1>2
  <2> QED BY <1>3, <1>4, <2>1, HeaderIs
<1>6. \A k \in 1 .. size : b[k] = NullBitmap(r)[k]
  <2>1. \A k \in 1 .. size : k \in 0 .. size
    BY <1>2
  <2> QED BY <1>3, <1>4, <2>1, HeaderIs
<1>7. Len(s) % 8 # 0 => b[size] < Bit[1 + (Len(s) % 8)]
  <2> SUFFICES ASSUME Len(s) % 8 # 0 PROVE b[size] < Bit[1 + (Len(s) % 8)]
    OBVIOUS
  <2>1. size \in 1 .. size
    BY <1>2
  <2>2. Len(r) >= 1 /\ Len(r) % 8 # 0
    BY <1>1
  <2>3. NullBitmap(r)[NullBitmapSize(Len(r))] < Bit[1 + (Len(r) % 8)]
    BY <1>1, <2>2, UnusedBits
  <2> QED BY <1>1, <1>6, <2>1, <2>3
<1>8. HeaderFits(s, b)
  BY <1>3, <1>5, <1>7 DEF HeaderFits
<1>9. \A i \in 1 .. Len(s) : NullBit(b, i) <=> r[i].isNull
  BY <1>1, <1>6, NullBitIs
<1> QED BY <1>8, <1>9

BackSoFar(s, r, k) ==
  LET take == TakeAll(s, Encode(s, r))[k]
  IN  /\ take.at = Offset(s)[k]
      /\ take.row \in Seq(Values) /\ Len(take.row) = k
      /\ \A i \in 1 .. k : take.row[i] = ZeroEnds(r[i])

LEMMA BackOne ==
  ASSUME RowCodecAssumption, NEW s, NEW r, Describes(s, r), NEW k \in 0 .. Len(s) - 1,
         BackSoFar(s, r, k)
  PROVE  BackSoFar(s, r, k + 1)
<1>1. /\ IsSchema(s) /\ Len(s) \in Nat /\ r \in Seq(Values) /\ Len(r) = Len(s)
      /\ s \in Seq(Columns)
  BY Parts
<1>2. k + 1 \in 1 .. Len(s) /\ k \in Nat
  BY <1>1
<1> PICK b : b = Encode(s, r)
  OBVIOUS
<1>3. b \in [0 .. EncodedSize(s) - 1 -> Byte] /\ Reads(b, At(s, k + 1), s[k + 1], CellOf(r[k + 1]))
  BY <1>2, EncodeWrites
<1>4. PICK old \in Seq(Values) : old = TakeAll(s, b)[k].row
  BY DEF BackSoFar
<1>5. TakeAll(s, b)[k].at = Offset(s)[k] /\ Len(old) = k /\ \A i \in 1 .. k : old[i] = ZeroEnds(r[i])
  BY <1>4 DEF BackSoFar
<1>6. old # Refused
  BY RefusedIsNoRow
<1>7. PICK new : new = TakeAll(s, b)[k + 1].row
  OBVIOUS
<1>8. /\ TakeAll(s, b)[k + 1].at = Offset(s)[k + 1]
      /\ ~NullBit(b, k + 1) => new = Append(old, ReadValue(b, At(s, k + 1), s[k + 1]))
      /\ NullBit(b, k + 1) => new = IF NullAllowed(b, At(s, k + 1), s[k + 1])
                                      THEN Append(old, NullValue(s[k + 1].type)) ELSE Refused
  <2>1. TakeAll(s, b)[k].at = Offset(s)[k]
    BY <1>5
  <2>2. OneTaken(s, b, k)
    BY <1>1, <2>1, TakeOne
  <2> QED BY ONLY <1>4, <1>6, <1>7, <2>2 DEF OneTaken
<1>9. NullBit(b, k + 1) <=> r[k + 1].isNull
  BY <1>2, HeaderAccepted
<1>10. s[k + 1] \in Columns /\ r[k + 1] \in Values /\ Suits(s[k + 1], r[k + 1])
  BY <1>2, Description
<1>11. PICK v \in Values : new = Append(old, v) /\ v = ZeroEnds(r[k + 1])
  <2>1. CASE ~r[k + 1].isNull
    <3>1. CellOf(r[k + 1]) = Cell(r[k + 1])
      BY <2>1 DEF CellOf
    <3>2. PICK at \in Nat : at = At(s, k + 1)
      BY <1>1, <1>2, Layout
    <3>3. ReadValue(b, at, s[k + 1]) = ZeroEnds(r[k + 1])
      BY <1>3, <1>10, <2>1, <3>1, <3>2, ReadBack
    <3>4. ReadValue(b, At(s, k + 1), s[k + 1]) \in Values
      BY <1>1, <1>2, <1>3, ReadColumn
    <3> QED BY <1>8, <1>9, <2>1, <3>2, <3>3, <3>4
  <2>2. CASE r[k + 1].isNull
    <3>1. s[k + 1].nullable /\ s[k + 1].type = r[k + 1].type
      BY <1>10, <2>2 DEF Suits
    <3>2. ZeroEnds(r[k + 1]) = r[k + 1]
      BY <2>2 DEF ZeroEnds
    <3>3. r[k + 1] = NullValue(s[k + 1].type)
      <4>1. PICK u \in Values : u = r[k + 1]
        BY <1>10
      <4>2. u.isNull = TRUE /\ u.payload = <<>> /\ u.type = s[k + 1].type
              /\ u = [type |-> u.type, isNull |-> u.isNull, payload |-> u.payload]
        BY <2>2, <3>1, <4>1, ValueFacts
      <4> QED BY <4>1, <4>2 DEF NullValue
    <3>4. \A o \in At(s, k + 1) .. At(s, k + 1) + ValueSize(s[k + 1]) - 1 : b[o] = 0
      <4>1. PICK at \in Nat : at = At(s, k + 1)
        BY <1>1, <1>2, Layout
      <4>2. PICK size \in Nat : size = ValueSize(s[k + 1])
        BY <1>1, <1>2, ColumnFacts
      <4>3. CellOf(r[k + 1]) = <<>> /\ Len(<<>>) = 0
        BY <2>2 DEF CellOf
      <4>4. \A j \in 0 .. size - 1 : b[at + j] = 0
        BY <1>3, <4>1, <4>2, <4>3 DEF Reads
      <4>5. \A o \in at .. at + size - 1 : o - at \in 0 .. size - 1 /\ at + (o - at) = o
        OBVIOUS
      <4>6. ASSUME NEW o \in at .. at + size - 1 PROVE b[o] = 0
        <5>1. PICK j \in 0 .. size - 1 : at + j = o
          BY <4>5
        <5> QED BY <4>4, <5>1
      <4> QED BY <4>1, <4>2, <4>6
    <3>5. NullAllowed(b, At(s, k + 1), s[k + 1])
      BY <3>1, <3>4 DEF NullAllowed
    <3> QED BY <1>8, <1>9, <1>10, <2>2, <3>2, <3>3, <3>5
  <2> QED BY <2>1, <2>2
<1>12. new \in Seq(Values) /\ Len(new) = k + 1
  BY <1>2, <1>5, <1>11, AppendOne
<1>13. \A i \in 1 .. k + 1 : new[i] = ZeroEnds(r[i])
  <2>1. \A i \in 1 .. k : new[i] = old[i]
    BY <1>2, <1>5, <1>11, AppendOne
  <2>2. new[k + 1] = v
    BY <1>2, <1>5, <1>11, AppendOne
  <2>3. \A i \in 1 .. k + 1 : i \in 1 .. k \/ i = k + 1
    OBVIOUS
  <2> QED BY <1>5, <1>11, <2>1, <2>2, <2>3
<1> QED BY <1>7, <1>8, <1>12, <1>13 DEF BackSoFar

LEMMA DecodeUndoesEncode ==
  ASSUME RowCodecAssumption, NEW s, NEW r, Describes(s, r)
  PROVE  Decode(s, Encode(s, r)) = [i \in DOMAIN r |-> ZeroEnds(r[i])]
<1>1. /\ IsSchema(s) /\ Len(s) \in Nat /\ r \in Seq(Values) /\ Len(r) = Len(s)
      /\ Len(s) \in 0 .. Len(s)
  BY Parts
<1> DEFINE T == {k \in Nat : BackSoFar(s, r, k)}
<1>2. 0 \in T
  <2>1. PICK p : p = TakeAll(s, Encode(s, r))[0]
    OBVIOUS
  <2>2. p.at = Offset(s)[0] /\ p.row = <<>>
    <3>1. TakeAll(s, Encode(s, r))[0] = FirstTake(s) /\ Offset(s)[0] = FirstValueAt(Len(s))
      BY <1>1, TakeIs, OffsetIs
    <3> QED BY <2>1, <3>1 DEF FirstTake
  <2>3. <<>> \in Seq(Values) /\ Len(<<>>) = 0
    OBVIOUS
  <2>4. BackSoFar(s, r, 0)
    BY <2>1, <2>2, <2>3 DEF BackSoFar
  <2> QED BY <2>4
<1>3. ASSUME NEW k \in 0 .. Len(s) - 1, k \in T PROVE k + 1 \in T
  BY <1>1, <1>3, BackOne
<1> HIDE DEF T
<1>4. Len(s) \in T
  BY <1>1, <1>2, <1>3, Induction
<1>5. BackSoFar(s, r, Len(s))
  BY <1>4 DEF T
<1>6. PICK d : d = Decode(s, Encode(s, r))
  OBVIOUS
<1>7. d = TakeAll(s, Encode(s, r))[Len(s)].row
  BY <1>6, DecodeIs, HeaderAccepted
<1>8. d \in Seq(Values) /\ Len(d) = Len(r) /\ \A i \in 1 .. Len(r) : d[i] = ZeroEnds(r[i])
  BY <1>1, <1>5, <1>7 DEF BackSoFar
<1>9. DOMAIN r = 1 .. Len(r) /\ d = [i \in 1 .. Len(r) |-> d[i]]
  BY <1>1, <1>8
<1> QED BY <1>6, <1>8, <1>9
-----------------------------------------------------------------------------
(***************************************************************************)
(* The invariant: the bytes in the slot are those of the row, and what was *)
(* read is what decode made of them.                                       *)
(***************************************************************************)
CodecInv ==
  /\ schema \in Schemas /\ reader \in Schemas
  /\ row \in Seq(Values)
  /\ encoded \in {Nothing, Encode(schema, row)}
  /\ read \in {Nothing, Decode(reader, encoded)}
  /\ read # Nothing => Stored

LEMMA StoredIs ==
  ASSUME RowCodecAssumption, CodecInv, Stored
  PROVE  /\ Describes(schema, row) /\ encoded = Encode(schema, row)
         /\ encoded \in [0 .. EncodedSize(schema) - 1 -> Byte]
<1>1. encoded = Encode(schema, row) /\ encoded # Refused
  BY DEF CodecInv, Stored
<1>2. Encodable(schema, row)
  BY <1>1, EncodeIs
<1>3. IsSchema(schema) /\ row \in Seq(Values)
  BY DEF CodecInv, RowCodecAssumption, IsSchema
<1>4. Describes(schema, row)
  BY <1>2, <1>3 DEF Describes
<1> QED BY <1>1, <1>4, EncodeWrites

LEMMA DecodedIs ==
  ASSUME RowCodecAssumption, CodecInv, Decoded
  PROVE  Describes(reader, read) /\ DOMAIN encoded = 0 .. EncodedSize(reader) - 1
<1>1. Stored /\ read = Decode(reader, encoded) /\ read # Refused
  BY DEF CodecInv, Decoded
<1>2. IsSchema(reader)
  BY DEF CodecInv, RowCodecAssumption, IsSchema
<1>3. HeaderFits(reader, encoded)
  BY <1>1, DecodeIs
<1>4. DOMAIN encoded = 0 .. EncodedSize(reader) - 1
  BY <1>3 DEF HeaderFits
<1>5. encoded \in [0 .. EncodedSize(reader) - 1 -> Byte]
  <2>1. encoded \in [0 .. EncodedSize(schema) - 1 -> Byte]
    BY <1>1, StoredIs
  <2> QED BY <1>4, <2>1
<1>6. Describes(reader, Decode(reader, encoded))
  BY <1>1, <1>2, <1>5, DecodedFits
<1> QED BY <1>1, <1>4, <1>6

LEMMA CodecInvHolds == Spec => []CodecInv
<1>1. Init => CodecInv
  BY RowCodecAssumption DEF Init, CodecInv, RowCodecAssumption
<1>2. CodecInv /\ [Next]_vars => CodecInv'
  <2> SUFFICES ASSUME CodecInv, [Next]_vars PROVE CodecInv'
    OBVIOUS
  <2> USE RowCodecAssumption
  <2>1. CASE InsertRow
    <3>1. read = Nothing
      BY <2>1 DEF InsertRow, CodecInv, Stored
    <3> QED BY <2>1, <3>1 DEF InsertRow, CodecInv
  <2>2. ASSUME NEW s \in Schemas, ReadRow(s) PROVE CodecInv'
    <3>1. Stored /\ Stored'
      BY <2>2 DEF ReadRow, Stored
    <3> QED BY <2>2, <3>1 DEF ReadRow, CodecInv
  <2>3. CASE UpdateRow
    <3>1. read \in Seq(Values)
      BY <2>3, DecodedIs DEF UpdateRow, Describes
    <3> QED BY <2>3, <3>1 DEF UpdateRow, CodecInv
  <2>4. CASE DeleteRow
    BY <2>4 DEF DeleteRow, CodecInv
  <2>5. CASE UNCHANGED vars
    BY <2>5 DEF vars, CodecInv, Stored
  <2> QED BY <2>1, <2>2, <2>3, <2>4, <2>5 DEF Next
<1> QED BY <1>1, <1>2, PTL DEF Spec

(***************************************************************************)
(* For every schema and every row: encode fills exactly the bytes that     *)
(* encodedSize asks for, and writes none beyond them.                      *)
(***************************************************************************)
THEOREM NeverOverruns == Spec => []NoOverrun
<1>1. CodecInv => NoOverrun
  <2> SUFFICES ASSUME CodecInv, Stored PROVE DOMAIN encoded = 0 .. EncodedSize(schema) - 1
    BY DEF NoOverrun
  <2>1. encoded \in [0 .. EncodedSize(schema) - 1 -> Byte]
    BY RowCodecAssumption, StoredIs
  <2> QED BY <2>1
<1> QED BY <1>1, CodecInvHolds, PTL

(***************************************************************************)
(* For every schema and every row that it describes: decode gives back the *)
(* row that encode was given, but for what follows a zero byte in a string.*)
(***************************************************************************)
THEOREM AlwaysRoundTrip == Spec => []RoundTrip
<1>1. CodecInv => RoundTrip
  <2> SUFFICES ASSUME CodecInv, reader = schema, read # Nothing
               PROVE  read = [i \in DOMAIN row |-> ZeroEnds(row[i])]
    BY DEF RoundTrip
  <2>1. Stored /\ read = Decode(schema, encoded)
    BY DEF CodecInv
  <2>2. Describes(schema, row) /\ encoded = Encode(schema, row)
    BY <2>1, RowCodecAssumption, StoredIs
  <2> QED BY <2>1, <2>2, RowCodecAssumption, DecodeUndoesEncode
<1> QED BY <1>1, CodecInvHolds, PTL

(***************************************************************************)
(* For every two schemas and every row: if bytes encoded for one table are *)
(* accepted when they are read with the schema of another, the result is a *)
(* row of that table, and encoding it again gives as many bytes.           *)
(***************************************************************************)
THEOREM AcceptedRowsAlwaysFit == Spec => []AcceptedRowsFit
<1>1. CodecInv => AcceptedRowsFit
  <2> SUFFICES ASSUME CodecInv, Decoded
               PROVE  Encodable(reader, read) /\ DOMAIN Encode(reader, read) = DOMAIN encoded
    BY DEF AcceptedRowsFit
  <2>1. Describes(reader, read) /\ DOMAIN encoded = 0 .. EncodedSize(reader) - 1
    BY RowCodecAssumption, DecodedIs
  <2>2. Encode(reader, read) \in [0 .. EncodedSize(reader) - 1 -> Byte]
    BY <2>1, EncodeWrites
  <2> QED BY <2>1, <2>2 DEF Describes
<1> QED BY <1>1, CodecInvHolds, PTL
=============================================================================
