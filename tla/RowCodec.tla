------------------------------- MODULE RowCodec -------------------------------
(***************************************************************************)
(* Rows as bytes (src/record/Codec.cpp, with the byte helpers of           *)
(* include/dandb/core/Helper.h).  A client encodes a row for a table,      *)
(* decodes it, and may write back what it read.  A row id is not tied to a *)
(* table, so a row may be read, and written back, with the schema of       *)
(* another table than the one it was encoded for.                          *)
(*                                                                         *)
(* A number is a sequence of signed 32-bit words, the lowest first: one    *)
(* for Byte and Int32, two for Int64 and for the bit pattern of a Double.  *)
(* A string is a sequence of bytes; a Boolean is <<0>> or <<1>>.           *)
(***************************************************************************)
EXTENDS RowLayout, FiniteSetsExt

CONSTANTS
  Schemas,          \* the schemas of the tables
  Rows,             \* the rows a client tries to insert, fitting or not
  Refused,          \* an error status
  Nothing           \* no result yet

Byte == 0 .. 255
Word == {w \in Int : -2147483647 - 1 <= w /\ w <= 2147483647}
Words(n) == {words \in Seq(Word) : Len(words) = n}

Payloads(t) == CASE t = "Boolean" -> {<<0>>, <<1>>}
                 [] t = "Byte" -> {words \in Words(1) : words[1] \in -128 .. 127}
                 [] t = "Int32" -> Words(1)
                 [] t \in {"Int64", "Double"} -> Words(2)
                 [] t = "String" -> Seq(Byte)
Values == {v \in [type : Types, isNull : BOOLEAN, payload : Seq(Word)] :
             v.payload \in IF v.isNull THEN {<<>>} ELSE Payloads(v.type)}

Value(t, p) == [type |-> t, isNull |-> FALSE, payload |-> p]
NullValue(t) == [type |-> t, isNull |-> TRUE, payload |-> <<>>]

Columns == [type : Types, nullable : BOOLEAN, stringCapacity : Nat]

(***************************************************************************)
(* A schema has 1 to 255 columns (Schema::create).                         *)
(***************************************************************************)
ASSUME RowCodecAssumption ==
  /\ \A s \in Schemas : s \in Seq(Columns) /\ Len(s) \in 1 .. 255
  /\ Rows \subseteq Seq(Values)
  /\ Refused \notin Seq(Values)

VARIABLES
  schema, row,      \* the row in its slot, and the schema it was encoded for
  encoded,          \* its bytes
  reader, read      \* the schema it was decoded with, and the outcome

vars == <<schema, row, encoded, reader, read>>
-----------------------------------------------------------------------------
(***************************************************************************)
(* Little-endian words.                                                    *)
(***************************************************************************)
Scale == <<1, 256, 65536, 16777216>>

WordBytes(word, n) == [i \in 1 .. n |-> (word \div Scale[i]) % 256]

Signed(byte) == IF byte >= 128 THEN byte - 256 ELSE byte
ReadWord(bytes, o) ==
  bytes[o] + 256 * bytes[o + 1] + 65536 * bytes[o + 2] + 16777216 * Signed(bytes[o + 3])

Cell(value) ==
  CASE value.type \in {"Boolean", "String"} -> value.payload
    [] value.type = "Byte" -> WordBytes(value.payload[1], 1)
    [] value.type = "Int32" -> WordBytes(value.payload[1], 4)
    [] value.type \in {"Int64", "Double"} -> WordBytes(value.payload[1], 4)
                                               \o WordBytes(value.payload[2], 4)

(***************************************************************************)
(* The bytes of a string end before the first zero byte.                   *)
(***************************************************************************)
UpToZero(text) ==
  SubSeq(text, 1, Max({k \in 0 .. Len(text) : \A j \in 1 .. k : text[j] # 0}))

ReadPayload(bytes, o, column) ==
  CASE column.type = "Boolean" -> <<IF bytes[o] # 0 THEN 1 ELSE 0>>
    [] column.type = "Byte" -> <<Signed(bytes[o])>>
    [] column.type = "Int32" -> <<ReadWord(bytes, o)>>
    [] column.type \in {"Int64", "Double"} -> <<ReadWord(bytes, o), ReadWord(bytes, o + 4)>>
    [] column.type = "String" ->
         UpToZero([j \in 1 .. column.stringCapacity |-> bytes[o + j - 1]])
ReadValue(bytes, o, column) == Value(column.type, ReadPayload(bytes, o, column))
-----------------------------------------------------------------------------
(***************************************************************************)
(* encode refuses a row that the schema does not describe; then it writes  *)
(* the column count, the null bitmap and the values that are not null over *)
(* EncodedSize zero bytes.                                                 *)
(***************************************************************************)
Encodable(s, r) ==
  /\ Len(r) = Len(s)
  /\ \A i \in DOMAIN s :
       /\ r[i].type = s[i].type
       /\ r[i].isNull => s[i].nullable
       /\ r[i].type = "String" /\ ~r[i].isNull => Len(r[i].payload) <= s[i].stringCapacity

Bit == <<1, 2, 4, 8, 16, 32, 64, 128>>
NullBitmap(r) ==
  LET bit(i) == IF i \in DOMAIN r /\ r[i].isNull THEN 1 ELSE 0
  IN  [k \in 1 .. NullBitmapSize(Len(r)) |->
         LET n == 8 * (k - 1)
         IN  bit(n + 1) + 2 * bit(n + 2) + 4 * bit(n + 3) + 8 * bit(n + 4)
               + 16 * bit(n + 5) + 32 * bit(n + 6) + 64 * bit(n + 7) + 128 * bit(n + 8)]

Zeros(n) == [o \in 0 .. n - 1 |-> 0]
Written(bytes, at, cell) ==
  LET there == at .. at + Len(cell) - 1
  IN  [o \in DOMAIN bytes \cup there |-> IF o \in there THEN cell[o - at + 1] ELSE bytes[o]]

FirstValueAt(n) == AlignTo(1 + NullBitmapSize(n), 8)
Aligned(at, column) == AlignTo(at, ValueAlignment(column.type))

Put(acc, column, value) ==
  LET at == Aligned(acc.at, column)
  IN  [at |-> at + ValueSize(column),
       bytes |-> IF value.isNull THEN acc.bytes ELSE Written(acc.bytes, at, Cell(value))]

Encode(s, r) ==
  LET header == Written(Zeros(EncodedSize(s)), 0, <<Len(r) % 256>> \o NullBitmap(r))
      put[i \in 0 .. Len(s)] == IF i = 0 THEN [at |-> FirstValueAt(Len(r)), bytes |-> header]
                                         ELSE Put(put[i - 1], s[i], r[i])
  IN  IF Encodable(s, r) THEN put[Len(s)].bytes ELSE Refused

(***************************************************************************)
(* decode refuses bytes of another size, with another column count, with   *)
(* null bits for columns that are not there, or with a null value where    *)
(* the schema has none or over bytes that are not zero.                    *)
(***************************************************************************)
NullBit(bytes, i) ==
  (bytes[1 + ((i - 1) \div 8)] \div Bit[1 + ((i - 1) % 8)]) % 2 = 1

HeaderFits(s, bytes) ==
  /\ DOMAIN bytes = 0 .. EncodedSize(s) - 1
  /\ bytes[0] = Len(s)
  /\ Len(s) % 8 # 0 => bytes[NullBitmapSize(Len(s))] < Bit[1 + (Len(s) % 8)]

NullAnywhere(bytes, at, column) ==             \* mutant: nullable is not looked at
  \A o \in at .. at + ValueSize(column) - 1 : bytes[o] = 0
NullAllowed(bytes, at, column) ==
  /\ column.nullable
  /\ \A o \in at .. at + ValueSize(column) - 1 : bytes[o] = 0

Unaligned(at, column) == at                    \* mutant: decode skips no gap
DecodeAligned(at, column) == AlignTo(at, ValueAlignment(column.type))

Take(acc, bytes, column, isNull) ==
  LET at == DecodeAligned(acc.at, column)
  IN  [at |-> at + ValueSize(column),
       row |-> CASE acc.row = Refused -> Refused
                 [] acc.row # Refused /\ ~isNull ->
                      Append(acc.row, ReadValue(bytes, at, column))
                 [] OTHER -> IF NullAllowed(bytes, at, column)
                               THEN Append(acc.row, NullValue(column.type)) ELSE Refused]

Decode(s, bytes) ==
  LET take[i \in 0 .. Len(s)] == IF i = 0 THEN [at |-> FirstValueAt(Len(s)), row |-> <<>>]
                                          ELSE Take(take[i - 1], bytes, s[i], NullBit(bytes, i))
  IN  IF HeaderFits(s, bytes) THEN take[Len(s)].row ELSE Refused
-----------------------------------------------------------------------------
Init == /\ schema \in Schemas /\ row \in Rows
        /\ encoded = Nothing
        /\ reader = schema /\ read = Nothing

InsertRow == /\ encoded = Nothing
             /\ encoded' = Encode(schema, row)
             /\ UNCHANGED <<schema, row, reader, read>>

Stored == encoded \notin {Nothing, Refused}
Decoded == read \notin {Nothing, Refused}

ReadRow(s) == /\ Stored
              /\ read = Nothing
              /\ reader' = s
              /\ read' = Decode(s, encoded)
              /\ UNCHANGED <<schema, row, encoded>>

(* updateRow with the row that was just read, in the table it was read in. *)
UpdateRow == /\ Decoded
             /\ schema' = reader /\ row' = read
             /\ encoded' = Encode(reader, read)
             /\ read' = Nothing
             /\ UNCHANGED reader

(* The row is deleted, or one that was refused given up.                   *)
DeleteRow == /\ encoded # Nothing
             /\ encoded' = Nothing
             /\ reader' = schema /\ read' = Nothing
             /\ UNCHANGED <<schema, row>>

Next == InsertRow \/ (\E s \in Schemas : ReadRow(s)) \/ UpdateRow \/ DeleteRow

Spec == Init /\ [][Next]_vars
-----------------------------------------------------------------------------
(***************************************************************************)
(* encode and encodedSize compute the same layout: encode fills exactly    *)
(* the bytes that encodedSize asks for and writes none beyond them.        *)
(***************************************************************************)
NoOverrun == Stored => DOMAIN encoded = 0 .. EncodedSize(schema) - 1

(***************************************************************************)
(* decode undoes encode for every type, gap and null pattern, but for what *)
(* follows a zero byte in a string.                                        *)
(***************************************************************************)
ZeroEnds(value) == IF value.type = "String" /\ ~value.isNull
                     THEN Value("String", UpToZero(value.payload)) ELSE value
RoundTrip ==
  reader = schema /\ read # Nothing => read = [i \in DOMAIN row |-> ZeroEnds(row[i])]

(***************************************************************************)
(* Whatever table a row is read with, what decode accepts is a row of that *)
(* table, and updateRow can write it back to the slot it came from, which  *)
(* has to have its size.                                                   *)
(***************************************************************************)
AcceptedRowsFit ==
  Decoded => Encodable(reader, read) /\ DOMAIN Encode(reader, read) = DOMAIN encoded
=============================================================================
