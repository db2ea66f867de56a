------------------------------ MODULE RowLayout ------------------------------
(***************************************************************************)
(* Where the values of a row are put (src/record/Layout.cpp).  A schema is *)
(* a sequence of columns; of a column only its type, its capacity and      *)
(* whether it is nullable matter here.                                     *)
(***************************************************************************)
EXTENDS Integers, Sequences

Types == {"Boolean", "Byte", "Int32", "Int64", "Double", "String"}

(* The next multiple of alignment. *)
AlignTo(offset, alignment) == alignment * ((offset + alignment - 1) \div alignment)

NullBitmapSize(columnCount) == (columnCount + 7) \div 8

SizeOf == [t \in Types |-> CASE t \in {"Boolean", "Byte", "String"} -> 1
                             [] t = "Int32" -> 4
                             [] t \in {"Int64", "Double"} -> 8]
ValueSize(column) == IF column.type = "String" THEN column.stringCapacity
                                               ELSE SizeOf[column.type]
ValueAlignment(type) == SizeOf[type]

(***************************************************************************)
(* encodedSize: the column count, the null bitmap, the aligned values.     *)
(***************************************************************************)
SizeWithoutGaps(schema) ==                     \* mutant: values are packed
  LET offset[i \in 0 .. Len(schema)] ==
        IF i = 0 THEN AlignTo(1 + NullBitmapSize(Len(schema)), 8)
                 ELSE offset[i - 1] + ValueSize(schema[i])
  IN  AlignTo(offset[Len(schema)], 8)
EncodedSize(schema) ==
  LET offset[i \in 0 .. Len(schema)] ==
        IF i = 0 THEN AlignTo(1 + NullBitmapSize(Len(schema)), 8)
                 ELSE AlignTo(offset[i - 1], ValueAlignment(schema[i].type))
                        + ValueSize(schema[i])
  IN  AlignTo(offset[Len(schema)], 8)
=============================================================================
