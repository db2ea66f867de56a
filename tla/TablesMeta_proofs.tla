-------------------------- MODULE TablesMeta_proofs --------------------------
(***************************************************************************)
(* What save writes, load reads back: for any names, any number of tables  *)
(* and columns, and wherever the file was cut.                             *)
(***************************************************************************)
EXTENDS TablesMeta, WellFoundedInduction, TLAPS

(***************************************************************************)
(* Induction.  A set of numbers that has 0, and with each number the next, *)
(* has them all, since the least number it lacks would have a predecessor. *)
(***************************************************************************)
Less == {pair \in Nat \X Nat : pair[1] < pair[2]}

(* Every set of numbers that is not empty has a least one.                 *)
LEMMA Least ==
  ASSUME NEW T \in SUBSET Nat, T # {}
  PROVE  \E x \in T : \A y \in T : x <= y
<1>1. IsWellFoundedOn(Less, Nat)
  BY NatLessThanWellFounded DEF OpToRel, Less
<1>2. PICK x \in T : \A y \in T : <<y, x>> \notin Less
  BY <1>1, WFMin
<1>3. \A a, b \in Nat : <<a, b>> \in Less <=> a < b
  BY DEF Less
<1>4. x \in Nat /\ \A y \in T : y \in Nat
  OBVIOUS
<1>5. ASSUME NEW y \in T PROVE x <= y
  <2>1. ~(y < x)
    BY <1>2, <1>3, <1>4
  <2> QED BY <1>4, <2>1
<1> QED BY <1>5

(* What holds of 0, and of k + 1 if it holds of k, holds up to n.          *)
LEMMA Induction ==
  ASSUME NEW n \in Nat, NEW T, 0 \in T, \A k \in 0 .. n - 1 : k \in T => k + 1 \in T
  PROVE  \A k \in 0 .. n : k \in T
<1> SUFFICES ASSUME (0 .. n) \ T # {} PROVE FALSE
  OBVIOUS
<1> DEFINE U == (0 .. n) \ T
<1>0. U \in SUBSET Nat /\ U # {}
  OBVIOUS
<1>1. PICK x \in U : \A y \in U : x <= y
  BY <1>0, Least
<1>2. x # 0 /\ x - 1 \in 0 .. n - 1 /\ x = (x - 1) + 1
  BY <1>1
<1>3. x - 1 \in T
  BY <1>1, <1>2
<1> QED BY <1>1, <1>2, <1>3
-----------------------------------------------------------------------------
(***************************************************************************)
(* The fields of a file, and what one step of save does to them.           *)
(***************************************************************************)
Within(fields, n) == \A o \in DOMAIN fields : o + fields[o].width <= n
Apart(fields) == \A o, x \in DOMAIN fields : o < x => o + fields[o].width <= x

Neat(acc) == /\ acc.at \in Nat
             /\ DOMAIN acc.fields \subseteq Nat
             /\ \A o \in DOMAIN acc.fields : acc.fields[o].width \in Nat /\ acc.fields[o].width > 0
             /\ Within(acc.fields, acc.at) /\ Apart(acc.fields)

Keeps(acc, new) ==
  /\ acc.at <= new.at
  /\ \A o \in DOMAIN acc.fields : o \in DOMAIN new.fields /\ new.fields[o] = acc.fields[o]

Holds(fields, o, width, v) ==
  o \in DOMAIN fields /\ fields[o].width = width /\ fields[o].value = v

LEMMA KeepsAll ==
  ASSUME NEW a, NEW b, NEW c, Neat(a), Neat(b), Neat(c), Keeps(a, b), Keeps(b, c)
  PROVE  Keeps(a, c)
BY DEF Keeps, Neat

LEMMA HoldsKept ==
  ASSUME NEW a, NEW b, Keeps(a, b), NEW o, NEW width, NEW v, Holds(a.fields, o, width, v)
  PROVE  Holds(b.fields, o, width, v)
BY DEF Keeps, Holds

LEMMA PutBytesIs ==
  ASSUME NEW acc, Neat(acc), NEW width \in Nat, NEW v, NEW new, new = PutBytes(acc, width, v)
  PROVE  /\ Neat(new) /\ Keeps(acc, new) /\ new.at = acc.at + width
         /\ width # 0 => Holds(new.fields, acc.at, width, v)
<1>1. /\ new.at = acc.at + width
      /\ \A o : o \in DOMAIN new.fields <=> o \in DOMAIN acc.fields \/ (width # 0 /\ o = acc.at)
  BY DEF PutBytes
<1>2. \A o \in DOMAIN acc.fields :
        /\ o \in Nat /\ acc.fields[o].width \in Nat /\ acc.fields[o].width > 0
        /\ o + acc.fields[o].width <= acc.at /\ o < acc.at
  BY DEF Neat, Within
<1>3. \A o \in DOMAIN acc.fields : o \in DOMAIN new.fields /\ new.fields[o] = acc.fields[o]
  BY <1>2 DEF PutBytes, Neat
<1>4. ASSUME width # 0
      PROVE  acc.at \in DOMAIN new.fields /\ new.fields[acc.at].width = width
               /\ new.fields[acc.at].value = v
  BY <1>4 DEF PutBytes
<1>5. acc.at \in Nat /\ acc.at <= new.at /\ new.at \in Nat
  BY <1>1 DEF Neat
<1>6. \A o \in DOMAIN new.fields : o \in Nat /\ new.fields[o].width \in Nat /\ new.fields[o].width > 0
        /\ o + new.fields[o].width <= new.at
  BY <1>1, <1>2, <1>3, <1>4, <1>5
<1>7. ASSUME NEW o \in DOMAIN new.fields, NEW x \in DOMAIN new.fields, o < x
      PROVE  o + new.fields[o].width <= x
  <2>1. o # acc.at \/ width = 0
    BY <1>1, <1>2, <1>5, <1>7
  <2>2. o \in DOMAIN acc.fields /\ new.fields[o] = acc.fields[o]
    BY <1>1, <1>3, <2>1
  <2>3. CASE x \in DOMAIN acc.fields
    BY <1>7, <2>2, <2>3 DEF Neat, Apart
  <2>4. CASE x \notin DOMAIN acc.fields
    BY <1>1, <1>2, <2>2, <2>4
  <2> QED BY <2>3, <2>4
<1>8. Neat(new)
  BY <1>5, <1>6, <1>7 DEF Neat, Within, Apart
<1> QED BY <1>1, <1>3, <1>4, <1>5, <1>8 DEF Keeps, Holds

(* v is a number that a field of this width can hold.                      *)
Fits(width, v) ==
  /\ v \in Nat
  /\ (width = 1 /\ v < 256) \/ (width = 2 /\ v <= UINT16_MAX) \/ width = 4

LEMMA PutIs ==
  ASSUME NEW acc, Neat(acc), NEW width, NEW v, Fits(width, v), NEW new, new = Put(acc, width, v)
  PROVE  /\ Neat(new) /\ Keeps(acc, new) /\ new.at = acc.at + width
         /\ Holds(new.fields, acc.at, width, v)
<1>1. new = PutBytes(acc, width, v)
  <2>1. CASE width = 1
    BY <2>1 DEF Put, Fits
  <2>2. CASE width = 2
    BY SMTT(10), <2>2 DEF Put, Fits, UINT16_MAX
  <2>3. CASE width = 4
    BY <2>3 DEF Put, Fits
  <2> QED BY <2>1, <2>2, <2>3 DEF Fits
<1>2. width \in Nat /\ width # 0
  BY DEF Fits
<1> QED BY <1>1, <1>2, PutBytesIs

LEMMA SkipIs ==
  ASSUME NEW acc, Neat(acc), NEW n \in Nat, NEW new, new = Skip(acc, n)
  PROVE  Neat(new) /\ Keeps(acc, new) /\ new.at = acc.at + n /\ new.fields = acc.fields
<1>1. new.at = acc.at + n /\ new.fields = acc.fields
  BY DEF Skip
<1> QED BY <1>1 DEF Neat, Keeps, Within

LEMMA AlignAbove ==
  ASSUME NEW n \in Nat, NEW alignment \in {4, 8}
  PROVE  /\ AlignTo(n, alignment) \in Nat /\ AlignTo(n, alignment) >= n
         /\ AlignTo(n, alignment) % alignment = 0
BY DEF AlignTo

LEMMA AlignIs ==
  ASSUME NEW acc, Neat(acc), NEW alignment \in {4, 8}, NEW new, new = Align(acc, alignment)
  PROVE  /\ Neat(new) /\ Keeps(acc, new) /\ new.fields = acc.fields
         /\ new.at = AlignTo(acc.at, alignment)
<1>1. new.at = AlignTo(acc.at, alignment) /\ new.fields = acc.fields
  BY DEF Align
<1>2. acc.at \in Nat /\ new.at \in Nat /\ new.at >= acc.at
  BY <1>1, AlignAbove DEF Neat
<1>3. Within(new.fields, new.at)
  BY <1>1, <1>2 DEF Neat, Within
<1> QED BY <1>1, <1>2, <1>3 DEF Neat, Keeps
-----------------------------------------------------------------------------
(***************************************************************************)
(* The catalogs that save is given: their numbers fit the fields of a      *)
(* file, and their names are ones that ValidName accepts.                  *)
(***************************************************************************)
StoredNames == {n \in Names : ValidName(n)}
StoredColumns == {column \in Columns : column.name \in StoredNames}
Entries == {table \in [tableId : Nat, name : StoredNames, columns : Seq(StoredColumns),
                       firstPageId : 0 .. INVALID_PAGE_ID, lastPageId : 0 .. INVALID_PAGE_ID] :
              Len(table.columns) <= 255}
Catalogs == [tables : Seq(Entries), next : Nat]

LEMMA LastId == INVALID_PAGE_ID \in Nat /\ INVALID_PAGE_ID > 0
  BY SMTT(10) DEF INVALID_PAGE_ID

LEMMA MaxLength == UINT16_MAX \in Nat /\ UINT16_MAX > 255
  BY SMTT(10) DEF UINT16_MAX

LEMMA EntryFacts ==
  ASSUME NEW table \in Entries
  PROVE  /\ table.tableId \in Nat /\ table.name \in StoredNames
         /\ table.columns \in Seq(StoredColumns) /\ Len(table.columns) \in Nat /\ Len(table.columns) <= 255
         /\ table.firstPageId \in 0 .. INVALID_PAGE_ID /\ table.lastPageId \in 0 .. INVALID_PAGE_ID
         /\ table.firstPageId \in Nat /\ table.lastPageId \in Nat
<1> PICK t : t = table
  OBVIOUS
<1>1. t \in [tableId : Nat, name : StoredNames, columns : Seq(StoredColumns),
             firstPageId : 0 .. INVALID_PAGE_ID, lastPageId : 0 .. INVALID_PAGE_ID]
  BY DEF Entries
<1>2. Len(t.columns) <= 255
  BY DEF Entries
<1>3. /\ t.tableId \in Nat /\ t.name \in StoredNames /\ t.columns \in Seq(StoredColumns)
      /\ t.firstPageId \in 0 .. INVALID_PAGE_ID /\ t.lastPageId \in 0 .. INVALID_PAGE_ID
  BY <1>1
<1>4. Len(t.columns) \in Nat
  BY <1>3
<1>5. t.firstPageId \in Nat /\ t.lastPageId \in Nat
  BY <1>3, LastId
<1> QED BY <1>2, <1>3, <1>4, <1>5

LEMMA EntryIs ==
  ASSUME NEW table \in Entries
  PROVE  table = [tableId |-> table.tableId, name |-> table.name, columns |-> table.columns,
                  firstPageId |-> table.firstPageId, lastPageId |-> table.lastPageId]
BY DEF Entries

LEMMA NameFacts ==
  ASSUME NEW n \in StoredNames
  PROVE  n \in Names /\ NameLength[n] \in Nat /\ NameLength[n] > 0 /\ NameLength[n] <= UINT16_MAX
<1>1. n \in Names /\ NameLength[n] \in 1 .. UINT16_MAX /\ UINT16_MAX \in Nat
  BY MaxLength DEF StoredNames, ValidName
<1> QED BY <1>1

LEMMA CodeFacts ==
  ASSUME NEW t \in Types
  PROVE  /\ logicalTypeCode[t] \in 1 .. 6
         /\ logicalTypeFromCode(logicalTypeCode[t]) = t
<1>1. \A x \in Types : logicalTypeCode[x] \in 1 .. 6
  BY DEF Types, logicalTypeCode
<1>2. \A x, y \in Types : logicalTypeCode[x] = logicalTypeCode[y] => x = y
  BY DEF Types, logicalTypeCode
<1> QED BY <1>1, <1>2 DEF logicalTypeFromCode

LEMMA ColumnFacts ==
  ASSUME NEW column \in StoredColumns
  PROVE  /\ column.name \in StoredNames /\ column.type \in Types
         /\ column.nullable \in BOOLEAN /\ column.primaryKey \in BOOLEAN
         /\ column.stringCapacity \in Nat /\ column.stringCapacity <= UINT16_MAX
         /\ column = [name |-> column.name, type |-> column.type, nullable |-> column.nullable,
                      primaryKey |-> column.primaryKey, stringCapacity |-> column.stringCapacity]
<1> PICK c : c = column
  OBVIOUS
<1>1. c \in [name : Names, type : Types, nullable : BOOLEAN, primaryKey : BOOLEAN,
             stringCapacity : 0 .. UINT16_MAX]
      /\ c.name \in StoredNames
  BY DEF StoredColumns, Columns
<1>2. c.stringCapacity \in 0 .. UINT16_MAX /\ UINT16_MAX \in Nat
  BY <1>1, MaxLength
<1>3. c.type \in Types /\ c.nullable \in BOOLEAN /\ c.primaryKey \in BOOLEAN
  BY <1>1
<1>4. c = [name |-> c.name, type |-> c.type, nullable |-> c.nullable,
           primaryKey |-> c.primaryKey, stringCapacity |-> c.stringCapacity]
  BY <1>1
<1> QED BY <1>1, <1>2, <1>3, <1>4

LEMMA FlagFacts ==
  ASSUME NEW column \in StoredColumns
  PROVE  /\ Flags(column) \in 0 .. 3 /\ Flags(column) \div 4 = 0
         /\ (Flags(column) % 2 = 1) <=> column.nullable
         /\ (Flags(column) \div 2 = 1) <=> column.primaryKey
<1>1. CASE column.nullable /\ column.primaryKey
  BY <1>1 DEF Flags
<1>2. CASE column.nullable /\ ~column.primaryKey
  BY <1>2 DEF Flags
<1>3. CASE ~column.nullable /\ column.primaryKey
  BY <1>3 DEF Flags
<1>4. CASE ~column.nullable /\ ~column.primaryKey
  BY <1>4 DEF Flags
<1> QED BY <1>1, <1>2, <1>3, <1>4
-----------------------------------------------------------------------------
(***************************************************************************)
(* Names, columns and the header of a table in a file.                     *)
(***************************************************************************)
HoldsName(fields, o, n) ==
  Holds(fields, o, 2, NameLength[n]) /\ Holds(fields, o + 2, NameLength[n], n)

HoldsColumn(fields, o, column) ==
  /\ Holds(fields, o, 1, logicalTypeCode[column.type])
  /\ Holds(fields, o + 1, 1, Flags(column))
  /\ Holds(fields, o + 2, 2, column.stringCapacity)
  /\ HoldsName(fields, o + 4, column.name)

HoldsTable(fields, o, table) ==
  /\ Holds(fields, o, 4, table.tableId)
  /\ Holds(fields, o + 4, 4, table.firstPageId)
  /\ Holds(fields, o + 8, 4, table.lastPageId)
  /\ Holds(fields, o + 12, 1, Len(table.columns))
  /\ HoldsName(fields, o + 16, table.name)

LEMMA PutNameIs ==
  ASSUME NEW acc, Neat(acc), NEW n \in StoredNames, NEW new, new = PutName(acc, n)
  PROVE  /\ Neat(new) /\ Keeps(acc, new)
         /\ new.at = AlignTo(acc.at + 2 + NameLength[n], 4)
         /\ HoldsName(new.fields, acc.at, n)
<1> PICK length : length = NameLength[n]
  OBVIOUS
<1>0. Fits(2, length) /\ length \in Nat /\ length # 0
  BY NameFacts DEF Fits
<1> PICK a : a = Put(acc, 2, length)
  OBVIOUS
<1>1. Neat(a) /\ Keeps(acc, a) /\ a.at = acc.at + 2 /\ Holds(a.fields, acc.at, 2, length)
  BY <1>0, PutIs
<1> PICK b : b = PutBytes(a, length, n)
  OBVIOUS
<1>2. Neat(b) /\ Keeps(a, b) /\ b.at = acc.at + 2 + length /\ Holds(b.fields, acc.at + 2, length, n)
  BY <1>0, <1>1, PutBytesIs
<1>3. new = Align(b, 4)
  BY DEF PutName
<1>4. /\ Neat(new) /\ Keeps(b, new) /\ new.at = AlignTo(acc.at + 2 + length, 4)
      /\ new.fields = b.fields
  BY <1>2, <1>3, AlignIs
<1>5. Keeps(acc, b)
  BY <1>1, <1>2, KeepsAll
<1>6. Keeps(acc, new)
  BY <1>2, <1>4, <1>5, KeepsAll
<1>7. Holds(new.fields, acc.at, 2, length) /\ Holds(new.fields, acc.at + 2, length, n)
  BY <1>1, <1>2, <1>4, HoldsKept
<1> QED BY <1>4, <1>6, <1>7 DEF HoldsName

LEMMA PutColumnIs ==
  ASSUME NEW acc, Neat(acc), NEW column \in StoredColumns, NEW new, new = PutColumn(acc, column)
  PROVE  /\ Neat(new) /\ Keeps(acc, new)
         /\ new.at = AlignTo(acc.at + 6 + NameLength[column.name], 4)
         /\ HoldsColumn(new.fields, acc.at, column)
<1> PICK code : code = logicalTypeCode[column.type]
  OBVIOUS
<1> PICK flags : flags = Flags(column)
  OBVIOUS
<1> PICK capacity : capacity = column.stringCapacity
  OBVIOUS
<1> PICK n : n = column.name
  OBVIOUS
<1>0. /\ n \in StoredNames /\ NameLength[n] \in Nat /\ acc.at \in Nat
      /\ Fits(1, code) /\ Fits(1, flags) /\ Fits(2, capacity)
  <2>1. n \in StoredNames /\ NameLength[n] \in Nat /\ acc.at \in Nat
    BY ColumnFacts, NameFacts DEF Neat
  <2>2. Fits(1, code)
    BY ColumnFacts, CodeFacts DEF Fits
  <2>3. Fits(1, flags)
    BY FlagFacts DEF Fits
  <2>4. Fits(2, capacity)
    BY ColumnFacts DEF Fits
  <2> QED BY <2>1, <2>2, <2>3, <2>4
<1> PICK a : a = Put(acc, 1, code)
  OBVIOUS
<1>1. Neat(a) /\ Keeps(acc, a) /\ a.at = acc.at + 1 /\ Holds(a.fields, acc.at, 1, code)
  BY <1>0, PutIs
<1> PICK b : b = Put(a, 1, flags)
  OBVIOUS
<1>2. Neat(b) /\ Keeps(a, b) /\ b.at = acc.at + 2 /\ Holds(b.fields, acc.at + 1, 1, flags)
  BY <1>0, <1>1, PutIs
<1> PICK c : c = Put(b, 2, capacity)
  OBVIOUS
<1>3. Neat(c) /\ Keeps(b, c) /\ c.at = acc.at + 4 /\ Holds(c.fields, acc.at + 2, 2, capacity)
  BY <1>0, <1>2, PutIs
<1>4. new = PutName(c, n)
  BY DEF PutColumn
<1>5. Neat(new) /\ Keeps(c, new) /\ new.at = AlignTo(acc.at + 6 + NameLength[n], 4)
        /\ HoldsName(new.fields, acc.at + 4, n)
  <2>1. acc.at + 4 + 2 = acc.at + 6
    BY <1>0
  <2> QED BY <1>0, <1>3, <1>4, <2>1, PutNameIs
<1>6. Keeps(b, new) /\ Keeps(a, new) /\ Keeps(acc, new)
  <2>1. Keeps(b, new)
    BY <1>2, <1>3, <1>5, KeepsAll
  <2>2. Keeps(a, new)
    BY <1>1, <1>2, <1>5, <2>1, KeepsAll
  <2>3. Keeps(acc, new)
    BY <1>1, <1>5, <2>2, KeepsAll
  <2> QED BY <2>1, <2>2, <2>3
<1>7. /\ Holds(new.fields, acc.at, 1, code) /\ Holds(new.fields, acc.at + 1, 1, flags)
      /\ Holds(new.fields, acc.at + 2, 2, capacity)
  BY <1>1, <1>2, <1>3, <1>5, <1>6, HoldsKept
<1> QED BY <1>5, <1>6, <1>7 DEF HoldsColumn

LEMMA PutNumbers ==
  ASSUME NEW acc, Neat(acc), NEW id, Fits(4, id), NEW first, Fits(4, first),
         NEW last, Fits(4, last), NEW count, Fits(1, count),
         NEW a, a = Put(acc, 4, id), NEW b, b = Put(a, 4, first), NEW c, c = Put(b, 4, last),
         NEW d, d = Put(c, 1, count), NEW new, new = Skip(d, 3)
  PROVE  /\ Neat(new) /\ Keeps(acc, new) /\ new.at = acc.at + 16
         /\ Holds(new.fields, acc.at, 4, id) /\ Holds(new.fields, acc.at + 4, 4, first)
         /\ Holds(new.fields, acc.at + 8, 4, last) /\ Holds(new.fields, acc.at + 12, 1, count)
<1>0. acc.at \in Nat
  BY DEF Neat
<1>1. Neat(a) /\ Keeps(acc, a) /\ a.at = acc.at + 4 /\ Holds(a.fields, acc.at, 4, id)
  BY ONLY Neat(acc), Fits(4, id), a = Put(acc, 4, id), PutIs
<1>2. Neat(b) /\ Keeps(a, b) /\ b.at = a.at + 4 /\ Holds(b.fields, a.at, 4, first)
  BY ONLY <1>1, Fits(4, first), b = Put(a, 4, first), PutIs
<1>3. Neat(c) /\ Keeps(b, c) /\ c.at = b.at + 4 /\ Holds(c.fields, b.at, 4, last)
  BY ONLY <1>2, Fits(4, last), c = Put(b, 4, last), PutIs
<1>4. Neat(d) /\ Keeps(c, d) /\ d.at = c.at + 1 /\ Holds(d.fields, c.at, 1, count)
  BY ONLY <1>3, Fits(1, count), d = Put(c, 1, count), PutIs
<1>5. Neat(new) /\ Keeps(d, new) /\ new.at = d.at + 3
  BY <1>4, SkipIs
<1>6. Keeps(c, new)
  BY <1>3, <1>4, <1>5, KeepsAll
<1>7. Keeps(b, new)
  BY <1>2, <1>3, <1>5, <1>6, KeepsAll
<1>8. Keeps(a, new)
  BY <1>1, <1>2, <1>5, <1>7, KeepsAll
<1>9. Keeps(acc, new)
  BY <1>1, <1>5, <1>8, KeepsAll
<1>10. b.at = acc.at + 8 /\ c.at = acc.at + 12 /\ new.at = acc.at + 16
  BY <1>0, <1>1, <1>2, <1>3, <1>4, <1>5
<1>11. Holds(new.fields, acc.at, 4, id) /\ Holds(new.fields, a.at, 4, first)
  BY <1>1, <1>2, <1>7, <1>8, HoldsKept
<1>12. Holds(new.fields, b.at, 4, last) /\ Holds(new.fields, c.at, 1, count)
  BY <1>3, <1>4, <1>5, <1>6, HoldsKept
<1> QED BY <1>1, <1>5, <1>9, <1>10, <1>11, <1>12

LEMMA PutTableHeaderIs ==
  ASSUME NEW acc, Neat(acc), NEW table \in Entries, NEW new, new = PutTableHeader(acc, table)
  PROVE  /\ Neat(new) /\ Keeps(acc, new)
         /\ new.at = AlignTo(acc.at + 18 + NameLength[table.name], 4)
         /\ HoldsTable(new.fields, acc.at, table)
<1> PICK n : n = table.name
  OBVIOUS
<1>1. n \in StoredNames /\ NameLength[n] \in Nat /\ acc.at \in Nat
  BY EntryFacts, NameFacts DEF Neat
<1>2. Fits(4, table.tableId) /\ Fits(4, table.firstPageId) /\ Fits(4, table.lastPageId)
  BY EntryFacts DEF Fits
<1>3. Fits(1, Len(table.columns))
  <2>1. Len(table.columns) \in Nat /\ Len(table.columns) <= 255
    BY EntryFacts
  <2> QED BY <2>1 DEF Fits
<1> PICK p : p = Put(acc, 4, table.tableId)
  OBVIOUS
<1> PICK q : q = Put(p, 4, table.firstPageId)
  OBVIOUS
<1> PICK r : r = Put(q, 4, table.lastPageId)
  OBVIOUS
<1> PICK s : s = Put(r, 1, Len(table.columns))
  OBVIOUS
<1> PICK a : a = Skip(s, 3)
  OBVIOUS
<1>4. /\ Neat(a) /\ Keeps(acc, a) /\ a.at = acc.at + 16
      /\ Holds(a.fields, acc.at, 4, table.tableId) /\ Holds(a.fields, acc.at + 4, 4, table.firstPageId)
      /\ Holds(a.fields, acc.at + 8, 4, table.lastPageId)
      /\ Holds(a.fields, acc.at + 12, 1, Len(table.columns))
  BY <1>2, <1>3, PutNumbers
<1>5. new = PutName(a, n)
  BY DEF PutTableHeader
<1>6. Neat(new) /\ Keeps(a, new) /\ new.at = AlignTo(acc.at + 18 + NameLength[n], 4)
        /\ HoldsName(new.fields, acc.at + 16, n)
  <2>1. Neat(new) /\ Keeps(a, new) /\ new.at = AlignTo(a.at + 2 + NameLength[n], 4)
          /\ HoldsName(new.fields, a.at, n)
    BY <1>1, <1>4, <1>5, PutNameIs
  <2>2. a.at = acc.at + 16 /\ a.at + 2 + NameLength[n] = acc.at + 18 + NameLength[n]
    BY <1>1, <1>4
  <2> QED BY <2>1, <2>2
<1>7. Keeps(acc, new)
  BY <1>4, <1>6, KeepsAll
<1>8. /\ Holds(new.fields, acc.at, 4, table.tableId) /\ Holds(new.fields, acc.at + 4, 4, table.firstPageId)
      /\ Holds(new.fields, acc.at + 8, 4, table.lastPageId)
      /\ Holds(new.fields, acc.at + 12, 1, Len(table.columns))
  BY ONLY <1>4, <1>6 DEF Holds, Keeps
<1> QED BY <1>6, <1>7, <1>8 DEF HoldsTable
-----------------------------------------------------------------------------
(***************************************************************************)
(* The four recursive functions of save and serializedSize.  Each starts   *)
(* from a base and takes one step for each column or table; that there is  *)
(* such a function is shown once for all of them.                          *)
(***************************************************************************)
First(what, x, table) ==
  CASE what = "columns" -> PutTableHeader(x, table)
    [] what = "tables" -> PutHeader(x.next, Len(x.tables))
    [] what = "column ends" -> AfterTableHeader(x, table)
    [] what = "table ends" -> HeaderSize
Step(what, x, table, before, i) ==
  CASE what = "columns" -> PutColumn(before, table.columns[i])
    [] what = "tables" -> PutTable(before, x.tables[i])
    [] what = "column ends" -> AfterColumn(before, table.columns[i])
    [] what = "table ends" -> AfterTable(before, x.tables[i])
FirstOrStep(what, x, table, before, i) ==
  IF i = 0 THEN First(what, x, table) ELSE Step(what, x, table, before, i)

Solves(what, x, table, n, h) == h = [i \in 0 .. n |-> FirstOrStep(what, x, table, h[i - 1], i)]

LEMMA Recursion ==
  ASSUME NEW what, NEW x, NEW table, NEW n \in Nat
  PROVE  \E h : Solves(what, x, table, n, h)
<1> DEFINE T == {k \in Nat : \E h : h = [i \in 0 .. k |-> FirstOrStep(what, x, table, h[i - 1], i)]}
<1>1. 0 \in T
  <2> DEFINE h == [i \in 0 .. 0 |-> FirstOrStep(what, x, table, 0, 0)]
  <2>1. h = [i \in 0 .. 0 |-> FirstOrStep(what, x, table, h[i - 1], i)]
    BY DEF FirstOrStep
  <2> QED BY <2>1
<1>2. ASSUME NEW k \in 0 .. n - 1, k \in T PROVE k + 1 \in T
  <2>1. PICK h : h = [i \in 0 .. k |-> FirstOrStep(what, x, table, h[i - 1], i)]
    BY <1>2
  <2> DEFINE g == [i \in 0 .. k + 1 |-> IF i = k + 1 THEN FirstOrStep(what, x, table, h[k], k + 1)
                                                     ELSE h[i]]
  <2>2. \A i \in 0 .. k + 1 : g[i] = FirstOrStep(what, x, table, g[i - 1], i)
    <3> SUFFICES ASSUME NEW i \in 0 .. k + 1
                 PROVE  g[i] = FirstOrStep(what, x, table, g[i - 1], i)
      OBVIOUS
    <3>1. CASE i = k + 1
      BY <3>1
    <3>2. CASE i \in 1 .. k
      BY <2>1, <3>2
    <3>3. CASE i = 0
      BY <2>1, <3>3 DEF FirstOrStep
    <3> QED BY <3>1, <3>2, <3>3
  <2>3. g = [i \in 0 .. k + 1 |-> FirstOrStep(what, x, table, g[i - 1], i)]
    BY <2>2
  <2>4. \E f : f = [i \in 0 .. k + 1 |-> FirstOrStep(what, x, table, f[i - 1], i)]
    BY <2>3
  <2> QED BY <2>4
<1> HIDE DEF T
<1>3. n \in 0 .. n
  OBVIOUS
<1>4. n \in T
  BY <1>1, <1>2, <1>3, Induction
<1> QED BY <1>4 DEF T, Solves

(* What save has written after the columns, and after the tables.          *)
ColumnsPut(acc, table) ==
  LET put[j \in 0 .. Len(table.columns)] == IF j = 0 THEN PutTableHeader(acc, table)
                                                     ELSE PutColumn(put[j - 1], table.columns[j])
  IN  put
TablesPut(c) ==
  LET put[i \in 0 .. Len(c.tables)] == IF i = 0 THEN PutHeader(c.next, Len(c.tables))
                                                ELSE PutTable(put[i - 1], c.tables[i])
  IN  put

(* Where serializedSize has come to after them.                            *)
ColumnEnds(at, table) ==
  LET size[j \in 0 .. Len(table.columns)] ==
        IF j = 0 THEN AfterTableHeader(at, table)
                 ELSE AfterColumn(size[j - 1], table.columns[j])
  IN  size
TableEnds(c) ==
  LET size[i \in 0 .. Len(c.tables)] == IF i = 0 THEN HeaderSize ELSE AfterTable(size[i - 1], c.tables[i])
  IN  size

LEMMA ColumnsPutIs ==
  ASSUME NEW acc, NEW table, Len(table.columns) \in Nat
  PROVE  /\ ColumnsPut(acc, table)[0] = PutTableHeader(acc, table)
         /\ \A j \in 1 .. Len(table.columns) :
              ColumnsPut(acc, table)[j] = PutColumn(ColumnsPut(acc, table)[j - 1], table.columns[j])
<1>1. PICK g : Solves("columns", acc, table, Len(table.columns), g)
  BY Recursion
<1>2. \A before, j : FirstOrStep("columns", acc, table, before, j) =
        IF j = 0 THEN PutTableHeader(acc, table) ELSE PutColumn(before, table.columns[j])
  BY DEF FirstOrStep, First, Step
<1>3. \E h : h = [j \in 0 .. Len(table.columns) |->
                    IF j = 0 THEN PutTableHeader(acc, table) ELSE PutColumn(h[j - 1], table.columns[j])]
  BY <1>1, <1>2 DEF Solves
<1>4. ColumnsPut(acc, table) = [j \in 0 .. Len(table.columns) |->
          IF j = 0 THEN PutTableHeader(acc, table)
                   ELSE PutColumn(ColumnsPut(acc, table)[j - 1], table.columns[j])]
  BY <1>3 DEF ColumnsPut
<1> QED BY <1>4

LEMMA TablesPutIs ==
  ASSUME NEW c, Len(c.tables) \in Nat
  PROVE  /\ TablesPut(c)[0] = PutHeader(c.next, Len(c.tables))
         /\ \A i \in 1 .. Len(c.tables) : TablesPut(c)[i] = PutTable(TablesPut(c)[i - 1], c.tables[i])
<1>1. PICK g : Solves("tables", c, c, Len(c.tables), g)
  BY Recursion
<1>2. \A before, i : FirstOrStep("tables", c, c, before, i) =
        IF i = 0 THEN PutHeader(c.next, Len(c.tables)) ELSE PutTable(before, c.tables[i])
  BY DEF FirstOrStep, First, Step
<1>3. \E h : h = [i \in 0 .. Len(c.tables) |->
                    IF i = 0 THEN PutHeader(c.next, Len(c.tables)) ELSE PutTable(h[i - 1], c.tables[i])]
  BY <1>1, <1>2 DEF Solves
<1>4. TablesPut(c) = [i \in 0 .. Len(c.tables) |->
          IF i = 0 THEN PutHeader(c.next, Len(c.tables))
                   ELSE PutTable(TablesPut(c)[i - 1], c.tables[i])]
  BY <1>3 DEF TablesPut
<1> QED BY <1>4

LEMMA ColumnEndsIs ==
  ASSUME NEW at, NEW table, Len(table.columns) \in Nat
  PROVE  /\ ColumnEnds(at, table)[0] = AfterTableHeader(at, table)
         /\ \A j \in 1 .. Len(table.columns) :
              ColumnEnds(at, table)[j] =
                AfterColumn(ColumnEnds(at, table)[j - 1], table.columns[j])
<1>1. PICK g : Solves("column ends", at, table, Len(table.columns), g)
  BY Recursion
<1>2. \A before, j : FirstOrStep("column ends", at, table, before, j) =
        IF j = 0 THEN AfterTableHeader(at, table)
                 ELSE AfterColumn(before, table.columns[j])
  BY DEF FirstOrStep, First, Step
<1>3. g = [j \in 0 .. Len(table.columns) |->
             IF j = 0 THEN AfterTableHeader(at, table) ELSE AfterColumn(g[j - 1], table.columns[j])]
  <2>1. g = [j \in 0 .. Len(table.columns) |-> g[j]]
    BY <1>1 DEF Solves
  <2>2. \A j \in 0 .. Len(table.columns) :
          g[j] = IF j = 0 THEN AfterTableHeader(at, table) ELSE AfterColumn(g[j - 1], table.columns[j])
    BY <1>1, <1>2 DEF Solves
  <2> QED BY <2>1, <2>2
<1>4. ColumnEnds(at, table) = [j \in 0 .. Len(table.columns) |->
          IF j = 0 THEN AfterTableHeader(at, table)
                   ELSE AfterColumn(ColumnEnds(at, table)[j - 1], table.columns[j])]
  BY <1>3 DEF ColumnEnds
<1> QED BY <1>4

LEMMA TableEndsIs ==
  ASSUME NEW c, Len(c.tables) \in Nat
  PROVE  /\ TableEnds(c)[0] = HeaderSize
         /\ \A i \in 1 .. Len(c.tables) : TableEnds(c)[i] = AfterTable(TableEnds(c)[i - 1], c.tables[i])
<1>1. PICK g : Solves("table ends", c, c, Len(c.tables), g)
  BY Recursion
<1>2. \A before, i : FirstOrStep("table ends", c, c, before, i) =
        IF i = 0 THEN HeaderSize ELSE AfterTable(before, c.tables[i])
  BY DEF FirstOrStep, First, Step
<1>3. g = [i \in 0 .. Len(c.tables) |->
             IF i = 0 THEN HeaderSize ELSE AfterTable(g[i - 1], c.tables[i])]
  <2>1. g = [i \in 0 .. Len(c.tables) |-> g[i]]
    BY <1>1 DEF Solves
  <2>2. \A i \in 0 .. Len(c.tables) :
          g[i] = IF i = 0 THEN HeaderSize ELSE AfterTable(g[i - 1], c.tables[i])
    BY <1>1, <1>2 DEF Solves
  <2> QED BY <2>1, <2>2
<1>4. TableEnds(c) = [i \in 0 .. Len(c.tables) |->
                        IF i = 0 THEN HeaderSize ELSE AfterTable(TableEnds(c)[i - 1], c.tables[i])]
  BY <1>3 DEF TableEnds
<1> QED BY <1>4

LEMMA LastOnes ==
  /\ \A acc, table : PutTable(acc, table) = Align(ColumnsPut(acc, table)[Len(table.columns)], 8)
  /\ \A c : PutCatalog(c) = TablesPut(c)[Len(c.tables)]
  /\ \A at, table : AfterTable(at, table) = AlignTo(ColumnEnds(at, table)[Len(table.columns)], 8)
  /\ \A c : serializedSize(c) = TableEnds(c)[Len(c.tables)]
BY DEF PutTable, ColumnsPut, PutCatalog, TablesPut, AfterTable, ColumnEnds, serializedSize, TableEnds
-----------------------------------------------------------------------------
(***************************************************************************)
(* The layout of a whole catalog: everything that was put is still there   *)
(* at the end, and serializedSize has counted every byte.                  *)
(***************************************************************************)
LEMMA KeepsItself ==
  ASSUME NEW acc, Neat(acc)
  PROVE  Keeps(acc, acc)
BY DEF Neat, Keeps

LEMMA Growing ==
  ASSUME NEW n \in Nat, NEW p, Neat(p[0]),
         \A k \in 0 .. n - 1 : Neat(p[k]) => Neat(p[k + 1]) /\ Keeps(p[k], p[k + 1])
  PROVE  \A k \in 0 .. n : Neat(p[k]) /\ Keeps(p[k], p[n])
<1> DEFINE T == {k \in Nat : Neat(p[k]) /\ \A j \in 0 .. k : Neat(p[j]) /\ Keeps(p[j], p[k])}
<1>1. 0 \in T
  BY KeepsItself
<1>2. ASSUME NEW k \in 0 .. n - 1, k \in T PROVE k + 1 \in T
  <2>1. Neat(p[k]) /\ \A j \in 0 .. k : Neat(p[j]) /\ Keeps(p[j], p[k])
    BY <1>2
  <2>2. Neat(p[k + 1]) /\ Keeps(p[k], p[k + 1])
    BY <2>1
  <2>3. ASSUME NEW j \in 0 .. k + 1 PROVE Neat(p[j]) /\ Keeps(p[j], p[k + 1])
    <3>1. CASE j \in 0 .. k
      BY <2>1, <2>2, <3>1, KeepsAll
    <3>2. CASE j = k + 1
      BY <2>2, <3>2, KeepsItself
    <3> QED BY <3>1, <3>2
  <2> QED BY <2>2, <2>3
<1> HIDE DEF T
<1>3. \A k \in 0 .. n : k \in T
  BY <1>1, <1>2, Induction
<1>4. n \in T
  BY <1>3
<1> QED BY <1>4 DEF T

LEMMA ColumnsLieThere ==
  ASSUME NEW acc, Neat(acc), NEW table \in Entries
  PROVE  LET put == ColumnsPut(acc, table)
             count == Len(table.columns)
         IN  /\ count \in Nat /\ put[0] = PutTableHeader(acc, table)
             /\ \A j \in 0 .. count : Neat(put[j]) /\ Keeps(put[j], put[count])
             /\ \A j \in 1 .. count :
                  /\ table.columns[j] \in StoredColumns
                  /\ put[j].at = AfterColumn(put[j - 1].at, table.columns[j])
                  /\ HoldsColumn(put[j].fields, put[j - 1].at, table.columns[j])
<1> PICK n \in Nat : n = Len(table.columns)
  BY EntryFacts
<1> PICK p : p = ColumnsPut(acc, table)
  OBVIOUS
<1>1. /\ p[0] = PutTableHeader(acc, table)
      /\ \A j \in 1 .. n : p[j] = PutColumn(p[j - 1], table.columns[j])
  BY ColumnsPutIs
<1>2. \A j \in 1 .. n : table.columns[j] \in StoredColumns
  BY EntryFacts
<1>3. Neat(p[0])
  BY <1>1, PutTableHeaderIs
<1>4. ASSUME NEW k \in 0 .. n - 1, Neat(p[k])
      PROVE  /\ Neat(p[k + 1]) /\ Keeps(p[k], p[k + 1])
             /\ p[k + 1].at = AfterColumn(p[k].at, table.columns[k + 1])
             /\ HoldsColumn(p[k + 1].fields, p[k].at, table.columns[k + 1])
  <2>1. k + 1 \in 1 .. n /\ (k + 1) - 1 = k
    OBVIOUS
  <2>2. p[k + 1] = PutColumn(p[k], table.columns[k + 1]) /\ table.columns[k + 1] \in StoredColumns
    BY <1>1, <1>2, <2>1
  <2> QED BY <1>4, <2>2, PutColumnIs DEF AfterColumn
<1>5. \A k \in 0 .. n : Neat(p[k]) /\ Keeps(p[k], p[n])
  BY <1>3, <1>4, Growing
<1>6. ASSUME NEW j \in 1 .. n
      PROVE  /\ p[j].at = AfterColumn(p[j - 1].at, table.columns[j])
             /\ HoldsColumn(p[j].fields, p[j - 1].at, table.columns[j])
  <2>1. j - 1 \in 0 .. n - 1 /\ j - 1 \in 0 .. n /\ (j - 1) + 1 = j
    OBVIOUS
  <2> QED BY <1>4, <1>5, <2>1
<1> QED BY <1>1, <1>2, <1>5, <1>6

HoldsColumns(fields, acc, table) ==
  \A j \in 1 .. Len(table.columns) :
    HoldsColumn(fields, ColumnsPut(acc, table)[j - 1].at, table.columns[j])

LEMMA NameKept ==
  ASSUME NEW a, NEW b, Keeps(a, b), NEW o, NEW n, HoldsName(a.fields, o, n)
  PROVE  HoldsName(b.fields, o, n)
BY HoldsKept DEF HoldsName

LEMMA ColumnKept ==
  ASSUME NEW a, NEW b, Keeps(a, b), NEW o, NEW column, HoldsColumn(a.fields, o, column)
  PROVE  HoldsColumn(b.fields, o, column)
BY HoldsKept, NameKept DEF HoldsColumn

LEMMA TableKept ==
  ASSUME NEW a, NEW b, Keeps(a, b), NEW o, NEW table, HoldsTable(a.fields, o, table)
  PROVE  HoldsTable(b.fields, o, table)
BY HoldsKept, NameKept DEF HoldsTable

LEMMA PutTableIs ==
  ASSUME NEW acc, Neat(acc), NEW table \in Entries, NEW new, new = PutTable(acc, table)
  PROVE  /\ Neat(new) /\ Keeps(acc, new)
         /\ new.at = AlignTo(ColumnsPut(acc, table)[Len(table.columns)].at, 8)
         /\ HoldsTable(new.fields, acc.at, table) /\ HoldsColumns(new.fields, acc, table)
<1> PICK n : n = Len(table.columns)
  OBVIOUS
<1> PICK p : p = ColumnsPut(acc, table)
  OBVIOUS
<1>1. /\ n \in Nat /\ p[0] = PutTableHeader(acc, table)
      /\ \A j \in 0 .. n : Neat(p[j]) /\ Keeps(p[j], p[n])
      /\ \A j \in 1 .. n : HoldsColumn(p[j].fields, p[j - 1].at, table.columns[j])
  BY ColumnsLieThere
<1>2. Neat(p[0]) /\ Keeps(acc, p[0]) /\ HoldsTable(p[0].fields, acc.at, table)
  BY <1>1, PutTableHeaderIs
<1>3. Neat(p[n]) /\ Keeps(p[0], p[n])
  BY <1>1
<1>4. new = Align(p[n], 8)
  BY LastOnes
<1>5. Neat(new) /\ Keeps(p[n], new) /\ new.at = AlignTo(p[n].at, 8)
  BY <1>3, <1>4, AlignIs
<1>6. Keeps(p[0], new)
  BY <1>2, <1>3, <1>5, KeepsAll
<1>7. Keeps(acc, new)
  BY <1>2, <1>5, <1>6, KeepsAll
<1>8. HoldsTable(new.fields, acc.at, table)
  BY <1>2, <1>6, TableKept
<1>9. ASSUME NEW j \in 1 .. n PROVE HoldsColumn(new.fields, p[j - 1].at, table.columns[j])
  <2>1. j \in 0 .. n
    BY <1>1
  <2>2. Neat(p[j]) /\ Keeps(p[j], p[n]) /\ HoldsColumn(p[j].fields, p[j - 1].at, table.columns[j])
    BY <1>1, <2>1
  <2>3. Keeps(p[j], new)
    BY <1>3, <1>5, <2>2, KeepsAll
  <2> QED BY <2>2, <2>3, ColumnKept
<1>10. HoldsColumns(new.fields, acc, table)
  BY <1>9 DEF HoldsColumns
<1> QED BY <1>5, <1>7, <1>8, <1>10

LEMMA PutHeaderIs ==
  ASSUME NEW next \in Nat, NEW count \in Nat, NEW new, new = PutHeader(next, count)
  PROVE  /\ Neat(new) /\ new.at = HeaderSize
         /\ Holds(new.fields, 0, 4, "DTBL") /\ Holds(new.fields, 4, 4, next)
         /\ Holds(new.fields, 8, 4, count)
<1> PICK none : none = [at |-> 0, fields |-> <<>>]
  OBVIOUS
<1>1. none.at = 0 /\ DOMAIN none.fields = {}
  OBVIOUS
<1>2. Neat(none)
  BY <1>1 DEF Neat, Within, Apart
<1> PICK a : a = PutBytes(none, 4, "DTBL")
  OBVIOUS
<1>3. Neat(a) /\ a.at = 0 + 4 /\ Holds(a.fields, 0, 4, "DTBL")
  BY <1>1, <1>2, PutBytesIs
<1>4. Fits(4, next) /\ Fits(4, count)
  BY DEF Fits
<1> PICK b : b = Put(a, 4, next)
  OBVIOUS
<1>5. Neat(b) /\ Keeps(a, b) /\ b.at = a.at + 4 /\ Holds(b.fields, a.at, 4, next)
  BY ONLY <1>3, <1>4, b = Put(a, 4, next), PutIs
<1> PICK c : c = Put(b, 4, count)
  OBVIOUS
<1>6. Neat(c) /\ Keeps(b, c) /\ c.at = b.at + 4 /\ Holds(c.fields, b.at, 4, count)
  BY ONLY <1>4, <1>5, c = Put(b, 4, count), PutIs
<1>7. new = Skip(c, 4)
  BY DEF PutHeader
<1>8. Neat(new) /\ Keeps(c, new) /\ new.at = c.at + 4 /\ new.fields = c.fields
  BY ONLY <1>6, <1>7, SkipIs
<1>9. a.at = 4 /\ b.at = 8 /\ new.at = 16
  BY <1>3, <1>5, <1>6, <1>8
<1>10. Keeps(a, c)
  BY <1>3, <1>5, <1>6, KeepsAll
<1>11. Holds(c.fields, 0, 4, "DTBL") /\ Holds(c.fields, 4, 4, next)
  BY <1>3, <1>5, <1>6, <1>9, <1>10, HoldsKept
<1> QED BY <1>6, <1>8, <1>9, <1>11 DEF HeaderSize

LEMMA AlignShift ==
  ASSUME NEW a \in Nat, a % 8 = 0, NEW n \in Nat
  PROVE  a + AlignTo(n, 4) = AlignTo(a + n, 4)
<1>1. a + (n + 4 - 1) = a + n + 4 - 1
  OBVIOUS
<1>2. 4 * ((a + (n + 4 - 1)) \div 4) = a + 4 * ((n + 4 - 1) \div 4)
  <2>1. PICK q \in Nat : a = 4 * q
    <3>1. a = 4 * (2 * (a \div 8)) /\ 2 * (a \div 8) \in Nat
      OBVIOUS
    <3> QED BY <3>1
  <2>2. PICK m \in Nat : m = n + 4 - 1
    OBVIOUS
  <2>3. (4 * q + m) \div 4 = q + (m \div 4)
    BY <2>1, <2>2
  <2> QED BY <2>1, <2>2, <2>3
<1> QED BY <1>1, <1>2 DEF AlignTo

LEMMA Alignments ==
  ASSUME NEW n \in Nat
  PROVE  AlignTo(n, 8) \in Nat /\ AlignTo(n, 8) % 8 = 0
BY AlignAbove

LEMMA TableSizeAgrees ==
  ASSUME NEW acc, Neat(acc), acc.at % 8 = 0, NEW table \in Entries
  PROVE  AfterTable(acc.at, table) = PutTable(acc, table).at
<1> PICK n : n = Len(table.columns)
  OBVIOUS
<1> PICK p : p = ColumnsPut(acc, table)
  OBVIOUS
<1> PICK e : e = ColumnEnds(acc.at, table)
  OBVIOUS
<1>1. /\ n \in Nat /\ p[0] = PutTableHeader(acc, table)
      /\ \A j \in 0 .. n : Neat(p[j])
      /\ \A j \in 1 .. n : p[j].at = AfterColumn(p[j - 1].at, table.columns[j])
  BY ColumnsLieThere
<1>2. /\ e[0] = AfterTableHeader(acc.at, table)
      /\ \A j \in 1 .. n : e[j] = AfterColumn(e[j - 1], table.columns[j])
  BY <1>1, ColumnEndsIs
<1> DEFINE T == {k \in Nat : e[k] = p[k].at}
<1>3. 0 \in T
  <2> PICK length \in Nat : length = NameLength[table.name]
    BY EntryFacts, NameFacts
  <2>1. p[0].at = AlignTo(acc.at + 18 + length, 4)
    BY <1>1, PutTableHeaderIs
  <2>2. e[0] = acc.at + AlignTo(18 + length, 4)
    BY <1>2 DEF AfterTableHeader, TableHeaderSize
  <2>3. acc.at \in Nat /\ 18 + length \in Nat /\ acc.at + (18 + length) = acc.at + 18 + length
    BY DEF Neat
  <2>4. acc.at + AlignTo(18 + length, 4) = AlignTo(acc.at + (18 + length), 4)
    BY <2>3, AlignShift
  <2> QED BY <2>1, <2>2, <2>3, <2>4
<1>4. ASSUME NEW k \in 0 .. n - 1, k \in T PROVE k + 1 \in T
  <2>1. k + 1 \in 1 .. n /\ (k + 1) - 1 = k /\ k + 1 \in Nat
    BY <1>1
  <2>2. e[k] = p[k].at
    BY <1>4
  <2>3. p[k + 1].at = AfterColumn(p[k].at, table.columns[k + 1])
    BY <1>1, <2>1
  <2>4. e[k + 1] = AfterColumn(e[k], table.columns[k + 1])
    BY <1>2, <2>1
  <2> QED BY <2>1, <2>2, <2>3, <2>4
<1> HIDE DEF T
<1>5. n \in 0 .. n
  BY <1>1
<1>6. n \in T
  BY <1>1, <1>3, <1>4, <1>5, Induction
<1>7. e[n] = p[n].at
  BY <1>6 DEF T
<1>8. AfterTable(acc.at, table) = AlignTo(e[n], 8)
  BY LastOnes
<1>9. PutTable(acc, table).at = AlignTo(p[n].at, 8)
  BY PutTableIs
<1> QED BY <1>7, <1>8, <1>9

LEMMA CatalogFacts ==
  ASSUME NEW c \in Catalogs
  PROVE  /\ c.next \in Nat /\ c.tables \in Seq(Entries) /\ Len(c.tables) \in Nat
         /\ \A i \in 1 .. Len(c.tables) : c.tables[i] \in Entries
<1> PICK d : d = c
  OBVIOUS
<1>1. d.next \in Nat /\ d.tables \in Seq(Entries)
  BY DEF Catalogs
<1>2. Len(d.tables) \in Nat /\ \A i \in 1 .. Len(d.tables) : d.tables[i] \in Entries
  BY <1>1
<1> QED BY <1>1, <1>2

LEMMA TablesLieThere ==
  ASSUME NEW c \in Catalogs
  PROVE  LET put == TablesPut(c)
             count == Len(c.tables)
         IN  /\ put[0] = PutHeader(c.next, count)
             /\ \A i \in 0 .. count : Neat(put[i]) /\ Keeps(put[i], put[count])
             /\ \A i \in 1 .. count : put[i] = PutTable(put[i - 1], c.tables[i])
             /\ \A i \in 0 .. count : TableEnds(c)[i] = put[i].at
<1> PICK n \in Nat : n = Len(c.tables)
  BY CatalogFacts
<1> PICK p : p = TablesPut(c)
  OBVIOUS
<1> PICK e : e = TableEnds(c)
  OBVIOUS
<1>1. p[0] = PutHeader(c.next, n) /\ \A i \in 1 .. n : p[i] = PutTable(p[i - 1], c.tables[i])
  BY TablesPutIs
<1>2. e[0] = HeaderSize /\ \A i \in 1 .. n : e[i] = AfterTable(e[i - 1], c.tables[i])
  BY TableEndsIs
<1>3. \A i \in 1 .. n : c.tables[i] \in Entries
  BY CatalogFacts
<1>4. Neat(p[0]) /\ p[0].at = HeaderSize
  BY <1>1, CatalogFacts, PutHeaderIs
<1>5. ASSUME NEW k \in 0 .. n - 1, Neat(p[k])
      PROVE  /\ Neat(p[k + 1]) /\ Keeps(p[k], p[k + 1]) /\ p[k + 1].at % 8 = 0
             /\ p[k].at % 8 = 0 => p[k + 1].at = AfterTable(p[k].at, c.tables[k + 1])
  <2>1. k + 1 \in 1 .. n /\ (k + 1) - 1 = k
    OBVIOUS
  <2>2. p[k + 1] = PutTable(p[k], c.tables[k + 1]) /\ c.tables[k + 1] \in Entries
    BY <1>1, <1>3, <2>1
  <2>3. /\ Neat(p[k + 1]) /\ Keeps(p[k], p[k + 1])
        /\ p[k + 1].at = AlignTo(ColumnsPut(p[k], c.tables[k + 1])[Len(c.tables[k + 1].columns)].at, 8)
    BY <1>5, <2>2, PutTableIs
  <2> PICK m \in Nat : m = Len(c.tables[k + 1].columns)
    BY <2>2, EntryFacts
  <2>4. Neat(ColumnsPut(p[k], c.tables[k + 1])[m])
    <3>1. m \in 0 .. m
      OBVIOUS
    <3> QED BY <1>5, <2>2, <3>1, ColumnsLieThere
  <2>5. p[k + 1].at % 8 = 0
    BY <2>3, <2>4, Alignments DEF Neat
  <2> QED BY <1>5, <2>2, <2>3, <2>5, TableSizeAgrees
<1>6. \A k \in 0 .. n : Neat(p[k]) /\ Keeps(p[k], p[n])
  BY <1>4, <1>5, Growing
<1> DEFINE T == {k \in Nat : e[k] = p[k].at /\ p[k].at % 8 = 0}
<1>7. 0 \in T
  BY <1>2, <1>4 DEF HeaderSize
<1>8. ASSUME NEW k \in 0 .. n - 1, k \in T PROVE k + 1 \in T
  <2>1. k + 1 \in 1 .. n /\ (k + 1) - 1 = k /\ k + 1 \in Nat /\ k \in 0 .. n
    OBVIOUS
  <2>2. Neat(p[k]) /\ e[k] = p[k].at /\ p[k].at % 8 = 0
    BY <1>6, <1>8, <2>1
  <2>3. p[k + 1].at % 8 = 0 /\ p[k + 1].at = AfterTable(p[k].at, c.tables[k + 1])
    BY <1>5, <2>2
  <2>4. e[k + 1] = AfterTable(e[k], c.tables[k + 1])
    BY <1>2, <2>1
  <2> QED BY <2>1, <2>2, <2>3, <2>4
<1> HIDE DEF T
<1>9. \A k \in 0 .. n : k \in T
  BY <1>7, <1>8, Induction
<1>10. \A k \in 0 .. n : e[k] = p[k].at
  BY <1>9 DEF T
<1> QED BY <1>1, <1>6, <1>10

HoldsHeader(fields, c) ==
  /\ Holds(fields, 0, 4, "DTBL") /\ Holds(fields, 4, 4, c.next)
  /\ Holds(fields, 8, 4, Len(c.tables))

(* Everything that PutCatalog leaves in the file, and its size.            *)
LEMMA CatalogLies ==
  ASSUME NEW c \in Catalogs
  PROVE  /\ Neat(PutCatalog(c)) /\ PutCatalog(c).at = serializedSize(c)
         /\ HoldsHeader(PutCatalog(c).fields, c)
         /\ \A i \in 1 .. Len(c.tables) :
              /\ HoldsTable(PutCatalog(c).fields, TablesPut(c)[i - 1].at, c.tables[i])
              /\ HoldsColumns(PutCatalog(c).fields, TablesPut(c)[i - 1], c.tables[i])
<1> PICK n \in Nat : n = Len(c.tables)
  BY CatalogFacts
<1> PICK p : p = TablesPut(c)
  OBVIOUS
<1>1. /\ p[0] = PutHeader(c.next, n)
      /\ \A i \in 0 .. n : Neat(p[i]) /\ Keeps(p[i], p[n])
      /\ \A i \in 1 .. n : p[i] = PutTable(p[i - 1], c.tables[i])
      /\ \A i \in 0 .. n : TableEnds(c)[i] = p[i].at
  BY TablesLieThere
<1>2. p[n] = PutCatalog(c) /\ serializedSize(c) = TableEnds(c)[n]
  BY LastOnes
<1>3. n \in 0 .. n /\ 0 \in 0 .. n
  OBVIOUS
<1>4. HoldsHeader(p[n].fields, c)
  <2>1. /\ Holds(p[0].fields, 0, 4, "DTBL") /\ Holds(p[0].fields, 4, 4, c.next)
        /\ Holds(p[0].fields, 8, 4, n)
    BY <1>1, CatalogFacts, PutHeaderIs
  <2>2. Keeps(p[0], p[n])
    BY <1>1, <1>3
  <2>3. /\ Holds(p[n].fields, 0, 4, "DTBL") /\ Holds(p[n].fields, 4, 4, c.next)
        /\ Holds(p[n].fields, 8, 4, n)
    BY ONLY <2>1, <2>2 DEF Holds, Keeps
  <2> QED BY <2>3 DEF HoldsHeader
<1>5. ASSUME NEW i \in 1 .. n
      PROVE  HoldsTable(p[n].fields, p[i - 1].at, c.tables[i]) /\ HoldsColumns(p[n].fields, p[i - 1], c.tables[i])
  <2>1. i \in 0 .. n /\ i - 1 \in 0 .. n
    OBVIOUS
  <2>2. Neat(p[i - 1]) /\ c.tables[i] \in Entries /\ p[i] = PutTable(p[i - 1], c.tables[i])
    BY <1>1, <2>1, CatalogFacts
  <2>3. HoldsTable(p[i].fields, p[i - 1].at, c.tables[i]) /\ HoldsColumns(p[i].fields, p[i - 1], c.tables[i])
    BY <2>2, PutTableIs
  <2>4. Keeps(p[i], p[n])
    BY <1>1, <2>1
  <2> QED BY <2>3, <2>4, TableKept, ColumnKept DEF HoldsColumns
<1> QED BY <1>1, <1>2, <1>3, <1>4, <1>5
-----------------------------------------------------------------------------
(***************************************************************************)
(* The files that save leaves: all of a catalog, or its first bytes.       *)
(***************************************************************************)
PartOf(file, c) ==
  /\ file.size \in Nat /\ file.size <= serializedSize(c)
  /\ \A o : o \in DOMAIN file.fields <=>
              /\ o \in DOMAIN PutCatalog(c).fields
              /\ o + PutCatalog(c).fields[o].width <= file.size
  /\ \A o \in DOMAIN file.fields : file.fields[o] = PutCatalog(c).fields[o]

LEMMA WholeFile ==
  ASSUME NEW c \in Catalogs
  PROVE  PartOf(Serialized(c), c) /\ Serialized(c).size = serializedSize(c) /\ serializedSize(c) \in Nat
<1> PICK p : p = PutCatalog(c)
  OBVIOUS
<1> PICK n : n = serializedSize(c)
  OBVIOUS
<1>1. Neat(p) /\ p.at = n
  BY CatalogLies
<1>2. n \in Nat /\ \A o \in DOMAIN p.fields : o + p.fields[o].width <= n
  BY <1>1 DEF Neat, Within
<1> PICK f : f = Serialized(c)
  OBVIOUS
<1>3. f.size = n /\ f.fields = p.fields
  BY DEF Serialized
<1> QED BY <1>2, <1>3 DEF PartOf

LEMMA CutFile ==
  ASSUME NEW c \in Catalogs, NEW file \in Unfinished(Serialized(c)), TablesMetaAssumption
  PROVE  PartOf(file, c) /\ file.size < serializedSize(c)
<1> PICK p : p = PutCatalog(c)
  OBVIOUS
<1> PICK f : f = Serialized(c)
  OBVIOUS
<1>1. f.size = serializedSize(c) /\ f.size \in Nat /\ f.fields = p.fields
  BY WholeFile DEF Serialized
<1>2. PICK n \in CutSizes(f) : file = Prefix(f, n)
  BY DEF Unfinished
<1>3. n \in Nat /\ n < f.size
  <2>1. n \in Cuts \cup {f.size - k : k \in Cuts} /\ 0 <= n /\ n < f.size
    BY DEF CutSizes
  <2>2. Cuts \subseteq Nat
    BY DEF TablesMetaAssumption
  <2>3. CASE n \in Cuts
    BY <2>1, <2>2, <2>3
  <2>4. ASSUME NEW k \in Cuts, n = f.size - k PROVE n \in Nat /\ n < f.size
    BY <1>1, <2>1, <2>2, <2>4
  <2> QED BY <2>1, <2>3, <2>4
<1>4. file.size = n
  BY <1>2 DEF Prefix
<1>5. file.fields = [o \in {o \in DOMAIN p.fields : o + p.fields[o].width <= n} |-> p.fields[o]]
  BY <1>1, <1>2 DEF Prefix
<1>6. \A o : o \in DOMAIN file.fields <=> o \in DOMAIN p.fields /\ o + p.fields[o].width <= n
  BY <1>5
<1>7. \A o \in DOMAIN file.fields : file.fields[o] = p.fields[o]
  BY <1>5, <1>6
<1>8. n <= serializedSize(c) /\ n < serializedSize(c)
  BY <1>1, <1>3
<1> QED BY <1>3, <1>4, <1>6, <1>7, <1>8 DEF PartOf

LEMMA NotMissing ==
  ASSUME NEW file, NEW c, PartOf(file, c)
  PROVE  file # Missing
BY DEF PartOf, Missing

LEMMA PartNeat ==
  ASSUME NEW c \in Catalogs, NEW file, PartOf(file, c)
  PROVE  Within(file.fields, file.size) /\ Apart(file.fields)
<1>1. Apart(PutCatalog(c).fields)
  BY CatalogLies DEF Neat
<1> QED BY <1>1 DEF PartOf, Within, Apart

EmptyCatalog == [tables |-> <<>>, next |-> 1]

LEMMA EmptyFile == EmptyCatalog \in Catalogs /\ InitialFile = Serialized(EmptyCatalog)
<1> PICK c : c = EmptyCatalog
  OBVIOUS
<1>1. c.tables = <<>> /\ c.next = 1
  BY DEF EmptyCatalog
<1>2. EmptyCatalog \in Catalogs
  BY DEF EmptyCatalog, Catalogs
<1>3. Len(c.tables) = 0
  BY <1>1
<1>4. TablesPut(c)[0] = PutHeader(1, 0) /\ TableEnds(c)[0] = HeaderSize
  BY <1>1, <1>3, TablesPutIs, TableEndsIs
<1>5. PutCatalog(c) = PutHeader(1, 0) /\ serializedSize(c) = HeaderSize
  BY <1>3, <1>4, LastOnes
<1> QED BY <1>2, <1>5 DEF InitialFile, Serialized
-----------------------------------------------------------------------------
(***************************************************************************)
(* What load reads where a field was written: its value, if the field ends *)
(* within the file.                                                        *)
(***************************************************************************)
Written(c, o, width, v) == Holds(PutCatalog(c).fields, o, width, v)

LEMMA WrittenWithin ==
  ASSUME NEW c \in Catalogs, NEW o, NEW width, NEW v, Written(c, o, width, v)
  PROVE  o \in Nat /\ width \in Nat /\ o + width <= serializedSize(c) /\ serializedSize(c) \in Nat
<1> PICK p : p = PutCatalog(c)
  OBVIOUS
<1>1. Neat(p) /\ p.at = serializedSize(c)
  BY CatalogLies
<1>2. o \in DOMAIN p.fields /\ p.fields[o].width = width
  BY DEF Written, Holds
<1> QED BY <1>1, <1>2 DEF Neat, Within

LEMMA ReadAt ==
  ASSUME NEW c \in Catalogs, PartOf(metaFile, c),
         NEW o, NEW width, NEW v, Written(c, o, width, v)
  PROVE  At(o, width) = IF InFile(o + width) THEN v ELSE 0
<1> PICK p : p = PutCatalog(c)
  OBVIOUS
<1>1. o \in DOMAIN p.fields /\ p.fields[o].width = width /\ p.fields[o].value = v
  BY DEF Written, Holds
<1>2. o \in DOMAIN metaFile.fields <=> o + width <= metaFile.size
  BY <1>1 DEF PartOf
<1>3. o \in DOMAIN metaFile.fields => metaFile.fields[o] = p.fields[o]
  BY DEF PartOf
<1> QED BY <1>1, <1>2, <1>3 DEF At, InFile

LEMMA ReadName ==
  ASSUME NEW c \in Catalogs, PartOf(metaFile, c),
         NEW o \in Nat, NEW n \in StoredNames, HoldsName(PutCatalog(c).fields, o, n)
  PROVE  /\ InFile(o + 2 + At(o, 2)) <=> InFile(o + 2 + NameLength[n])
         /\ InFile(o + 2 + At(o, 2)) => At(o, 2) = NameLength[n] /\ NameAt(o) = n
         /\ o + 2 + NameLength[n] <= serializedSize(c)
<1> PICK length \in Nat : length = NameLength[n] /\ length > 0
  BY NameFacts
<1>1. Written(c, o, 2, length) /\ Written(c, o + 2, length, n)
  BY DEF HoldsName, Written
<1>2. metaFile.size \in Nat
  BY DEF PartOf
<1>3. At(o, 2) = IF InFile(o + 2) THEN length ELSE 0
  BY <1>1, ReadAt
<1>4. At(o + 2, length) = IF InFile(o + 2 + length) THEN n ELSE 0
  BY <1>1, ReadAt
<1>5. InFile(o + 2 + length) => InFile(o + 2)
  BY <1>2 DEF InFile
<1>6. CASE InFile(o + 2)
  <2>1. At(o, 2) = length /\ At(o, 2) # 0
    BY <1>3, <1>6
  <2>2. NameAt(o) = At(o + 2, length)
    BY <2>1 DEF NameAt
  <2> QED BY <1>1, <1>4, <2>1, <2>2, WrittenWithin
<1>7. CASE ~InFile(o + 2)
  <2>1. At(o, 2) = 0 /\ o + 2 + At(o, 2) = o + 2
    BY <1>3, <1>7
  <2> QED BY <1>1, <1>5, <1>7, <2>1, WrittenWithin
<1> QED BY <1>6, <1>7
-----------------------------------------------------------------------------
(***************************************************************************)
(* What load looks at, table by table, and what makes a catalog sound.     *)
(***************************************************************************)
HasPages(table) == {table.firstPageId, table.lastPageId} \cap {0, INVALID_PAGE_ID} = {}

Accepted(c, k) ==
  /\ HasPages(c.tables[k]) /\ ValidColumns(c.tables[k].columns)
  /\ \A l \in 1 .. k - 1 : /\ c.tables[l].tableId # c.tables[k].tableId
                          /\ c.tables[l].name # c.tables[k].name

LEMMA PagesAre ==
  ASSUME NEW table \in Entries
  PROVE  HasPages(table) <=> /\ table.firstPageId \in 1 .. INVALID_PAGE_ID - 1
                             /\ table.lastPageId \in 1 .. INVALID_PAGE_ID - 1
<1>1. /\ table.firstPageId \in 0 .. INVALID_PAGE_ID /\ table.lastPageId \in 0 .. INVALID_PAGE_ID
      /\ INVALID_PAGE_ID \in Nat
  BY EntryFacts, LastId
<1>2. HasPages(table) <=> /\ table.firstPageId # 0 /\ table.firstPageId # INVALID_PAGE_ID
                          /\ table.lastPageId # 0 /\ table.lastPageId # INVALID_PAGE_ID
  BY DEF HasPages
<1>3. \A p \in 0 .. INVALID_PAGE_ID :
        p \in 1 .. INVALID_PAGE_ID - 1 <=> p # 0 /\ p # INVALID_PAGE_ID
  BY <1>1
<1> QED BY <1>1, <1>2, <1>3

LEMMA SoundIs ==
  ASSUME NEW c \in Catalogs
  PROVE  Sound(c) <=> /\ c.next > 0
                      /\ \A k \in 1 .. Len(c.tables) : c.tables[k].tableId < c.next /\ Accepted(c, k)
<1> PICK n \in Nat : n = Len(c.tables)
  BY CatalogFacts
<1>1. DOMAIN c.tables = 1 .. n /\ \A k \in 1 .. n : c.tables[k] \in Entries
  BY CatalogFacts
<1>2. \A k \in 1 .. n : HasPages(c.tables[k]) <=>
        /\ c.tables[k].firstPageId \in 1 .. INVALID_PAGE_ID - 1
        /\ c.tables[k].lastPageId \in 1 .. INVALID_PAGE_ID - 1
  BY <1>1, PagesAre
<1>3. ASSUME Sound(c), NEW k \in 1 .. n PROVE c.tables[k].tableId < c.next /\ Accepted(c, k)
  <2>1. c.tables[k].tableId < c.next /\ HasPages(c.tables[k]) /\ ValidColumns(c.tables[k].columns)
    BY <1>1, <1>2, <1>3 DEF Sound
  <2>2. ASSUME NEW l \in 1 .. k - 1
        PROVE  c.tables[l].tableId # c.tables[k].tableId /\ c.tables[l].name # c.tables[k].name
    <3>1. l \in 1 .. n /\ l # k
      OBVIOUS
    <3> QED BY <1>1, <1>3, <3>1 DEF Sound
  <2> QED BY <2>1, <2>2 DEF Accepted
<1>4. ASSUME c.next > 0, \A k \in 1 .. n : c.tables[k].tableId < c.next /\ Accepted(c, k)
      PROVE  Sound(c)
  <2>1. \A k \in 1 .. n : /\ c.tables[k].tableId < c.next /\ ValidColumns(c.tables[k].columns)
                          /\ c.tables[k].firstPageId \in 1 .. INVALID_PAGE_ID - 1
                          /\ c.tables[k].lastPageId \in 1 .. INVALID_PAGE_ID - 1
    BY <1>2, <1>4 DEF Accepted
  <2>2. ASSUME NEW t \in 1 .. n, NEW u \in 1 .. n,
               c.tables[t].tableId = c.tables[u].tableId \/ c.tables[t].name = c.tables[u].name
        PROVE  t = u
    <3>1. ~(t \in 1 .. u - 1)
      BY <1>4, <2>2 DEF Accepted
    <3>2. ~(u \in 1 .. t - 1)
      BY <1>4, <2>2 DEF Accepted
    <3> QED BY <3>1, <3>2
  <2> QED BY <1>1, <1>4, <2>1, <2>2 DEF Sound
<1>5. Sound(c) => c.next > 0
  BY DEF Sound
<1> QED BY <1>3, <1>4, <1>5

(* A table of which load has read the first j columns.                     *)
FirstColumns(columns, j) == [i \in 1 .. j |-> columns[i]]
Begun(table, j) ==
  [tableId |-> table.tableId, name |-> table.name, columns |-> FirstColumns(table.columns, j),
   firstPageId |-> table.firstPageId, lastPageId |-> table.lastPageId]

LEMMA BegunIs ==
  ASSUME NEW table \in Entries
  PROVE  /\ \A j \in 0 .. Len(table.columns) : Begun(table, j) \in Entries
         /\ Begun(table, Len(table.columns)) = table
         /\ FirstColumns(table.columns, 0) = <<>>
         /\ \A j \in 0 .. Len(table.columns) - 1 :
              FirstColumns(table.columns, j + 1) =
                Append(FirstColumns(table.columns, j), table.columns[j + 1])
<1> PICK s \in Seq(StoredColumns) : s = table.columns
  BY EntryFacts
<1> PICK n \in Nat : n = Len(s) /\ n <= 255
  BY EntryFacts
<1>1. ASSUME NEW j \in 0 .. n
      PROVE  FirstColumns(s, j) \in Seq(StoredColumns) /\ Len(FirstColumns(s, j)) = j
  BY DEF FirstColumns
<1>2. ASSUME NEW j \in 0 .. n PROVE Begun(table, j) \in Entries
  <2> PICK f \in Seq(StoredColumns) : f = FirstColumns(s, j)
    BY <1>1
  <2>1. Len(f) <= 255
    BY <1>1
  <2>2. /\ table.tableId \in Nat /\ table.name \in StoredNames
        /\ table.firstPageId \in 0 .. INVALID_PAGE_ID /\ table.lastPageId \in 0 .. INVALID_PAGE_ID
    BY EntryFacts
  <2>3. Begun(table, j) = [tableId |-> table.tableId, name |-> table.name, columns |-> f,
                          firstPageId |-> table.firstPageId, lastPageId |-> table.lastPageId]
    BY DEF Begun
  <2> PICK b : b = Begun(table, j)
    OBVIOUS
  <2>4. b \in [tableId : Nat, name : StoredNames, columns : Seq(StoredColumns),
               firstPageId : 0 .. INVALID_PAGE_ID, lastPageId : 0 .. INVALID_PAGE_ID]
    BY <2>2, <2>3
  <2>5. Len(b.columns) <= 255
    BY <2>1, <2>3
  <2> QED BY <2>4, <2>5 DEF Entries
<1>3. FirstColumns(s, n) = s
  BY DEF FirstColumns
<1>4. Begun(table, n) = table
  BY <1>3, EntryIs DEF Begun
<1>5. FirstColumns(s, 0) = <<>>
  BY DEF FirstColumns
<1>6. ASSUME NEW j \in 0 .. n - 1
      PROVE  FirstColumns(s, j + 1) = Append(FirstColumns(s, j), s[j + 1])
  <2>1. j \in 0 .. n /\ j + 1 \in 0 .. n /\ j + 1 \in 1 .. n /\ j \in Nat
    OBVIOUS
  <2> PICK f : f = FirstColumns(s, j)
    OBVIOUS
  <2> PICK g : g = FirstColumns(s, j + 1)
    OBVIOUS
  <2>2. f \in Seq(StoredColumns) /\ Len(f) = j /\ g \in Seq(StoredColumns) /\ Len(g) = j + 1
    BY <1>1, <2>1
  <2>3. s[j + 1] \in StoredColumns
    BY <2>1
  <2> PICK h : h = Append(f, s[j + 1])
    OBVIOUS
  <2>4. h \in Seq(StoredColumns) /\ Len(h) = j + 1
        /\ h[j + 1] = s[j + 1] /\ \A i \in 1 .. j : h[i] = f[i]
    BY <2>2, <2>3
  <2>5. \A i \in 1 .. j + 1 : h[i] = g[i]
    <3>1. ASSUME NEW i \in 1 .. j PROVE h[i] = g[i]
      BY <2>4, <3>1 DEF FirstColumns
    <3>2. h[j + 1] = g[j + 1]
      BY <2>1, <2>4 DEF FirstColumns
    <3>3. \A i \in 1 .. j + 1 : i \in 1 .. j \/ i = j + 1
      BY <2>1
    <3> QED BY <3>1, <3>2, <3>3
  <2> QED BY <2>2, <2>4, <2>5
<1> QED BY <1>2, <1>4, <1>5, <1>6
-----------------------------------------------------------------------------
(***************************************************************************)
(* How far load has come.  What it has read so far is what was written; it *)
(* stands where save stood when it had written that much.                  *)
(***************************************************************************)
Readings == [at : Nat, next : Nat, tableCount : Nat, columnsLeft : Nat, tables : Seq(Entries)]

ReadTables(c, n) == \A k \in 1 .. n : reading.tables[k] = c.tables[k] /\ Accepted(c, k)

Progress(c) ==
  LET n == Len(reading.tables)
  IN  /\ reading \in Readings
      /\ reading.next = c.next /\ reading.tableCount = Len(c.tables) /\ n <= Len(c.tables)
      /\ reading.columnsLeft = 0 => ReadTables(c, n) /\ reading.at = TablesPut(c)[n].at
      /\ reading.columnsLeft # 0 =>
           LET columns == c.tables[n].columns
               j == Len(columns) - reading.columnsLeft
           IN  /\ n > 0 /\ ReadTables(c, n - 1) /\ HasPages(c.tables[n])
               /\ j >= 0 /\ reading.tables[n] = Begun(c.tables[n], j)
               /\ reading.at = ColumnsPut(TablesPut(c)[n - 1], c.tables[n])[j].at

(***************************************************************************)
(* The invariant: the file is a part of what the last save was given, and  *)
(* how load ends is decided by that catalog and the length of the file.    *)
(***************************************************************************)
MetaInv ==
  /\ saved \in Catalogs /\ pages \in Nat
  /\ IF metaFile = Missing THEN saved = EmptyCatalog /\ status = "closed" ELSE PartOf(metaFile, saved)
  /\ status \in {"closed", "loading", "open", "refused", "overrun"}
  /\ status = "loading" => Progress(saved)
  /\ status = "open" => saved = [tables |-> tablesMetadata_, next |-> nextTableId_] /\ Sound(saved)
  /\ status = "refused" => ~Sound(saved)
  /\ status = "overrun" => metaFile.size < serializedSize(saved)

(* The files that a start finds: none, or one that save has written.       *)
OwnFiles ==
  \A f \in Found : \/ f.file = Missing /\ f.catalog = EmptyCatalog
                   \/ f.catalog \in Catalogs /\ f.file = Serialized(f.catalog)

LEMMA MetaInit ==
  ASSUME OwnFiles, Init
  PROVE  MetaInv
<1>1. PICK f \in Found : metaFile = f.file /\ saved = f.catalog
  BY DEF Init
<1>2. status = "closed" /\ pages = 0
  BY DEF Init
<1>3. CASE f.file = Missing /\ f.catalog = EmptyCatalog
  BY <1>1, <1>2, <1>3, EmptyFile DEF MetaInv
<1>4. CASE f.catalog \in Catalogs /\ f.file = Serialized(f.catalog)
  <2>1. PartOf(metaFile, saved) /\ metaFile # Missing
    BY <1>1, <1>4, WholeFile, NotMissing
  <2> QED BY <1>1, <1>2, <1>4, <2>1 DEF MetaInv
<1> QED BY <1>1, <1>3, <1>4 DEF OwnFiles
-----------------------------------------------------------------------------
(***************************************************************************)
(* The steps of load.                                                      *)
(***************************************************************************)
LEMMA LoadStart ==
  ASSUME MetaInv, ReadHeader
  PROVE  MetaInv'
<1> PICK c \in Catalogs : c = saved
  BY DEF MetaInv
<1>0. UNCHANGED <<catalog, pages, metaFile, saved>> /\ status = "closed" /\ metaFile # Missing
  BY DEF ReadHeader
<1>1. PartOf(metaFile, c)
  BY <1>0 DEF MetaInv
<1>2. Written(c, 0, 4, "DTBL") /\ Written(c, 4, 4, c.next) /\ Written(c, 8, 4, Len(c.tables))
  BY CatalogLies DEF HoldsHeader, Written
<1>3. InFile(4) => At(0, 4) = "DTBL"
  <2>1. At(0, 4) = IF InFile(0 + 4) THEN "DTBL" ELSE 0
    BY <1>1, <1>2, ReadAt
  <2>2. 0 + 4 = 4
    OBVIOUS
  <2> QED BY <2>1, <2>2
<1>4. InFile(12) => At(4, 4) = c.next /\ At(8, 4) = Len(c.tables)
  <2>1. At(4, 4) = IF InFile(4 + 4) THEN c.next ELSE 0
    BY <1>1, <1>2, ReadAt
  <2>2. At(8, 4) = IF InFile(8 + 4) THEN Len(c.tables) ELSE 0
    BY <1>1, <1>2, ReadAt
  <2>3. InFile(12) => InFile(4 + 4) /\ InFile(8 + 4)
    BY <1>1 DEF InFile, PartOf
  <2> QED BY <2>1, <2>2, <2>3
<1>5. 12 <= serializedSize(c) /\ serializedSize(c) \in Nat
  BY <1>2, WrittenWithin
<1>6. \/ ~InFile(12) /\ Fails("overrun")
      \/ InFile(12) /\ Reads([NotReading EXCEPT !.at = HeaderSize, !.next = At(4, 4), !.tableCount = At(8, 4)])
  <2>1. InFile(12) => InFile(4)
    BY <1>1 DEF InFile, PartOf
  <2> QED BY <1>3, <2>1 DEF ReadHeader
<1>7. CASE ~InFile(12) /\ Fails("overrun")
  <2>1. metaFile.size < serializedSize(c)
    BY <1>1, <1>5, <1>7 DEF InFile, PartOf
  <2> QED BY <1>0, <1>1, <1>7, <2>1 DEF MetaInv, Fails
<1>8. CASE InFile(12) /\ Reads([NotReading EXCEPT !.at = HeaderSize, !.next = At(4, 4), !.tableCount = At(8, 4)])
  <2>1. reading' = [at |-> HeaderSize, next |-> c.next, tableCount |-> Len(c.tables),
                    columnsLeft |-> 0, tables |-> <<>>]
    BY <1>4, <1>8 DEF Reads, NotReading
  <2>2. Len(reading'.tables) = 0 /\ reading'.columnsLeft = 0 /\ reading'.at = HeaderSize
    BY <2>1
  <2>3. TablesPut(c)[0] = PutHeader(c.next, Len(c.tables)) /\ Len(c.tables) \in Nat /\ c.next \in Nat
    BY CatalogFacts, TablesLieThere
  <2>4. TablesPut(c)[0].at = HeaderSize
    BY <2>3, PutHeaderIs
  <2>5. reading' \in Readings
    BY <2>1, <2>3 DEF Readings, HeaderSize
  <2>6. reading'.next = c.next /\ reading'.tableCount = Len(c.tables)
    BY <2>1
  <2>7. Progress(c)'
    BY <2>2, <2>3, <2>4, <2>5, <2>6 DEF Progress, ReadTables
  <2> QED BY <1>0, <1>1, <1>8, <2>7 DEF MetaInv, Reads
<1> QED BY <1>6, <1>7, <1>8

LEMMA NoColumns ==
  ASSUME NEW columns, Len(columns) = 0
  PROVE  ~ValidColumns(columns)
<1>1. ~(Len(columns) \in 1 .. 255)
  OBVIOUS
<1> QED BY <1>1 DEF ValidColumns

LEMMA LoadTable ==
  ASSUME MetaInv, readTable
  PROVE  MetaInv'
<1>p1. PICK c \in Catalogs : c = saved
  BY DEF MetaInv
<1>p2. PICK n : n = Len(reading.tables)
  OBVIOUS
<1>p3. PICK o : o = reading.at
  OBVIOUS
<1>0. /\ UNCHANGED <<catalog, pages, metaFile, saved>>
      /\ status = "loading" /\ reading.columnsLeft = 0 /\ n < reading.tableCount
  BY <1>p2 DEF readTable, TablesLeft
<1>1. PartOf(metaFile, c) /\ metaFile # Missing
  BY <1>p1, <1>0 DEF MetaInv
<1>2. /\ reading \in Readings /\ reading.next = c.next /\ reading.tableCount = Len(c.tables)
      /\ n <= Len(c.tables) /\ ReadTables(c, n) /\ o = TablesPut(c)[n].at
  BY <1>p1, <1>p2, <1>p3, <1>0 DEF MetaInv, Progress
<1>3. n \in Nat /\ n + 1 \in 1 .. Len(c.tables) /\ (n + 1) - 1 = n /\ o \in Nat
      /\ n \in 0 .. Len(c.tables)
  <2>1. n \in Nat /\ o \in Nat
    <3>1. reading.tables \in Seq(Entries) /\ reading.at \in Nat
      BY <1>2 DEF Readings
    <3> QED BY <1>p2, <1>p3, <3>1
  <2>2. Len(c.tables) \in Nat /\ n < Len(c.tables)
    BY <1>0, <1>2, CatalogFacts
  <2> QED BY <2>1, <2>2
<1>p4. PICK table \in Entries : table = c.tables[n + 1]
  BY <1>3, CatalogFacts
<1>p5. PICK length \in Nat : length = NameLength[table.name] /\ length > 0
  BY EntryFacts, NameFacts
<1>p6. PICK count \in Nat : count = Len(table.columns)
  BY EntryFacts
<1>4. HoldsTable(PutCatalog(c).fields, o, table)
  BY <1>p4, <1>2, <1>3, CatalogLies
<1>5. /\ Written(c, o, 4, table.tableId) /\ Written(c, o + 4, 4, table.firstPageId)
      /\ Written(c, o + 8, 4, table.lastPageId) /\ Written(c, o + 12, 1, count)
      /\ HoldsName(PutCatalog(c).fields, o + 16, table.name)
  BY <1>p6, <1>4 DEF HoldsTable, Written
<1> DEFINE end == o + 18 + At(o + 16, 2)
<1>6. /\ InFile(end) <=> InFile(o + 18 + length)
      /\ InFile(end) => At(o + 16, 2) = length /\ NameAt(o + 16) = table.name
      /\ o + 18 + length <= serializedSize(c)
  <2> PICK a \in Nat : a = o + 16
    BY <1>3
  <2>1. /\ InFile(a + 2 + At(a, 2)) <=> InFile(a + 2 + length)
        /\ InFile(a + 2 + At(a, 2)) => At(a, 2) = length /\ NameAt(a) = table.name
        /\ a + 2 + length <= serializedSize(c)
    <3> PICK name \in StoredNames : name = table.name
      BY EntryFacts
    <3>1. HoldsName(PutCatalog(c).fields, a, name)
      BY <1>5
    <3> QED BY ONLY <1>p1, a \in Nat, name \in StoredNames, name = table.name,
                    <1>p5, <1>1, <3>1, ReadName
  <2>2. a + 2 = o + 18
    BY <1>3
  <2> QED BY <2>1, <2>2
<1>7. InFile(o + 13) => /\ At(o, 4) = table.tableId /\ At(o + 4, 4) = table.firstPageId
                        /\ At(o + 8, 4) = table.lastPageId /\ At(o + 12, 1) = count
  <2>1. At(o, 4) = IF InFile(o + 4) THEN table.tableId ELSE 0
    BY <1>1, <1>5, ReadAt
  <2>2. At(o + 4, 4) = IF InFile(o + 4 + 4) THEN table.firstPageId ELSE 0
    BY <1>1, <1>5, ReadAt
  <2>3. At(o + 8, 4) = IF InFile(o + 8 + 4) THEN table.lastPageId ELSE 0
    BY <1>1, <1>5, ReadAt
  <2>4. At(o + 12, 1) = IF InFile(o + 12 + 1) THEN count ELSE 0
    BY <1>1, <1>5, ReadAt
  <2>5. InFile(o + 13) => InFile(o + 4) /\ InFile(o + 4 + 4) /\ InFile(o + 8 + 4) /\ InFile(o + 12 + 1)
    BY <1>1, <1>3 DEF InFile, PartOf
  <2> QED BY <2>1, <2>2, <2>3, <2>4, <2>5
<1>8. metaFile.size \in Nat /\ serializedSize(c) \in Nat
  BY <1>1, WholeFile DEF PartOf
<1>9. o + 18 + length <= serializedSize(c) /\ o + 13 <= serializedSize(c)
  <2>1. o + 18 + length <= serializedSize(c)
    BY <1>6
  <2>2. o \in Nat
    BY <1>3
  <2> QED BY ONLY length \in Nat, <1>8, <2>1, <2>2
<1> DEFINE named == {At(o + 4, 4), At(o + 8, 4)} \cap {0, INVALID_PAGE_ID} = {}
           refused == InFile(o + 13) /\ (~named \/ (InFile(end) /\ At(o + 12, 1) = 0))
           overrun == ~InFile(o + 13) \/ (named /\ ~InFile(end))
<1>10. \/ refused /\ Fails("refused")
       \/ overrun /\ Fails("overrun")
       \/ /\ ~refused /\ ~overrun
          /\ Reads([reading EXCEPT !.at = AlignTo(end, 4), !.columnsLeft = At(o + 12, 1),
                                   !.tables = Append(@, TableAt(o))])
  BY <1>p3 DEF readTable
<1>11. InFile(o + 13) => (named <=> HasPages(table))
  BY <1>7 DEF HasPages
<1>12. CASE refused /\ Fails("refused")
  <2>1. ~HasPages(table) \/ count = 0
    BY <1>7, <1>11, <1>12
  <2>2. ~Accepted(c, n + 1)
    BY <1>p4, <1>p6, <2>1, NoColumns DEF Accepted
  <2>3. ~Sound(c)
    BY <1>3, <2>2, SoundIs
  <2> QED BY <1>p1, <1>0, <1>1, <1>12, <2>3 DEF MetaInv, Fails
<1>13. CASE overrun /\ Fails("overrun")
  <2>1. ~InFile(o + 13) \/ ~InFile(o + 18 + length)
    BY <1>6, <1>13
  <2>2. metaFile.size < serializedSize(c)
    <3>1. o \in Nat
      BY <1>3
    <3> QED BY ONLY length \in Nat, <1>8, <1>9, <2>1, <3>1 DEF InFile
  <2> QED BY <1>p1, <1>0, <1>1, <1>13, <2>2 DEF MetaInv, Fails
<1>14. CASE /\ ~refused /\ ~overrun
            /\ Reads([reading EXCEPT !.at = AlignTo(end, 4), !.columnsLeft = At(o + 12, 1),
                                     !.tables = Append(@, TableAt(o))])
  <2>1. InFile(o + 13) /\ InFile(end) /\ HasPages(table) /\ count # 0
    BY <1>7, <1>11, <1>14
  <2>2. At(o + 16, 2) = length /\ NameAt(o + 16) = table.name /\ At(o + 12, 1) = count
    BY <1>6, <1>7, <2>1
  <2>3. TableAt(o) = Begun(table, 0)
    BY <1>7, <2>1, <2>2, BegunIs DEF TableAt, Begun
  <2>4. Begun(table, 0) \in Entries
    <3>1. 0 \in 0 .. count
      OBVIOUS
    <3> QED BY <3>1, BegunIs
  <2> PICK at : at = AlignTo(o + 18 + length, 4)
    OBVIOUS
  <2> PICK tables : tables = Append(reading.tables, Begun(table, 0))
    OBVIOUS
  <2>5. reading' = [reading EXCEPT !.at = at, !.columnsLeft = count, !.tables = tables]
    BY <1>14, <2>2, <2>3 DEF Reads
  <2>6. /\ reading'.at = at /\ reading'.columnsLeft = count /\ reading'.tables = tables
        /\ reading'.next = c.next /\ reading'.tableCount = Len(c.tables)
    BY <1>2, <2>5 DEF Readings
  <2>7. /\ tables \in Seq(Entries) /\ Len(tables) = n + 1 /\ tables[n + 1] = Begun(table, 0)
        /\ \A k \in 1 .. n : tables[k] = reading.tables[k]
    <3>1. reading.tables \in Seq(Entries)
      BY <1>2 DEF Readings
    <3> QED BY <1>p2, <2>4, <3>1
  <2>8. at = ColumnsPut(TablesPut(c)[n], table)[0].at /\ at \in Nat
    <3>1. Neat(TablesPut(c)[n])
      BY <1>3, TablesLieThere
    <3>2. ColumnsPut(TablesPut(c)[n], table)[0] = PutTableHeader(TablesPut(c)[n], table)
      BY <3>1, ColumnsLieThere
    <3>3. ColumnsPut(TablesPut(c)[n], table)[0].at = at
      BY <1>p5, <1>2, <3>1, <3>2, PutTableHeaderIs
    <3>4. at \in Nat
      <4> PICK e \in Nat : e = o + 18 + length
        BY <1>3
      <4> QED BY AlignAbove
    <3> QED BY <3>3, <3>4
  <2>9. reading' \in Readings
    BY <1>2, <2>5, <2>7, <2>8 DEF Readings
  <2>10. ReadTables(c, n)'
    BY <1>2, <2>6, <2>7 DEF ReadTables
  <2>11. Len(reading'.tables) = n + 1 /\ n + 1 <= Len(c.tables) /\ n + 1 > 0 /\ (n + 1) - 1 = n
    BY <1>3, <2>6, <2>7
  <2>12. ReadTables(c, (n + 1) - 1)'
    BY <2>10, <2>11
  <2>13. /\ Len(c.tables[n + 1].columns) - reading'.columnsLeft = 0 /\ reading'.columnsLeft # 0
         /\ reading'.tables[n + 1] = Begun(c.tables[n + 1], 0) /\ HasPages(c.tables[n + 1])
    BY <1>p4, <1>p6, <2>1, <2>6, <2>7
  <2>14. reading'.at = ColumnsPut(TablesPut(c)[(n + 1) - 1], c.tables[n + 1])[0].at
    BY <1>p4, <2>6, <2>8, <2>11
  <2>15. reading'.next = c.next /\ reading'.tableCount = Len(c.tables)
    BY <2>6
  <2>16. Progress(c)'
    BY ONLY <2>9, <2>11, <2>12, <2>13, <2>14, <2>15 DEF Progress
  <2> QED BY <1>p1, <1>0, <1>1, <1>14, <2>16 DEF MetaInv, Reads
<1> QED BY <1>10, <1>12, <1>13, <1>14

LEMMA LoadColumn ==
  ASSUME MetaInv, readColumn
  PROVE  MetaInv'
<1>p1. PICK c \in Catalogs : c = saved
  BY DEF MetaInv
<1>p2. PICK n : n = Len(reading.tables)
  OBVIOUS
<1>p3. PICK o : o = reading.at
  OBVIOUS
<1>p4. PICK left : left = reading.columnsLeft
  OBVIOUS
<1>0. /\ UNCHANGED <<catalog, pages, metaFile, saved>>
      /\ status = "loading" /\ left > 0
  BY <1>p4 DEF readColumn
<1>1. PartOf(metaFile, c) /\ metaFile # Missing
  BY <1>p1, <1>0 DEF MetaInv
<1>2. Progress(c) /\ reading \in Readings
  BY <1>p1, <1>0 DEF MetaInv, Progress
<1>3. /\ reading.tables \in Seq(Entries) /\ n \in Nat /\ left \in Nat /\ left # 0 /\ o \in Nat
  <2>1. reading.tables \in Seq(Entries) /\ left \in Nat /\ o \in Nat
    BY <1>p3, <1>p4, <1>2 DEF Readings
  <2>2. n \in Nat
    BY <1>p2, <2>1
  <2> QED BY <1>0, <2>1, <2>2
<1>t. o \in Nat
  BY <1>3
<1>p5. PICK table : table = c.tables[n]
  OBVIOUS
<1>p6. PICK count : count = Len(table.columns)
  OBVIOUS
<1>p7. PICK j : j = count - left
  OBVIOUS
<1>4. /\ reading.next = c.next /\ reading.tableCount = Len(c.tables) /\ n <= Len(c.tables)
      /\ n > 0 /\ ReadTables(c, n - 1) /\ HasPages(table) /\ j >= 0
      /\ reading.tables[n] = Begun(table, j)
      /\ o = ColumnsPut(TablesPut(c)[n - 1], table)[j].at
  BY <1>p2, <1>p3, <1>p4, <1>p5, <1>p6, <1>2, <1>3, <1>p7 DEF Progress
<1>5. /\ n \in 1 .. Len(c.tables) /\ n \in 1 .. n /\ n - 1 \in 0 .. Len(c.tables) /\ table \in Entries
      /\ Len(c.tables) \in Nat
  BY <1>p5, <1>3, <1>4, CatalogFacts
<1>6. /\ count \in Nat /\ j \in Nat /\ j \in 0 .. count - 1 /\ j \in 0 .. count
      /\ j + 1 \in 1 .. count /\ j + 1 \in 0 .. count
      /\ (j + 1) - 1 = j /\ left = count - j /\ (left = 1 <=> j + 1 = count)
  <2>1. count \in Nat
    BY <1>p6, <1>5, EntryFacts
  <2>2. left \in Nat /\ left # 0
    BY <1>3
  <2>3. j >= 0
    BY <1>4
  <2> QED BY ONLY <1>p7, <2>1, <2>2, <2>3
<1>7. table.columns \in Seq(StoredColumns)
  BY <1>5, EntryFacts
<1>c. table.columns[j + 1] \in StoredColumns
  <2>1. j + 1 \in 1 .. count
    BY <1>6
  <2> QED BY ONLY count = Len(table.columns), <1>7, <2>1
<1>p8. PICK column \in StoredColumns : column = table.columns[j + 1]
  BY <1>c
<1>p9. PICK name \in StoredNames : name = column.name
  BY ColumnFacts
<1>p10. PICK length \in Nat : length = NameLength[name] /\ length > 0
  BY NameFacts
<1>p11. PICK code : code = logicalTypeCode[column.type]
  OBVIOUS
<1>8. HoldsColumn(PutCatalog(c).fields, o, column)
  <2>1. HoldsColumns(PutCatalog(c).fields, TablesPut(c)[n - 1], table)
    BY <1>p5, <1>5, CatalogLies
  <2> QED BY <1>p6, <1>p8, <1>4, <1>6, <2>1 DEF HoldsColumns
<1>9. /\ Written(c, o, 1, code) /\ Written(c, o + 1, 1, Flags(column))
      /\ Written(c, o + 2, 2, column.stringCapacity)
      /\ HoldsName(PutCatalog(c).fields, o + 4, name)
  BY <1>p9, <1>p11, <1>8 DEF HoldsColumn, Written
<1> DEFINE end == o + 6 + At(o + 4, 2)
<1>10. /\ InFile(end) <=> InFile(o + 6 + length)
       /\ InFile(end) => At(o + 4, 2) = length /\ NameAt(o + 4) = name
       /\ o + 6 + length <= serializedSize(c)
  <2> PICK a : a = o + 4
    OBVIOUS
  <2>a. a \in Nat
    BY ONLY a = o + 4, <1>t
  <2>1. /\ InFile(a + 2 + At(a, 2)) <=> InFile(a + 2 + length)
        /\ InFile(a + 2 + At(a, 2)) => At(a, 2) = length /\ NameAt(a) = name
        /\ a + 2 + length <= serializedSize(c)
    <3>1. HoldsName(PutCatalog(c).fields, a, name)
      BY <1>9
    <3> QED BY ONLY <1>p1, <1>p9, <1>p10, <2>a, <1>1, <3>1, ReadName
  <2>2. a + 2 = o + 6
    BY ONLY a = o + 4, <1>t
  <2> QED BY <2>1, <2>2
<1>11. metaFile.size \in Nat /\ serializedSize(c) \in Nat
  BY <1>1, WholeFile DEF PartOf
<1>12. /\ At(o, 1) = IF InFile(o + 1) THEN code ELSE 0
       /\ At(o + 1, 1) = IF InFile(o + 2) THEN Flags(column) ELSE 0
       /\ At(o + 2, 2) = IF InFile(o + 4) THEN column.stringCapacity ELSE 0
  <2>1. At(o, 1) = IF InFile(o + 1) THEN code ELSE 0
    BY <1>1, <1>9, ReadAt
  <2>2. At(o + 1, 1) = IF InFile(o + 1 + 1) THEN Flags(column) ELSE 0
    BY <1>1, <1>9, ReadAt
  <2>3. At(o + 2, 2) = IF InFile(o + 2 + 2) THEN column.stringCapacity ELSE 0
    BY <1>1, <1>9, ReadAt
  <2>4. o + 1 + 1 = o + 2 /\ o + 2 + 2 = o + 4
    BY ONLY <1>t
  <2> QED BY <2>1, <2>2, <2>3, <2>4
<1>13. InFile(o + 6 + length) => InFile(o + 1) /\ InFile(o + 2) /\ InFile(o + 4)
  BY ONLY length \in Nat, <1>11, <1>t DEF InFile
<1> DEFINE known == At(o, 1) \in {logicalTypeCode[t] : t \in Types}
           malformed == \/ InFile(o + 1) /\ ~known
                        \/ InFile(o + 2) /\ At(o + 1, 1) \div 4 # 0
           read == [reading.tables[n] EXCEPT !.columns = Append(@, ColumnAt(o))]
           last == left = 1
<1>14. ~malformed
  <2>1. InFile(o + 1) => known
    <3>1. column.type \in Types
      BY ColumnFacts
    <3> QED BY <1>p11, <1>12, <3>1
  <2>2. InFile(o + 2) => At(o + 1, 1) \div 4 = 0
    BY <1>12, FlagFacts
  <2> QED BY <2>1, <2>2
<1>15. \/ ~InFile(end) /\ Fails("overrun")
       \/ InFile(end) /\ last /\ ~ValidTable(read) /\ Fails("refused")
       \/ /\ InFile(end) /\ (last => ValidTable(read))
          /\ Reads([reading EXCEPT !.at = AlignTo(AlignTo(end, 4), IF last THEN 8 ELSE 1),
                                   !.columnsLeft = @ - 1,
                                   !.tables[n] = read])
  BY <1>p2, <1>p3, <1>p4, <1>14 DEF readColumn
<1>16. InFile(end) => read = Begun(table, j + 1)
  <2> SUFFICES ASSUME InFile(end) PROVE read = Begun(table, j + 1)
    OBVIOUS
  <2>1. ColumnAt(o) = column
    <3>1. At(o, 1) = code /\ At(o + 1, 1) = Flags(column) /\ At(o + 2, 2) = column.stringCapacity
      BY <1>10, <1>12, <1>13
    <3>2. NameAt(o + 4) = name
      BY <1>10
    <3>3. logicalTypeFromCode(code) = column.type
      BY <1>p11, ColumnFacts, CodeFacts
    <3>4. (Flags(column) % 2 = 1) = column.nullable /\ (Flags(column) \div 2 = 1) = column.primaryKey
      BY FlagFacts, ColumnFacts
    <3>5. ColumnAt(o) = [name |-> column.name, type |-> column.type, nullable |-> column.nullable,
                         primaryKey |-> column.primaryKey, stringCapacity |-> column.stringCapacity]
      BY <1>p9, <3>1, <3>2, <3>3, <3>4 DEF ColumnAt
    <3> QED BY <3>5, ColumnFacts
  <2>2. FirstColumns(table.columns, j + 1) = Append(FirstColumns(table.columns, j), column)
    BY <1>p6, <1>p8, <1>5, <1>6, BegunIs
  <2>3. read = [Begun(table, j) EXCEPT !.columns = Append(@, column)]
    BY <1>4, <2>1
  <2> PICK f : f = FirstColumns(table.columns, j)
    OBVIOUS
  <2> PICK g : g = FirstColumns(table.columns, j + 1)
    OBVIOUS
  <2>4. g = Append(f, column)
    BY <2>2
  <2>5. Begun(table, j) = [tableId |-> table.tableId, name |-> table.name, columns |-> f,
                           firstPageId |-> table.firstPageId, lastPageId |-> table.lastPageId]
    BY DEF Begun
  <2>6. [Begun(table, j) EXCEPT !.columns = Append(@, column)] =
          [tableId |-> table.tableId, name |-> table.name, columns |-> Append(f, column),
           firstPageId |-> table.firstPageId, lastPageId |-> table.lastPageId]
    BY ONLY <2>5
  <2>7. Begun(table, j + 1) = [tableId |-> table.tableId, name |-> table.name, columns |-> g,
                               firstPageId |-> table.firstPageId, lastPageId |-> table.lastPageId]
    BY DEF Begun
  <2> QED BY ONLY <2>3, <2>4, <2>6, <2>7
<1>17. CASE ~InFile(end) /\ Fails("overrun")
  <2>1. ~InFile(o + 6 + length)
    BY <1>10, <1>17
  <2>2. metaFile.size < serializedSize(c)
    <3>1. o \in Nat /\ o + 6 + length <= serializedSize(c)
      BY <1>3, <1>10
    <3> QED BY ONLY length \in Nat, <1>11, <2>1, <3>1 DEF InFile
  <2> QED BY <1>p1, <1>0, <1>1, <1>17, <2>2 DEF MetaInv, Fails
<1>18. last /\ InFile(end) => read = table /\ (ValidTable(read) <=> Accepted(c, n))
  <2> SUFFICES ASSUME last, InFile(end) PROVE read = table /\ (ValidTable(read) <=> Accepted(c, n))
    OBVIOUS
  <2>1. read = table
    BY <1>p6, <1>5, <1>6, <1>16, BegunIs
  <2>2. NoDuplicate(table) <=> \A l \in 1 .. n - 1 : /\ c.tables[l].tableId # table.tableId
                                                    /\ c.tables[l].name # table.name
    BY <1>p2, <1>4 DEF NoDuplicate, ReadTables
  <2>3. ValidTable(table) <=> Accepted(c, n)
    BY <1>p5, <1>4, <2>2 DEF ValidTable, Accepted
  <2> QED BY <2>1, <2>3
<1>19. CASE InFile(end) /\ last /\ ~ValidTable(read) /\ Fails("refused")
  <2>1. ~Sound(c)
    BY <1>5, <1>18, <1>19, SoundIs
  <2> QED BY <1>p1, <1>0, <1>1, <1>19, <2>1 DEF MetaInv, Fails
<1> HIDE DEF end, read, last
<1>20. CASE /\ InFile(end) /\ (last => ValidTable(read))
            /\ Reads([reading EXCEPT !.at = AlignTo(AlignTo(end, 4), IF last THEN 8 ELSE 1),
                                     !.columnsLeft = @ - 1,
                                     !.tables[n] = read])
  <2> PICK at : at = AlignTo(AlignTo(end, 4), IF last THEN 8 ELSE 1)
    OBVIOUS
  <2> PICK tables : tables = [reading.tables EXCEPT ![n] = Begun(table, j + 1)]
    OBVIOUS
  <2>1. read = Begun(table, j + 1)
    BY <1>16, <1>20
  <2>2. reading' = [reading EXCEPT !.at = at, !.columnsLeft = @ - 1, !.tables[n] = read]
    BY <1>20 DEF Reads
  <2>3. /\ reading'.at = at /\ reading'.columnsLeft = left - 1 /\ reading'.tables = tables
        /\ reading'.next = c.next /\ reading'.tableCount = Len(c.tables)
    BY <1>p4, <1>2, <1>4, <2>1, <2>2 DEF Readings
  <2>4. Begun(table, j + 1) \in Entries
    BY <1>p6, <1>5, <1>6, BegunIs
  <2>5. /\ tables \in Seq(Entries) /\ Len(tables) = n /\ tables[n] = Begun(table, j + 1)
        /\ \A k \in 1 .. n - 1 : tables[k] = reading.tables[k]
    <3> PICK b \in Entries : b = Begun(table, j + 1)
      BY <2>4
    <3> PICK s \in Seq(Entries) : s = reading.tables
      BY <1>3
    <3>1. n \in 1 .. Len(s) /\ n \in Nat /\ n = Len(s)
      BY <1>p2, <1>3, <1>5
    <3>2. tables = [s EXCEPT ![n] = b]
      OBVIOUS
    <3>3. /\ tables \in Seq(Entries) /\ Len(tables) = n /\ tables[n] = b
          /\ \A k \in 1 .. n - 1 : tables[k] = s[k]
      BY ONLY b \in Entries, s \in Seq(Entries), <3>1, <3>2
    <3> QED BY <3>3
  <2> PICK acc : acc = TablesPut(c)[n - 1]
    OBVIOUS
  <2> PICK put : put = ColumnsPut(acc, table)
    OBVIOUS
  <2>6. Neat(acc) /\ TablesPut(c)[n] = PutTable(acc, table)
    BY <1>p5, <1>5, TablesLieThere
  <2>7. Neat(put[j + 1]) /\ put[j + 1].at = AfterColumn(put[j].at, column)
    <3>1. /\ \A i \in 0 .. count : Neat(put[i])
          /\ \A i \in 1 .. count : put[i].at = AfterColumn(put[i - 1].at, table.columns[i])
      <4>1. Neat(acc) /\ table \in Entries
        BY <1>5, <2>6
      <4> QED BY ONLY put = ColumnsPut(acc, table), count = Len(table.columns), <4>1, ColumnsLieThere
    <3>2. put[j + 1].at = AfterColumn(put[(j + 1) - 1].at, table.columns[j + 1])
      BY <1>6, <3>1
    <3> QED BY <1>p8, <1>6, <3>1, <3>2
  <2>8. AlignTo(end, 4) = put[j + 1].at /\ put[j + 1].at \in Nat
    <3>1. end = o + 6 + length
      BY <1>10, <1>20 DEF end
    <3>2. AfterColumn(put[j].at, column) = AlignTo(o + 6 + length, 4)
      BY <1>p9, <1>p10, <1>4 DEF AfterColumn
    <3> QED BY <2>7, <3>1, <3>2 DEF Neat
  <2>9. last => at = TablesPut(c)[n].at
    <3> SUFFICES ASSUME last PROVE at = TablesPut(c)[n].at
      OBVIOUS
    <3>1. at = AlignTo(put[count].at, 8)
      BY <1>6, <2>8 DEF last
    <3>2. TablesPut(c)[n].at = AlignTo(put[count].at, 8)
      <4>1. PutTable(acc, table).at = AlignTo(ColumnsPut(acc, table)[Len(table.columns)].at, 8)
        <5>1. Neat(acc) /\ table \in Entries
          BY <1>5, <2>6
        <5> QED BY ONLY <5>1, PutTableIs
      <4> QED BY <1>p6, <2>6, <4>1
    <3> QED BY <3>1, <3>2
  <2>10. ~last => at = put[j + 1].at
    <3>1. \A x \in Nat : AlignTo(x, 1) = x
      BY ONLY DEF AlignTo
    <3> QED BY <2>8, <3>1
  <2>11. at \in Nat
    <3>1. last => AlignTo(AlignTo(end, 4), 8) \in Nat
      BY <2>8, AlignAbove
    <3> QED BY <2>8, <2>10, <3>1
  <2>12. reading' \in Readings
    <3>1. left - 1 \in Nat
      <4>1. left \in Nat /\ left # 0
        BY <1>3
      <4> QED BY ONLY <4>1
    <3> QED BY <1>2, <2>1, <2>2, <2>3, <2>5, <2>11, <3>1 DEF Readings
  <2>13. ReadTables(c, n - 1)'
    BY <1>4, <2>3, <2>5 DEF ReadTables
  <2>14. ASSUME last PROVE Progress(c)'
    <3>1. reading'.columnsLeft = 0
      BY <2>3, <2>14 DEF last
    <3>2. tables[n] = c.tables[n] /\ Accepted(c, n)
      BY <1>p5, <1>18, <1>20, <2>1, <2>5, <2>14
    <3>3. ReadTables(c, n)'
      <4>0. n \in Nat
        BY <1>3
      <4>1. \A k \in 1 .. n : k \in 1 .. n - 1 \/ k = n
        BY ONLY <4>0
      <4> QED BY <2>3, <2>13, <3>2, <4>1 DEF ReadTables
    <3> QED BY <1>4, <2>3, <2>5, <2>9, <2>12, <2>14, <3>1, <3>3 DEF Progress
  <2>15. ASSUME ~last PROVE Progress(c)'
    <3>1. reading'.columnsLeft # 0 /\ count - (left - 1) = j + 1 /\ j + 1 >= 0
      <4>1. left \in Nat /\ left # 0 /\ left # 1
        BY <1>3, <2>15 DEF last
      <4>2. count \in Nat /\ j \in Nat /\ left = count - j
        BY <1>6
      <4>3. left - 1 # 0 /\ count - (left - 1) = j + 1 /\ j + 1 >= 0
        BY ONLY <4>1, <4>2
      <4> QED BY <2>3, <4>3
    <3>2. reading'.at = ColumnsPut(TablesPut(c)[n - 1], c.tables[n])[j + 1].at
      BY <1>p5, <2>3, <2>10, <2>15
    <3>3. /\ Len(reading'.tables) = n /\ reading'.next = c.next
          /\ reading'.tableCount = Len(c.tables) /\ n <= Len(c.tables)
          /\ n > 0 /\ HasPages(c.tables[n])
      BY <1>p5, <1>4, <2>3, <2>5
    <3>4. /\ Len(c.tables[n].columns) - reading'.columnsLeft = j + 1
          /\ reading'.tables[n] = Begun(c.tables[n], j + 1)
      BY <1>p5, <1>p6, <2>3, <2>5, <3>1
    <3> QED BY ONLY <2>12, <2>13, <3>1, <3>2, <3>3, <3>4 DEF Progress
  <2>16. Progress(c)'
    BY <2>14, <2>15
  <2> QED BY <1>p1, <1>0, <1>1, <1>20, <2>16 DEF MetaInv, Reads
<1> QED BY <1>15, <1>17, <1>19, <1>20 DEF last, read, end

LEMMA LoadEnds ==
  ASSUME MetaInv, FinishLoad
  PROVE  MetaInv'
<1> PICK c \in Catalogs : c = saved
  BY DEF MetaInv
<1>0. UNCHANGED <<pages, metaFile, saved>> /\ status = "loading" /\ reading.columnsLeft = 0 /\ ~TablesLeft
  BY DEF FinishLoad
<1>1. PartOf(metaFile, c) /\ metaFile # Missing /\ Progress(c) /\ pages \in Nat
  BY <1>0 DEF MetaInv
<1> PICK n \in Nat : n = Len(c.tables)
  BY CatalogFacts
<1>2. reading.tables \in Seq(Entries)
  BY <1>1 DEF Progress, Readings
<1>3. /\ reading.next = c.next /\ reading.tableCount = n /\ Len(reading.tables) <= n
      /\ ReadTables(c, Len(reading.tables))
  BY <1>0, <1>1 DEF Progress
<1>4. Len(reading.tables) = n
  <2>1. Len(reading.tables) \in Nat /\ ~(Len(reading.tables) < n)
    BY <1>0, <1>2, <1>3 DEF TablesLeft
  <2> QED BY <1>3, <2>1
<1>5. reading.tables = c.tables
  <2>1. \A k \in 1 .. n : reading.tables[k] = c.tables[k]
    BY <1>3, <1>4 DEF ReadTables
  <2>2. c.tables \in Seq(Entries)
    BY CatalogFacts
  <2> QED BY <1>2, <1>4, <2>1, <2>2
<1>6. \A k \in 1 .. n : Accepted(c, k) /\ c.tables[k].tableId \in Nat
  BY <1>3, <1>4, CatalogFacts, EntryFacts DEF ReadTables
<1>7. c = [tables |-> c.tables, next |-> c.next] /\ c.next \in Nat
  BY DEF Catalogs
<1> DEFINE ids == {reading.tables[t].tableId : t \in DOMAIN reading.tables}
           refused == \E id \in {0} \cup ids : reading.next <= id
<1>8. refused <=> ~Sound(c)
  <2>1. DOMAIN reading.tables = 1 .. n
    BY <1>2, <1>4
  <2>2. refused <=> c.next <= 0 \/ \E k \in 1 .. n : c.next <= c.tables[k].tableId
    BY <1>3, <1>5, <2>1
  <2>3. Sound(c) <=> c.next > 0 /\ \A k \in 1 .. n : c.tables[k].tableId < c.next
    BY <1>6, SoundIs
  <2> QED BY <1>6, <1>7, <2>2, <2>3
<1>9. \/ refused /\ Fails("refused") /\ UNCHANGED catalog
      \/ ~refused /\ tablesMetadata_' = c.tables /\ nextTableId_' = c.next /\ status' = "open"
  BY <1>3, <1>5 DEF FinishLoad
<1> HIDE DEF refused
<1>10. CASE refused /\ Fails("refused") /\ UNCHANGED catalog
  BY <1>0, <1>1, <1>8, <1>10 DEF MetaInv, Fails
<1>11. CASE ~refused /\ tablesMetadata_' = c.tables /\ nextTableId_' = c.next /\ status' = "open"
  BY <1>0, <1>1, <1>7, <1>8, <1>11 DEF MetaInv
<1> QED BY <1>9, <1>10, <1>11
-----------------------------------------------------------------------------
(***************************************************************************)
(* The steps that write the file.                                          *)
(***************************************************************************)
LEMMA Saving ==
  ASSUME TablesMetaAssumption, MetaInv, status = "open", NEW tables, NEW next, Save(tables, next),
         [tables |-> tables, next |-> next] \in Catalogs, Sound([tables |-> tables, next |-> next]),
         pages' \in Nat
  PROVE  MetaInv'
<1> PICK c \in Catalogs : c = [tables |-> tables, next |-> next]
  OBVIOUS
<1>1. saved' = c /\ UNCHANGED reading
  BY DEF Save
<1>2. \/ metaFile' = Serialized(c) /\ tablesMetadata_' = tables /\ nextTableId_' = next /\ UNCHANGED status
      \/ metaFile' \in Unfinished(Serialized(c)) /\ status' = "closed"
  BY <1>1 DEF Save
<1>3. CASE metaFile' = Serialized(c) /\ tablesMetadata_' = tables /\ nextTableId_' = next /\ UNCHANGED status
  <2>1. PartOf(metaFile', c) /\ metaFile' # Missing
    BY <1>3, WholeFile, NotMissing
  <2> QED BY <1>1, <1>3, <2>1 DEF MetaInv
<1>4. CASE metaFile' \in Unfinished(Serialized(c)) /\ status' = "closed"
  <2>1. PartOf(metaFile', c) /\ metaFile' # Missing
    BY <1>4, CutFile, NotMissing
  <2> QED BY <1>1, <1>4, <2>1 DEF MetaInv
<1> QED BY <1>2, <1>3, <1>4

LEMMA StoredColumnLists ==
  ASSUME TablesMetaAssumption, NEW columns \in ColumnLists, ValidColumns(columns)
  PROVE  columns \in Seq(StoredColumns) /\ Len(columns) <= 255
<1>1. columns \in Seq(Columns)
  BY DEF TablesMetaAssumption
<1>2. \A i \in DOMAIN columns : ValidName(columns[i].name)
  BY DEF ValidColumns
<1>3. \A i \in 1 .. Len(columns) : columns[i] \in StoredColumns
  <2> SUFFICES ASSUME NEW i \in 1 .. Len(columns) PROVE columns[i] \in StoredColumns
    OBVIOUS
  <2>1. i \in DOMAIN columns /\ columns[i] \in Columns
    BY <1>1
  <2> PICK column \in Columns : column = columns[i]
    BY <2>1
  <2>2. column.name \in Names
    BY DEF Columns
  <2>3. column.name \in StoredNames
    BY <1>2, <2>1, <2>2 DEF StoredNames
  <2> QED BY <2>3 DEF StoredColumns
<1>4. columns \in Seq(StoredColumns)
  BY <1>1, <1>3
<1>5. Len(columns) <= 255
  <2> PICK limit \in Nat : limit = 255
    OBVIOUS
  <2>1. Len(columns) \in 1 .. limit
    BY DEF ValidColumns
  <2>2. Len(columns) <= limit
    BY ONLY limit \in Nat, <2>1
  <2> QED BY ONLY limit = 255, <2>2
<1> QED BY <1>4, <1>5

LEMMA Created ==
  ASSUME TablesMetaAssumption, MetaInv, NEW n \in Names, NEW columns \in ColumnLists,
         createTable(n, columns)
  PROVE  MetaInv'
<1>0. /\ status = "open" /\ pages < MaxPages /\ ValidName(n) /\ ValidColumns(columns)
      /\ \A t \in DOMAIN tablesMetadata_ : tablesMetadata_[t].name # n
      /\ pages' = pages + 1
  BY DEF createTable
<1> PICK c \in Catalogs : c = saved
  BY DEF MetaInv
<1>1. Sound(c) /\ tablesMetadata_ = c.tables /\ nextTableId_ = c.next
  BY <1>0 DEF MetaInv
<1> PICK count \in Nat : count = Len(c.tables)
  BY CatalogFacts
<1> PICK page : page = pages + 1
  OBVIOUS
<1>2. page \in 1 .. INVALID_PAGE_ID - 1 /\ pages + 1 \in Nat
  <2>1. pages \in Nat /\ MaxPages \in 0 .. INVALID_PAGE_ID - 1
    BY DEF MetaInv, TablesMetaAssumption
  <2> QED BY <1>0, <2>1, LastId
<1> PICK table : table = [tableId |-> nextTableId_, name |-> n, columns |-> columns,
                          firstPageId |-> page, lastPageId |-> page]
  OBVIOUS
<1>3. /\ table.tableId = c.next /\ table.name = n /\ table.columns = columns
      /\ table.firstPageId = page /\ table.lastPageId = page
  BY <1>1
<1>4. table \in Entries
  <2>1. columns \in Seq(StoredColumns) /\ Len(columns) <= 255
    BY <1>0, StoredColumnLists
  <2>2. n \in StoredNames
    BY <1>0 DEF StoredNames
  <2>3. c.next \in Nat /\ page \in 0 .. INVALID_PAGE_ID
    BY <1>2, CatalogFacts, LastId
  <2>4. table \in [tableId : Nat, name : StoredNames, columns : Seq(StoredColumns),
                   firstPageId : 0 .. INVALID_PAGE_ID, lastPageId : 0 .. INVALID_PAGE_ID]
    BY <1>1, <2>1, <2>2, <2>3
  <2>5. Len(table.columns) <= 255
    BY <1>3, <2>1
  <2> QED BY <2>4, <2>5 DEF Entries
<1> PICK tables : tables = Append(c.tables, table)
  OBVIOUS
<1>5. /\ tables \in Seq(Entries) /\ Len(tables) = count + 1 /\ tables[count + 1] = table
      /\ \A k \in 1 .. count : tables[k] = c.tables[k]
  <2> PICK s \in Seq(Entries) : s = c.tables
    BY CatalogFacts
  <2>1. Len(s) = count /\ tables = Append(s, table)
    OBVIOUS
  <2> QED BY ONLY s \in Seq(Entries), s = c.tables, count \in Nat, <1>4, <2>1
<1> PICK d : d = [tables |-> tables, next |-> c.next + 1]
  OBVIOUS
<1>6. d.tables = tables /\ d.next = c.next + 1 /\ d.next > 0 /\ d.next \in Nat
  BY CatalogFacts
<1>7. d \in Catalogs
  BY <1>5, <1>6 DEF Catalogs
<1>8. c.next \in Nat /\ \A k \in 1 .. count :
        /\ c.tables[k] \in Entries /\ c.tables[k].tableId < c.next /\ Accepted(c, k)
        /\ c.tables[k].tableId \in Nat /\ c.tables[k].name # n
  <2>1. \A k \in 1 .. count : c.tables[k].tableId < c.next /\ Accepted(c, k)
    BY <1>1, SoundIs
  <2>2. c.next \in Nat /\ \A k \in 1 .. count : c.tables[k] \in Entries /\ c.tables[k].name # n
    BY <1>0, <1>1, CatalogFacts
  <2> QED BY <2>1, <2>2, EntryFacts
<1>9. ASSUME NEW k \in 1 .. count + 1 PROVE d.tables[k].tableId < d.next /\ Accepted(d, k)
  <2>1. CASE k \in 1 .. count
    <3>1. d.tables[k] = c.tables[k] /\ \A l \in 1 .. k - 1 : d.tables[l] = c.tables[l]
      BY <1>5, <1>6, <2>1
    <3>2. d.tables[k].tableId < d.next
      BY <1>6, <1>8, <2>1, <3>1
    <3>3. Accepted(c, k)
      BY <1>8, <2>1
    <3> QED BY <3>1, <3>2, <3>3 DEF Accepted
  <2>2. CASE k = count + 1
    <3>1. d.tables[k] = table /\ \A l \in 1 .. k - 1 : l \in 1 .. count /\ d.tables[l] = c.tables[l]
      BY <1>5, <1>6, <2>2
    <3>2. HasPages(table) /\ ValidColumns(table.columns)
      BY <1>0, <1>2, <1>3, <1>4, PagesAre
    <3>3. \A l \in 1 .. k - 1 : d.tables[l].tableId # table.tableId /\ d.tables[l].name # table.name
      BY <1>3, <1>8, <3>1
    <3>4. table.tableId < d.next
      BY <1>3, <1>6, <1>8
    <3> QED BY <3>1, <3>2, <3>3, <3>4 DEF Accepted
  <2> QED BY <2>1, <2>2
<1>10. Sound(d)
  BY <1>5, <1>6, <1>7, <1>9, SoundIs
<1>11. Save(tables, c.next + 1)
  BY <1>1 DEF createTable
<1>12. pages' \in Nat
  BY <1>0, <1>2
<1> QED BY <1>0, <1>7, <1>10, <1>11, <1>12, Saving

LEMMA Grown ==
  ASSUME TablesMetaAssumption, MetaInv, NEW t \in DOMAIN tablesMetadata_, GrowTable(t)
  PROVE  MetaInv'
<1>0. status = "open" /\ pages < MaxPages /\ pages' = pages + 1
  BY DEF GrowTable
<1> PICK c \in Catalogs : c = saved
  BY DEF MetaInv
<1>1. Sound(c) /\ tablesMetadata_ = c.tables /\ nextTableId_ = c.next
  BY <1>0 DEF MetaInv
<1> PICK count \in Nat : count = Len(c.tables)
  BY CatalogFacts
<1> PICK page : page = pages + 1
  OBVIOUS
<1>2. page \in 1 .. INVALID_PAGE_ID - 1 /\ pages + 1 \in Nat
  <2>1. pages \in Nat /\ MaxPages \in 0 .. INVALID_PAGE_ID - 1
    BY DEF MetaInv, TablesMetaAssumption
  <2> QED BY <1>0, <2>1, LastId
<1>3. t \in 1 .. count
  BY <1>1, CatalogFacts
<1> PICK old \in Entries : old = c.tables[t]
  BY <1>3, CatalogFacts
<1> PICK table : table = [tableId |-> old.tableId, name |-> old.name, columns |-> old.columns,
                          firstPageId |-> old.firstPageId, lastPageId |-> page]
  OBVIOUS
<1>4. /\ table.tableId = old.tableId /\ table.name = old.name /\ table.columns = old.columns
      /\ table.firstPageId = old.firstPageId /\ table.lastPageId = page
  OBVIOUS
<1>5. table \in Entries
  <2>1. /\ old.tableId \in Nat /\ old.name \in StoredNames /\ old.columns \in Seq(StoredColumns)
        /\ old.firstPageId \in 0 .. INVALID_PAGE_ID /\ Len(old.columns) <= 255
    BY EntryFacts
  <2>2. page \in 0 .. INVALID_PAGE_ID
    BY <1>2, LastId
  <2>3. table \in [tableId : Nat, name : StoredNames, columns : Seq(StoredColumns),
                   firstPageId : 0 .. INVALID_PAGE_ID, lastPageId : 0 .. INVALID_PAGE_ID]
    BY <2>1, <2>2
  <2>4. Len(table.columns) <= 255
    BY <1>4, <2>1
  <2> QED BY <2>3, <2>4 DEF Entries
<1> PICK tables : tables = [c.tables EXCEPT ![t] = table]
  OBVIOUS
<1>6. /\ tables \in Seq(Entries) /\ Len(tables) = count /\ tables[t] = table
      /\ \A k \in 1 .. count : k # t => tables[k] = c.tables[k]
  <2> PICK s \in Seq(Entries) : s = c.tables
    BY CatalogFacts
  <2>1. Len(s) = count /\ tables = [s EXCEPT ![t] = table]
    OBVIOUS
  <2> QED BY ONLY s \in Seq(Entries), s = c.tables, count \in Nat, <1>3, <1>5, <2>1
<1>7. [tablesMetadata_ EXCEPT ![t].lastPageId = pages + 1] = tables
  <2>1. [old EXCEPT !.lastPageId = page] = table
    <3> PICK r : r = old
      OBVIOUS
    <3>1. r = [tableId |-> r.tableId, name |-> r.name, columns |-> r.columns,
               firstPageId |-> r.firstPageId, lastPageId |-> r.lastPageId]
      BY EntryIs
    <3> QED BY <3>1
  <2>2. [tablesMetadata_ EXCEPT ![t].lastPageId = pages + 1] =
          [c.tables EXCEPT ![t] = [old EXCEPT !.lastPageId = page]]
    BY <1>1
  <2> QED BY <2>1, <2>2
<1> PICK d : d = [tables |-> tables, next |-> c.next]
  OBVIOUS
<1>8. d.tables = tables /\ d.next = c.next /\ c.next \in Nat
  BY CatalogFacts
<1>9. d \in Catalogs
  BY <1>6, <1>8 DEF Catalogs
<1>10. c.next > 0 /\ \A k \in 1 .. count : c.tables[k].tableId < c.next /\ Accepted(c, k)
  BY <1>1, SoundIs
<1>11. \A k \in 1 .. count : /\ tables[k].tableId = c.tables[k].tableId
                            /\ tables[k].name = c.tables[k].name
                            /\ tables[k].columns = c.tables[k].columns
  BY <1>4, <1>6
<1>12. \A k \in 1 .. count : HasPages(tables[k])
  <2>1. HasPages(old)
    BY <1>3, <1>10 DEF Accepted
  <2>2. HasPages(table)
    BY <1>2, <1>4, <1>5, <2>1, PagesAre
  <2> QED BY <1>6, <1>10, <2>2 DEF Accepted
<1>13. ASSUME NEW k \in 1 .. count PROVE d.tables[k].tableId < d.next /\ Accepted(d, k)
  <2>1. c.tables[k].tableId < c.next /\ Accepted(c, k)
    BY <1>10
  <2>2. \A l \in 1 .. k - 1 : l \in 1 .. count
    OBVIOUS
  <2>3. HasPages(tables[k]) /\ ValidColumns(tables[k].columns)
    BY <1>11, <1>12, <2>1 DEF Accepted
  <2>4. \A l \in 1 .. k - 1 : tables[l].tableId # tables[k].tableId /\ tables[l].name # tables[k].name
    BY <1>11, <2>1, <2>2 DEF Accepted
  <2> QED BY <1>8, <1>11, <2>1, <2>3, <2>4 DEF Accepted
<1>14. Sound(d)
  BY <1>6, <1>8, <1>9, <1>10, <1>13, SoundIs
<1>15. Save(tables, c.next)
  BY <1>1, <1>7 DEF GrowTable
<1>16. pages' \in Nat
  BY <1>0, <1>2
<1> QED BY <1>0, <1>9, <1>14, <1>15, <1>16, Saving

LEMMA FileStarted ==
  ASSUME TablesMetaAssumption, MetaInv, InitMetaFile
  PROVE  MetaInv'
<1>0. /\ status = "closed" /\ metaFile = Missing
      /\ metaFile' \in {InitialFile} \cup Unfinished(InitialFile)
      /\ UNCHANGED <<catalog, pages, status, reading, saved>>
  BY DEF InitMetaFile
<1>1. saved = EmptyCatalog /\ saved \in Catalogs
  BY <1>0 DEF MetaInv
<1>2. PartOf(metaFile', saved) /\ metaFile' # Missing
  BY <1>0, <1>1, EmptyFile, WholeFile, CutFile, NotMissing
<1> QED BY <1>0, <1>2 DEF MetaInv

LEMMA MetaStep ==
  ASSUME TablesMetaAssumption, MetaInv, [Next]_vars
  PROVE  MetaInv'
<1>1. ASSUME NEW n \in Names, NEW columns \in ColumnLists, createTable(n, columns) PROVE MetaInv'
  BY <1>1, Created
<1>2. ASSUME NEW t \in DOMAIN tablesMetadata_, GrowTable(t) PROVE MetaInv'
  BY <1>2, Grown
<1>3. CASE InitMetaFile
  BY <1>3, FileStarted
<1>4. CASE Close
  BY <1>4 DEF Close, MetaInv
<1>5. CASE ReadHeader
  BY <1>5, LoadStart
<1>6. CASE readTable
  BY <1>6, LoadTable
<1>7. CASE readColumn
  BY <1>7, LoadColumn
<1>8. CASE FinishLoad
  BY <1>8, LoadEnds
<1>9. CASE UNCHANGED vars
  <2>1. saved' = saved /\ pages' = pages /\ metaFile' = metaFile /\ status' = status
        /\ reading' = reading /\ tablesMetadata_' = tablesMetadata_ /\ nextTableId_' = nextTableId_
    BY <1>9 DEF vars, catalog
  <2>2. \A c : Progress(c) => Progress(c)'
    BY <2>1 DEF Progress, ReadTables
  <2> QED BY <2>1, <2>2 DEF MetaInv
<1> QED BY <1>1, <1>2, <1>3, <1>4, <1>5, <1>6, <1>7, <1>8, <1>9 DEF Next

LEMMA MetaInvHolds == OwnFiles => (Spec => []MetaInv)
<1> SUFFICES ASSUME OwnFiles PROVE Spec => []MetaInv
  OBVIOUS
<1>1. Init => MetaInv
  BY MetaInit
<1>2. MetaInv /\ [Next]_vars => MetaInv'
  BY MetaStep, TablesMetaAssumption
<1> QED BY <1>1, <1>2, PTL DEF Spec
-----------------------------------------------------------------------------
(***************************************************************************)
(* Where every file that a start finds is one that save wrote, load reads  *)
(* a whole file back exactly if the catalog in it is sound, whatever the   *)
(* names, the columns, and the number of tables.                           *)
(***************************************************************************)
THEOREM WholeFilesAlwaysLoad == OwnFiles => (Spec => []SoundLoads)
<1> SUFFICES ASSUME OwnFiles PROVE Spec => []SoundLoads
  OBVIOUS
<1>1. MetaInv => SoundLoads
  <2> SUFFICES ASSUME MetaInv, Whole, status \notin {"closed", "loading"}
               PROVE  status = IF Sound(saved) THEN "open" ELSE "refused"
    BY DEF SoundLoads
  <2>1. status # "overrun"
    <3>1. metaFile.size = serializedSize(saved) /\ serializedSize(saved) \in Nat
      BY WholeFile DEF Whole, MetaInv
    <3> QED BY <3>1 DEF MetaInv
  <2> QED BY <2>1 DEF MetaInv
<1> QED BY <1>1, MetaInvHolds, PTL

(***************************************************************************)
(* No field of tables.meta ever lies over another or beyond the bytes that *)
(* serializedSize counted.                                                 *)
(***************************************************************************)
THEOREM FieldsAlwaysApart == OwnFiles => (Spec => []FieldsApart)
<1> SUFFICES ASSUME OwnFiles PROVE Spec => []FieldsApart
  OBVIOUS
<1>1. MetaInv => FieldsApart
  <2> SUFFICES ASSUME MetaInv, metaFile # Missing
               PROVE  Within(metaFile.fields, metaFile.size) /\ Apart(metaFile.fields)
    BY DEF FieldsApart, Within, Apart
  <2>1. saved \in Catalogs /\ PartOf(metaFile, saved)
    BY DEF MetaInv
  <2> QED BY <2>1, PartNeat
<1> QED BY <1>1, MetaInvHolds, PTL

(***************************************************************************)
(* Wherever an unfinished save has cut the file, load never takes what is  *)
(* left for a catalog other than the one that was being saved.             *)
(***************************************************************************)
THEOREM CutNeverMisleads == OwnFiles => (Spec => []CutIsNoCatalog)
<1> SUFFICES ASSUME OwnFiles PROVE Spec => []CutIsNoCatalog
  OBVIOUS
<1>1. MetaInv => CutIsNoCatalog
  BY DEF MetaInv, CutIsNoCatalog
<1> QED BY <1>1, MetaInvHolds, PTL
==============================================================================
