------------------------------ MODULE TablesMeta ------------------------------
(***************************************************************************)
(* The bytes of tables.meta (src/catalog/TableManager.cpp): what save      *)
(* writes, what load makes of it and of a file that was cut short, and the *)
(* limits of names and columns on which both rely (src/record/Schema.cpp). *)
(*                                                                         *)
(* A file is its size and the fields in it, by their offsets: numbers of   *)
(* 1, 2 or 4 bytes, and names.  Other bytes are zero.  A read that passes  *)
(* the end of the file leaves the vector that holds it; nothing is known   *)
(* of what follows.                                                        *)
(***************************************************************************)
EXTENDS RowLayout

CONSTANTS
  NameLength,       \* the names that clients try, with their lengths
  ColumnLists,      \* the column lists that clients try
  MaxTables,        \* bound on tables
  MaxPages,         \* bound on the pages they use
  Cuts,             \* how many bytes an unfinished save may leave or omit
  Found             \* the files to start from, each with the catalog in it

UINT16_MAX == 65535

Names == DOMAIN NameLength
Columns == [name : Names, type : Types, nullable : BOOLEAN, primaryKey : BOOLEAN,
            stringCapacity : 0 .. UINT16_MAX]
Missing == [size |-> -1, fields |-> <<>>]       \* no file
INVALID_PAGE_ID == 2147483647

ASSUME TablesMetaAssumption ==
  /\ \A n \in Names : NameLength[n] \in Nat
  /\ ColumnLists \subseteq Seq(Columns)
  /\ MaxTables \in Nat /\ MaxPages \in 0 .. INVALID_PAGE_ID - 1
  /\ Cuts \subseteq Nat

VARIABLES
  tablesMetadata_, nextTableId_,
  pages,            \* pages of the page file
  metaFile,         \* tables.meta
  status,           \* closed, loading, open; or how load has failed
  reading,          \* what load has read, and the offset it has come to
  saved             \* the catalog that the last save was given

catalog == <<tablesMetadata_, nextTableId_>>
vars == <<catalog, pages, metaFile, status, reading, saved>>
-----------------------------------------------------------------------------
(***************************************************************************)
(* Schema::create and createTable accept what the file has room for.       *)
(***************************************************************************)
LimitForgotten(n) == NameLength[n] > 0         \* mutant: any length
ValidName(n) == NameLength[n] \in 1 .. UINT16_MAX

ValidColumns(columns) ==
  /\ Len(columns) \in 1 .. 255
  /\ \A i \in DOMAIN columns :
       /\ ValidName(columns[i].name)
       /\ columns[i].primaryKey => ~columns[i].nullable
       /\ (columns[i].type = "String") <=> (columns[i].stringCapacity # 0)
  /\ \A i \in DOMAIN columns : \A j \in 1 .. i - 1 :
       /\ columns[i].name # columns[j].name
       /\ ~(columns[i].primaryKey /\ columns[j].primaryKey)

logicalTypeCode == [Boolean |-> 1, Byte |-> 2, Int32 |-> 3,
                    Int64 |-> 4, Double |-> 5, String |-> 6]
logicalTypeFromCode(code) == CHOOSE t \in Types : logicalTypeCode[t] = code
-----------------------------------------------------------------------------
(***************************************************************************)
(* save: the fields written so far, and the offset it has come to.         *)
(***************************************************************************)
PutBytes(acc, width, v) ==
  LET written == IF width = 0 THEN {} ELSE {acc.at}
  IN  [at |-> acc.at + width,
       fields |-> [o \in DOMAIN acc.fields \cup written |->
                     IF o \in written THEN [width |-> width, value |-> v] ELSE acc.fields[o]]]
Put(acc, width, v) ==
  PutBytes(acc, width, CASE width = 1 -> v % 256 [] width = 2 -> v % 65536 [] width = 4 -> v)
Skip(acc, n) == [at |-> acc.at + n, fields |-> acc.fields]
Align(acc, alignment) == [at |-> AlignTo(acc.at, alignment), fields |-> acc.fields]

PutName(acc, n) == Align(PutBytes(Put(acc, 2, NameLength[n]), NameLength[n], n), 4)

Flags(column) == (IF column.nullable THEN 1 ELSE 0) + (IF column.primaryKey THEN 2 ELSE 0)
PutColumn(acc, column) ==
  LET code == Put(acc, 1, logicalTypeCode[column.type])
  IN  PutName(Put(Put(code, 1, Flags(column)), 2, column.stringCapacity), column.name)

PutTableHeader(acc, table) ==
  LET ids == Put(Put(Put(acc, 4, table.tableId), 4, table.firstPageId), 4, table.lastPageId)
  IN  PutName(Skip(Put(ids, 1, Len(table.columns)), 3), table.name)

PutTable(acc, table) ==
  LET put[j \in 0 .. Len(table.columns)] == IF j = 0 THEN PutTableHeader(acc, table)
                                                     ELSE PutColumn(put[j - 1], table.columns[j])
  IN  Align(put[Len(table.columns)], 8)

PutHeader(next, tableCount) ==
  LET magic == PutBytes([at |-> 0, fields |-> <<>>], 4, "DTBL")
  IN  Skip(Put(Put(magic, 4, next), 4, tableCount), 4)

PutCatalog(c) ==
  LET put[i \in 0 .. Len(c.tables)] == IF i = 0 THEN PutHeader(c.next, Len(c.tables))
                                                ELSE PutTable(put[i - 1], c.tables[i])
  IN  put[Len(c.tables)]

HeaderSize == 16
NameNotAligned(table) == 18 + NameLength[table.name]   \* mutant: no padding after it
TableHeaderSize(table) == AlignTo(18 + NameLength[table.name], 4)

AfterTableHeader(at, table) == at + TableHeaderSize(table)
AfterColumn(at, column) == AlignTo(at + 6 + NameLength[column.name], 4)
AfterTable(at, table) ==
  LET size[j \in 0 .. Len(table.columns)] == IF j = 0 THEN AfterTableHeader(at, table)
                                                      ELSE AfterColumn(size[j - 1], table.columns[j])
  IN  AlignTo(size[Len(table.columns)], 8)
serializedSize(c) ==
  LET size[i \in 0 .. Len(c.tables)] == IF i = 0 THEN HeaderSize
                                                 ELSE AfterTable(size[i - 1], c.tables[i])
  IN  size[Len(c.tables)]

Serialized(c) == [size |-> serializedSize(c), fields |-> PutCatalog(c).fields]

InitialFile == [size |-> HeaderSize, fields |-> PutHeader(1, 0).fields]

Prefix(file, n) ==
  LET whole == {o \in DOMAIN file.fields : o + file.fields[o].width <= n}
  IN  [size |-> n, fields |-> [o \in whole |-> file.fields[o]]]

CutSizes(file) ==
  {n \in Cuts \cup {file.size - k : k \in Cuts} : 0 <= n /\ n < file.size}
Unfinished(file) == {Prefix(file, n) : n \in CutSizes(file)}
-----------------------------------------------------------------------------
NotReading == [at |-> 0, next |-> 1, tableCount |-> 0, columnsLeft |-> 0, tables |-> <<>>]

Init == /\ tablesMetadata_ = <<>> /\ nextTableId_ = 1
        /\ pages = 0
        /\ \E f \in Found : metaFile = f.file /\ saved = f.catalog
        /\ status = "closed" /\ reading = NotReading

(***************************************************************************)
(* A save that writes the whole file; or the process dies before it has.   *)
(* (A save that reports its failure is a step of TableManager.)            *)
(***************************************************************************)
Save(tables, next) ==
  /\ saved' = [tables |-> tables, next |-> next]
  /\ \E file \in {Serialized(saved')} :
       \/ /\ metaFile' = file
          /\ tablesMetadata_' = tables /\ nextTableId_' = next
          /\ UNCHANGED status
       \/ /\ metaFile' \in Unfinished(file)
          /\ status' = "closed"
          /\ UNCHANGED catalog
  /\ UNCHANGED reading

createTable(n, columns) ==
  /\ status = "open"
  /\ Len(tablesMetadata_) < MaxTables /\ pages < MaxPages
  /\ ValidName(n) /\ ValidColumns(columns)
  /\ \A t \in DOMAIN tablesMetadata_ : tablesMetadata_[t].name # n
  /\ pages' = pages + 1
  /\ Save(Append(tablesMetadata_,
                 [tableId |-> nextTableId_, name |-> n, columns |-> columns,
                  firstPageId |-> pages + 1, lastPageId |-> pages + 1]),
          nextTableId_ + 1)

(* insertRow in a table whose last page is full. *)
GrowTable(t) ==
  /\ status = "open"
  /\ pages < MaxPages
  /\ pages' = pages + 1
  /\ Save([tablesMetadata_ EXCEPT ![t].lastPageId = pages + 1], nextTableId_)

(* initMetaFile, during which the process may die. *)
InitMetaFile ==
  /\ status = "closed" /\ metaFile = Missing
  /\ metaFile' \in {InitialFile} \cup Unfinished(InitialFile)
  /\ UNCHANGED <<catalog, pages, status, reading, saved>>

Close == /\ status \notin {"closed", "loading"}
         /\ status' = "closed"
         /\ UNCHANGED <<catalog, pages, metaFile, reading, saved>>
-----------------------------------------------------------------------------
(***************************************************************************)
(* load: the header, then each table, then each of its columns.            *)
(***************************************************************************)
At(o, width) ==
  IF o \in DOMAIN metaFile.fields /\ metaFile.fields[o].width = width
    THEN metaFile.fields[o].value ELSE 0
EmptyName == CHOOSE n \in Names : NameLength[n] = 0
NameAt(o) == IF At(o, 2) = 0 THEN EmptyName ELSE At(o + 2, At(o, 2))
InFile(o) == o <= metaFile.size

Fails(how) == status' = how /\ reading' = NotReading
Reads(r) == status' = "loading" /\ reading' = r

ReadHeader ==
  LET refused == InFile(4) /\ At(0, 4) # "DTBL"
      overrun == ~InFile(4) \/ (~refused /\ ~InFile(12))
  IN  /\ status = "closed" /\ metaFile # Missing
      /\ \/ refused /\ Fails("refused")
         \/ overrun /\ Fails("overrun")
         \/ /\ ~refused /\ ~overrun
            /\ Reads([NotReading EXCEPT !.at = HeaderSize, !.next = At(4, 4), !.tableCount = At(8, 4)])
      /\ UNCHANGED <<catalog, pages, metaFile, saved>>

TablesUntilEnd == /\ Len(reading.tables) < reading.tableCount   \* mutant: stops at the end
                  /\ InFile(reading.at + 1)
TablesLeft == Len(reading.tables) < reading.tableCount

TableAt(o) == [tableId |-> At(o, 4), name |-> NameAt(o + 16), columns |-> <<>>,
               firstPageId |-> At(o + 4, 4), lastPageId |-> At(o + 8, 4)]

readTable ==
  LET o == reading.at
      end == o + 18 + At(o + 16, 2)
      named == {At(o + 4, 4), At(o + 8, 4)} \cap {0, INVALID_PAGE_ID} = {}
      refused == InFile(o + 13) /\ (~named \/ (InFile(end) /\ At(o + 12, 1) = 0))
      overrun == ~InFile(o + 13) \/ (named /\ ~InFile(end))
  IN  /\ status = "loading" /\ reading.columnsLeft = 0
      /\ TablesLeft
      /\ \/ refused /\ Fails("refused")
         \/ overrun /\ Fails("overrun")
         \/ /\ ~refused /\ ~overrun
            /\ Reads([reading EXCEPT !.at = AlignTo(end, 4),
                                     !.columnsLeft = At(o + 12, 1),
                                     !.tables = Append(@, TableAt(o))])
      /\ UNCHANGED <<catalog, pages, metaFile, saved>>

ColumnAt(o) == [name |-> NameAt(o + 4), type |-> logicalTypeFromCode(At(o, 1)),
                nullable |-> At(o + 1, 1) % 2 = 1, primaryKey |-> At(o + 1, 1) \div 2 = 1,
                stringCapacity |-> At(o + 2, 2)]

(* The schema, the id and the name are looked at when the last column is read. *)
NoDuplicate(table) ==
  \A k \in 1 .. Len(reading.tables) - 1 : /\ reading.tables[k].tableId # table.tableId
                                         /\ reading.tables[k].name # table.name
ValidTable(table) == ValidColumns(table.columns) /\ NoDuplicate(table)

readColumn ==
  LET o == reading.at
      end == o + 6 + At(o + 4, 2)
      known == At(o, 1) \in {logicalTypeCode[t] : t \in Types}
      malformed == \/ InFile(o + 1) /\ ~known
                   \/ InFile(o + 2) /\ At(o + 1, 1) \div 4 # 0
      n == Len(reading.tables)
      table == [reading.tables[n] EXCEPT !.columns = Append(@, ColumnAt(o))]
      last == reading.columnsLeft = 1
  IN  /\ status = "loading" /\ reading.columnsLeft > 0
      /\ \/ malformed /\ Fails("refused")
         \/ ~malformed /\ ~InFile(end) /\ Fails("overrun")
         \/ /\ ~malformed /\ InFile(end)
            /\ IF last /\ ~ValidTable(table)
                 THEN Fails("refused")
                 ELSE Reads([reading EXCEPT !.at = AlignTo(AlignTo(end, 4), IF last THEN 8 ELSE 1),
                                            !.columnsLeft = @ - 1,
                                            !.tables[n] = table])
      /\ UNCHANGED <<catalog, pages, metaFile, saved>>

FinishLoad ==
  LET ids == {reading.tables[t].tableId : t \in DOMAIN reading.tables}
      refused == \E id \in {0} \cup ids : reading.next <= id
  IN  /\ status = "loading" /\ reading.columnsLeft = 0
      /\ ~TablesLeft
      /\ \/ refused /\ Fails("refused") /\ UNCHANGED catalog
         \/ /\ ~refused
            /\ tablesMetadata_' = reading.tables /\ nextTableId_' = reading.next
            /\ status' = "open" /\ reading' = NotReading
      /\ UNCHANGED <<pages, metaFile, saved>>

Next == \/ \E n \in Names, columns \in ColumnLists : createTable(n, columns)
        \/ \E t \in DOMAIN tablesMetadata_ : GrowTable(t)
        \/ InitMetaFile \/ Close
        \/ ReadHeader \/ readTable \/ readColumn \/ FinishLoad

Spec == Init /\ [][Next]_vars
-----------------------------------------------------------------------------
Whole == metaFile # Missing /\ metaFile.size = serializedSize(saved)

Sound(c) ==
  /\ c.next > 0
  /\ \A t \in DOMAIN c.tables : /\ c.tables[t].tableId < c.next
                               /\ ValidColumns(c.tables[t].columns)
                               /\ c.tables[t].firstPageId \in 1 .. INVALID_PAGE_ID - 1
                               /\ c.tables[t].lastPageId \in 1 .. INVALID_PAGE_ID - 1
  /\ \A t, u \in DOMAIN c.tables : c.tables[t].tableId = c.tables[u].tableId
                                    \/ c.tables[t].name = c.tables[u].name => t = u

(***************************************************************************)
(* load accepts a whole file exactly if the catalog in it is sound.  So it *)
(* reads back what was saved: the names and columns that createTable and   *)
(* Schema::create accept fit the fields they are stored in, and both sides *)
(* agree on every offset.                                                  *)
(***************************************************************************)
SoundLoads ==
  Whole /\ status \notin {"closed", "loading"} =>
    status = IF Sound(saved) THEN "open" ELSE "refused"

(***************************************************************************)
(* save writes within the bytes that serializedSize computed, and no field *)
(* over another.                                                           *)
(***************************************************************************)
FieldsApart ==
  metaFile # Missing =>
    LET end(o) == o + metaFile.fields[o].width
    IN  \A o \in DOMAIN metaFile.fields :
          /\ end(o) <= metaFile.size
          /\ \A x \in DOMAIN metaFile.fields : o < x => end(o) <= x

(***************************************************************************)
(* A file that was cut short is never taken for another catalog: load      *)
(* yields what was being saved, or refuses, or runs past the end.          *)
(***************************************************************************)
CutIsNoCatalog ==
  status = "open" => saved = [tables |-> tablesMetadata_, next |-> nextTableId_]
=============================================================================
