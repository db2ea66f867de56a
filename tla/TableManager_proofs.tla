------------------------- MODULE TableManager_proofs -------------------------
(***************************************************************************)
(* Proofs about any number of tables, pages and rows, with all failures    *)
(* and crashes.                                                            *)
(***************************************************************************)
EXTENDS TableManager, TLAPS, SequenceTheorems

(***************************************************************************)
(* A catalog that load accepts and whose pages are all in P.               *)
(***************************************************************************)
Entry == [tableId : Nat, name : Names, firstPageId : PageIds, lastPageId : PageIds]

CatalogOK(tables, next, P) ==
  /\ tables \in Seq(Entry) /\ next \in Nat
  /\ \A i \in DOMAIN tables : /\ tables[i].tableId < next
                              /\ tables[i].firstPageId \in P
                              /\ tables[i].lastPageId \in P
  /\ \A i, j \in DOMAIN tables : tables[i].tableId = tables[j].tableId
                                 \/ tables[i].name = tables[j].name => i = j

InFile == {p \in PageIds : durable[p] # Absent}

(***************************************************************************)
(* The inductive invariant.  The pool and the file have the same pages, so *)
(* that no crash takes away a page; and an operation that has changed the  *)
(* catalog leaves a good one whether its save succeeds or is undone.       *)
(***************************************************************************)
PagesOK == /\ store \in [PageIds -> Page \cup {Absent}]
           /\ durable \in [PageIds -> Page \cup {Absent}]
           /\ \A p \in PageIds : store[p] # Absent <=> durable[p] # Absent

CatalogsOK == /\ CatalogOK(tablesMetadata_, nextTableId_, InFile)
              /\ metaFile # Torn => CatalogOK(metaFile.tables, metaFile.next, InFile)

Shortened(s) == SubSeq(s, 1, Len(s) - 1)

OpTyped == op \in [name : {"none", "create", "link", "grow", "load"},
                   table : 0 .. Len(tablesMetadata_), page : 0 .. MaxPages,
                   value : Values \cup {Nil}]

OpOK ==
  /\ OpTyped
  /\ op.name = "create" => /\ CatalogOK(Shortened(tablesMetadata_), nextTableId_ - 1, InFile)
                           /\ tablesMetadata_ # <<>>
  /\ op.name \in {"link", "grow"} => op.table \in Tables /\ op.page \in InFile /\ op.value \in Values

Iters == [table : Names \cup {Nil}, nextPageId : 0 .. INVALID_PAGE_ID,
          nextSlotId : Nat \ {0}, cached : Rid \cup {Nil}]

ScanOK == /\ iter \in Iters
          /\ seen \in Seq(Rid) /\ due \subseteq Rid
          /\ leaked \subseteq PageIds /\ stray \subseteq Rid

(***************************************************************************)
(* No two reported rows share a row id, and the row of an insertion that   *)
(* is not yet done is alone on its page.                                   *)
(***************************************************************************)
RidsUnique == \A r, s \in rows : r.rid = s.rid => r = s

AloneOn(p) == /\ store[p] # Absent /\ store[p].rows = <<op.value>>
              /\ \A r \in rows : r.rid.page # p
NewRowOK == /\ op.name = "link" => AloneOn(op.page)
            /\ op.name = "grow" => AloneOn(LastPage(op.table))

RowsOK == rows \subseteq Row /\ RowsReadable /\ RidsUnique /\ NewRowOK

Inv == open \in BOOLEAN /\ PagesOK /\ CatalogsOK /\ OpOK /\ ScanOK /\ RowsOK

LEMMA InvTypes == Inv => TypeOK
BY DEF Inv, TypeOK, PagesOK, CatalogsOK, CatalogOK, Entry, OpOK, OpTyped, ScanOK, Iters, RowsOK
-----------------------------------------------------------------------------
(***************************************************************************)
(* Pages.                                                                  *)
(***************************************************************************)
LEMMA PageSlots == INVALID_PAGE_ID \in Nat /\ PageIds \subseteq 0 .. INVALID_PAGE_ID
                   /\ INVALID_PAGE_ID \in 0 .. INVALID_PAGE_ID /\ INVALID_PAGE_ID \notin PageIds
BY TableManagerAssumption DEF INVALID_PAGE_ID, PageIds

LEMMA NewTablePage ==
  ASSUME NEW rs \in Seq(Values \cup {Tombstone})
  PROVE  TablePage(rs) \in Page /\ TablePage(rs).rows = rs /\ TablePage(rs) # Absent
<1>1. TablePage(rs) \in Page /\ TablePage(rs).rows = rs
  BY PageSlots DEF TablePage, Page
<1> QED BY <1>1, TableManagerAssumption

LEMMA NewPagePages ==
  ASSUME PagesOK, NEW p, NEW page \in Page, NewPage(p, page)
  PROVE  /\ PagesOK' /\ p \in InFile' /\ p \in PageIds /\ InFile \subseteq InFile'
         /\ store'[p] = page /\ \A q \in PageIds : store[q] # Absent => q # p /\ store'[q] = store[q]
<1>1. p \in PageIds /\ store[p] = Absent /\ durable[p] = Absent
  BY DEF NewPage, FreshPages, PagesOK
<1>2. ZeroPage # Absent /\ page # Absent /\ ZeroPage \in Page
  <2>1. ZeroPage \in Page
    BY PageSlots DEF ZeroPage, Page
  <2> QED BY <2>1, TableManagerAssumption
<1>3. /\ store' = [store EXCEPT ![p] = page] /\ durable' = [durable EXCEPT ![p] = ZeroPage]
  BY DEF NewPage, Extended
<1>4. PagesOK'
  BY <1>1, <1>2, <1>3 DEF PagesOK
<1>5. p \in InFile' /\ InFile \subseteq InFile'
  BY <1>1, <1>2, <1>3 DEF PagesOK, InFile
<1> QED BY <1>1, <1>3, <1>4, <1>5 DEF PagesOK

LEMMA WritePages ==
  ASSUME PagesOK, NEW p \in PageIds, store[p] # Absent, NEW page \in Page,
         store' = [store EXCEPT ![p] = page], durable' = durable
  PROVE  /\ PagesOK' /\ InFile' = InFile
         /\ store'[p] = page /\ \A q \in PageIds \ {p} : store'[q] = store[q]
<1>1. page # Absent
  BY TableManagerAssumption
<1> QED BY <1>1 DEF PagesOK, InFile

(***************************************************************************)
(* Catalogs.                                                               *)
(***************************************************************************)
LEMMA MorePages ==
  ASSUME NEW tables, NEW next, NEW P, CatalogOK(tables, next, P), NEW Q, P \subseteq Q
  PROVE  CatalogOK(tables, next, Q)
BY DEF CatalogOK

LEMMA ShortenedAppend ==
  ASSUME NEW S, NEW s \in Seq(S), NEW e \in S
  PROVE  Shortened(Append(s, e)) = s /\ Append(s, e) # <<>>
<1>1. Append(s, e) \in Seq(S) /\ Len(Append(s, e)) = Len(s) + 1
      /\ Len(s) \in Nat /\ \A i \in 1 .. Len(s) : Append(s, e)[i] = s[i]
  OBVIOUS
<1>2. Shortened(Append(s, e)) = SubSeq(Append(s, e), 1, Len(s))
  BY <1>1 DEF Shortened
<1>3. SubSeq(Append(s, e), 1, Len(s)) = s
  BY <1>1
<1> QED BY <1>1, <1>2, <1>3

LEMMA EntryOfTable ==
  ASSUME Inv, NEW t \in Tables
  PROVE  /\ tablesMetadata_[t] \in Entry /\ tablesMetadata_[t].name \in Names
         /\ LastPage(t) \in PageIds /\ store[LastPage(t)] \in Page
         /\ LastPage(t) \in InFile
         /\ tablesMetadata_[t].firstPageId \in PageIds
         /\ Tables = 1 .. Len(tablesMetadata_) /\ t \in 1 .. Len(tablesMetadata_)
<1>1. tablesMetadata_[t] \in Entry /\ LastPage(t) \in InFile /\ tablesMetadata_ \in Seq(Entry)
  BY DEF Inv, CatalogsOK, CatalogOK, Tables, LastPage
<1> QED BY <1>1 DEF Entry, LastPage, InFile, Inv, PagesOK, Tables

LEMMA NoOpFacts ==
  /\ NoOp.name = "none"
  /\ \A n \in Nat : NoOp \in [name : {"none", "create", "link", "grow", "load"},
                             table : 0 .. n, page : 0 .. MaxPages, value : Values \cup {Nil}]
BY TableManagerAssumption DEF NoOp

(***************************************************************************)
(* The rows stay readable where their pages keep their rows.               *)
(***************************************************************************)
LEMMA RowFacts ==
  ASSUME Inv, NEW r \in rows
  PROVE  /\ r.rid.page \in PageIds /\ r.rid.slot \in Nat \ {0} /\ r.value \in Values /\ r \in Row
         /\ r.rid = [page |-> r.rid.page, slot |-> r.rid.slot]
         /\ store[r.rid.page] \in Page /\ r.rid.slot \in DOMAIN store[r.rid.page].rows
         /\ store[r.rid.page].rows[r.rid.slot] = r.value
<1>1. r \in Row
  BY DEF Inv, RowsOK
<1>2. r.rid \in Rid /\ r.value \in Values
  BY <1>1 DEF Row
<1>3. r.rid.page \in PageIds /\ r.rid.slot \in Nat \ {0}
      /\ r.rid = [page |-> r.rid.page, slot |-> r.rid.slot]
  BY <1>2 DEF Rid
<1> QED BY <1>1, <1>2, <1>3 DEF Inv, RowsOK, RowsReadable, LiveAt, PagesOK

LEMMA RowsStay ==
  ASSUME Inv, rows' = rows,
         \A r \in rows : store'[r.rid.page] # Absent /\ store'[r.rid.page].rows = store[r.rid.page].rows
  PROVE  rows' \subseteq Row /\ RowsReadable' /\ RidsUnique'
BY DEF Inv, RowsOK, RowsReadable, RidsUnique, LiveAt

(***************************************************************************)
(* Steps that touch neither pages nor catalog nor rows.                    *)
(***************************************************************************)
LEMMA NoOpOK ==
  ASSUME Len(tablesMetadata_)' \in Nat, op' = NoOp
  PROVE  OpOK' /\ NewRowOK'
BY NoOpFacts DEF OpOK, OpTyped, NewRowOK

LEMMA TablesFinite ==
  ASSUME Inv
  PROVE  tablesMetadata_ \in Seq(Entry) /\ Len(tablesMetadata_) \in Nat
BY DEF Inv, CatalogsOK, CatalogOK

LEMMA ScanStep ==
  ASSUME Inv, UNCHANGED <<pageVars, catalog, metaFile, open, rows>>, ScanOK',
         op' = op \/ op' = NoOp \/ op' = [NoOp EXCEPT !.name = "load"]
  PROVE  Inv'
<1> USE DEF pageVars, catalog
<1>1. PagesOK' /\ CatalogsOK'
  BY DEF Inv, PagesOK, CatalogsOK, InFile
<1>2. OpOK' /\ NewRowOK'
  <2>1. CASE op' = op
    BY <2>1 DEF Inv, OpOK, OpTyped, RowsOK, NewRowOK, AloneOn, InFile, Tables, LastPage
  <2>2. CASE op' = NoOp
    BY <2>2, TablesFinite, NoOpOK
  <2>3. CASE op' = [NoOp EXCEPT !.name = "load"]
    <3>1. op'.name = "load" /\ OpTyped'
      BY <2>3, TablesFinite, TableManagerAssumption DEF NoOp, OpTyped
    <3> QED BY <3>1 DEF OpOK, NewRowOK
  <2> QED BY <2>1, <2>2, <2>3
<1>3. rows' \subseteq Row /\ RowsReadable' /\ RidsUnique'
  BY DEF Inv, RowsOK, RowsReadable, RidsUnique, LiveAt
<1> QED BY <1>1, <1>2, <1>3 DEF Inv, RowsOK

LEMMA IterKept ==
  ASSUME Inv, losses' = losses
  PROVE  /\ iter \in Iters
         /\ seen \in Seq(Rid) /\ due \subseteq Rid
         /\ leaked' \subseteq PageIds /\ stray' \subseteq Rid
BY DEF Inv, ScanOK, losses

LEMMA NoScanTyped ==
  NoScan \in Iters
BY PageSlots DEF NoScan, Iters

LEMMA ScanInv == ASSUME Inv, NEW t \in Tables, Scan(t) PROVE Inv'
<1>1. iter' \in Iters
  BY EntryOfTable, NoScanTyped, PageSlots DEF Scan, NoScan, Iters
<1>2. seen' = <<>> /\ due' \subseteq Rid
  BY DEF Scan, Inv, RowsOK, Row
<1>3. ScanOK'
  BY <1>1, <1>2, IterKept DEF ScanOK, Scan
<1> QED BY <1>3, ScanStep DEF Scan

LEMMA HasNextInv == ASSUME Inv, HasNext PROVE Inv'
<1>1. ScanOK'
  BY IterKept DEF HasNext, scan, ScanOK, losses
<1> QED BY <1>1, ScanStep DEF HasNext

LEMMA LoadFailsInv == ASSUME Inv, LoadFails PROVE Inv'
<1>1. ScanOK'
  BY IterKept DEF LoadFails, scan, ScanOK, losses
<1> QED BY <1>1, ScanStep DEF LoadFails

LEMMA TurnIter ==
  ASSUME NEW i \in Iters, NEW n \in 0 .. INVALID_PAGE_ID
  PROVE  [i EXCEPT !.nextPageId = n, !.nextSlotId = 1] \in Iters
<1> DEFINE j == [i EXCEPT !.nextPageId = n]
<1>1. j \in Iters
  BY DEF Iters
<1> HIDE DEF j
<1>2. [j EXCEPT !.nextSlotId = 1] \in Iters
  BY <1>1 DEF Iters
<1> QED BY <1>2 DEF j

LEMMA LoadIter ==
  ASSUME NEW i \in Iters, NEW c \in Rid, NEW s \in Nat \ {0}
  PROVE  [i EXCEPT !.cached = c, !.nextSlotId = s] \in Iters
<1> DEFINE j == [i EXCEPT !.cached = c]
<1>1. j \in Iters
  BY DEF Iters
<1> HIDE DEF j
<1>2. [j EXCEPT !.nextSlotId = s] \in Iters
  BY <1>1 DEF Iters
<1> QED BY <1>2 DEF j

LEMMA TurnPageInv == ASSUME Inv, TurnPage PROVE Inv'
<1>1. PICK page \in {store[p] : p \in PageIds} \ {Absent} :
        /\ iter' = [iter EXCEPT !.nextPageId = page.next, !.nextSlotId = 1]
        /\ op' = IF page.next = INVALID_PAGE_ID THEN NoOp ELSE op
        /\ UNCHANGED <<pageVars, catalog, metaFile, open, rows, seen, due, losses>>
  BY DEF TurnPage
<1>2. page \in Page
  BY <1>1 DEF Inv, PagesOK
<1>3. page.next \in 0 .. INVALID_PAGE_ID
  BY <1>2 DEF Page
<1>4. ScanOK'
  <2>1. iter \in Iters
    BY DEF Inv, ScanOK
  <2>2. iter' \in Iters
    BY <1>1, <1>3, <2>1, TurnIter
  <2> QED BY <1>1, <2>2, IterKept DEF ScanOK
<1> QED BY <1>1, <1>4, ScanStep

LEMMA SkipTombstoneInv == ASSUME Inv, SkipTombstone PROVE Inv'
<1>1. /\ iter' = [iter EXCEPT !.nextSlotId = iter.nextSlotId + 1]
      /\ UNCHANGED <<pageVars, catalog, metaFile, open, op, rows, seen, due, losses>>
  BY DEF SkipTombstone, SlotAfterTombstone
<1>2. ScanOK'
  BY <1>1, IterKept DEF ScanOK, Iters
<1> QED BY <1>1, <1>2, ScanStep

LEMMA LoadRowInv == ASSUME Inv, LoadRow PROVE Inv'
<1>1. /\ iter' = [iter EXCEPT !.cached = [page |-> iter.nextPageId, slot |-> iter.nextSlotId],
                             !.nextSlotId = iter.nextSlotId + 1]
      /\ iter.nextPageId \in PageIds /\ op' = NoOp
      /\ UNCHANGED <<pageVars, catalog, metaFile, open, rows, seen, due, losses>>
  BY DEF LoadRow, Loads, SlotAfterRow
<1>2. [page |-> iter.nextPageId, slot |-> iter.nextSlotId] \in Rid
  BY <1>1, IterKept DEF Rid, Iters
<1>3. ScanOK'
  <2>1. iter \in Iters
    BY DEF Inv, ScanOK
  <2>2. iter' \in Iters
    <3>1. iter.nextSlotId + 1 \in Nat \ {0}
      BY <2>1 DEF Iters
    <3> QED BY <1>1, <1>2, <2>1, <3>1, LoadIter
  <2> QED BY <1>1, <2>2, IterKept DEF ScanOK
<1> QED BY <1>1, <1>3, ScanStep

LEMMA TakeNextInv == ASSUME Inv, TakeNext PROVE Inv'
<1>1. iter.cached \in Rid
  BY IterKept DEF TakeNext, Iters, losses
<1>2. ScanOK'
  BY <1>1, IterKept DEF TakeNext, ScanOK, Iters
<1> QED BY <1>2, ScanStep DEF TakeNext
-----------------------------------------------------------------------------
(***************************************************************************)
(* createTable.                                                            *)
(***************************************************************************)
LEMMA EmptyRows == <<>> \in Seq(Values \cup {Tombstone})
OBVIOUS

LEMMA FreshPageRows ==
  ASSUME Inv, NEW p, NEW page \in Page, NewPage(p, page)
  PROVE  \A r \in rows : /\ store'[r.rid.page] = store[r.rid.page] /\ r.rid.page # p
                        /\ store[r.rid.page] # Absent
<1>1. \A q \in PageIds : store[q] # Absent => q # p /\ store'[q] = store[q]
  BY NewPagePages DEF Inv
<1>2. \A r \in rows : r.rid.page \in PageIds /\ store[r.rid.page] # Absent
  BY RowFacts, TableManagerAssumption
<1> QED BY <1>1, <1>2

LEMMA AppendedCatalog ==
  ASSUME NEW tables, NEW next, NEW P, CatalogOK(tables, next, P),
         NEW n \in Names, NEW p \in PageIds, p \in P,
         \A i \in DOMAIN tables : tables[i].name # n
  PROVE  CatalogOK(Append(tables, [tableId |-> next, name |-> n, firstPageId |-> p, lastPageId |-> p]),
                   next + 1, P)
<1> DEFINE e == [tableId |-> next, name |-> n, firstPageId |-> p, lastPageId |-> p]
           m == Append(tables, e)
<1>1. e \in Entry /\ tables \in Seq(Entry) /\ next \in Nat
  BY DEF CatalogOK, Entry
<1>2. /\ e.tableId = next /\ e.name = n /\ e.firstPageId = p /\ e.lastPageId = p
  OBVIOUS
<1> HIDE DEF e
<1>3. /\ m \in Seq(Entry) /\ DOMAIN m = 1 .. Len(tables) + 1 /\ DOMAIN tables = 1 .. Len(tables)
      /\ Len(tables) \in Nat
      /\ \A i \in 1 .. Len(tables) : m[i] = tables[i]
      /\ m[Len(tables) + 1] = e
  BY <1>1
<1> HIDE DEF m
<1>4. \A i \in 1 .. Len(tables) : /\ tables[i].tableId \in Nat /\ tables[i].tableId < next
                                /\ tables[i].firstPageId \in P /\ tables[i].lastPageId \in P
                                /\ tables[i].name # n
  <2>1. \A i \in 1 .. Len(tables) : tables[i] \in Entry
    BY <1>1
  <2>2. \A i \in 1 .. Len(tables) : tables[i].tableId \in Nat
    BY <2>1 DEF Entry
  <2> QED BY <1>3, <2>2 DEF CatalogOK
<1>5. \A i \in 1 .. Len(tables) + 1 : i = Len(tables) + 1 \/ i \in 1 .. Len(tables)
  BY <1>3
<1>6. ASSUME NEW i \in DOMAIN m
      PROVE  m[i].tableId < next + 1 /\ m[i].firstPageId \in P /\ m[i].lastPageId \in P
  BY <1>1, <1>2, <1>3, <1>4, <1>5
<1>7. ASSUME NEW i \in DOMAIN m, NEW j \in DOMAIN m,
             m[i].tableId = m[j].tableId \/ m[i].name = m[j].name
      PROVE  i = j
  <2>1. CASE i \in 1 .. Len(tables) /\ j \in 1 .. Len(tables)
    BY <1>3, <1>7, <2>1 DEF CatalogOK
  <2>2. \A k \in 1 .. Len(tables) : m[k].tableId # next /\ m[k].name # n
    BY <1>1, <1>3, <1>4
  <2> QED BY <1>2, <1>3, <1>5, <1>7, <2>1, <2>2
<1>8. CatalogOK(m, next + 1, P)
  BY <1>1, <1>3, <1>6, <1>7 DEF CatalogOK
<1> QED BY <1>8 DEF m, e

LEMMA CreateTableInv == ASSUME Inv, NEW n \in Names, CreateTable(n) PROVE Inv'
<1>1. PICK p \in FreshPages :
        /\ NewPage(p, TablePage(<<>>))
        /\ tablesMetadata_' = Append(tablesMetadata_,
             [tableId |-> nextTableId_, name |-> n, firstPageId |-> p, lastPageId |-> p])
  BY DEF CreateTable
<1>2. TablePage(<<>>) \in Page
  BY EmptyRows, NewTablePage
<1>3. PagesOK' /\ p \in InFile' /\ p \in PageIds /\ InFile \subseteq InFile'
  BY <1>1, <1>2, NewPagePages DEF Inv
<1>4. CatalogOK(tablesMetadata_, nextTableId_, InFile')
  BY <1>3, MorePages DEF Inv, CatalogsOK
<1>5. \A i \in DOMAIN tablesMetadata_ : tablesMetadata_[i].name # n
  BY DEF CreateTable, TableNames, Tables
<1>6. CatalogOK(tablesMetadata_', nextTableId_', InFile')
  BY <1>1, <1>3, <1>4, <1>5, AppendedCatalog DEF CreateTable, IdAfterCreate
<1>7. metaFile' # Torn => CatalogOK(metaFile'.tables, metaFile'.next, InFile')
  BY <1>3, MorePages DEF CreateTable, Inv, CatalogsOK
<1>8. CatalogsOK'
  BY <1>6, <1>7 DEF CatalogsOK
<1>9. Shortened(tablesMetadata_') = tablesMetadata_ /\ tablesMetadata_' # <<>>
  <2>1. [tableId |-> nextTableId_, name |-> n, firstPageId |-> p, lastPageId |-> p] \in Entry
    BY <1>3, <1>4 DEF CatalogOK, Entry
  <2> QED BY <1>1, <2>1, TablesFinite, ShortenedAppend
<1>10. nextTableId_' - 1 = nextTableId_
  BY <1>4 DEF CreateTable, IdAfterCreate, CatalogOK
<1>11. op'.name = "create" /\ OpTyped'
  <2>1. Len(tablesMetadata_)' \in Nat
    BY <1>6 DEF CatalogOK
  <2> QED BY <2>1, TableManagerAssumption DEF CreateTable, NoOp, OpTyped
<1>12. OpOK' /\ NewRowOK'
  BY <1>4, <1>9, <1>10, <1>11 DEF OpOK, NewRowOK
<1>13. rows' \subseteq Row /\ RowsReadable' /\ RidsUnique'
  BY <1>1, <1>2, FreshPageRows, RowsStay DEF CreateTable
<1>14. ScanOK' /\ open' \in BOOLEAN
  BY DEF Inv, ScanOK, CreateTable, scan, losses
<1> QED BY <1>3, <1>8, <1>12, <1>13, <1>14 DEF Inv, RowsOK

(***************************************************************************)
(* What a save leaves in tables.meta.                                      *)
(***************************************************************************)
LEMMA SavedCatalog ==
  ASSUME Inv, SaveSucceeds \/ SaveFails, InFile' = InFile
  PROVE  metaFile' # Torn => CatalogOK(metaFile'.tables, metaFile'.next, InFile')
<1>1. CASE SaveSucceeds
  BY <1>1 DEF SaveSucceeds, Serialized, Inv, CatalogsOK
<1>2. CASE SaveFails
  BY <1>2 DEF SaveFails, Inv, CatalogsOK
<1> QED BY <1>1, <1>2

LEMMA LastIndex ==
  ASSUME Inv, tablesMetadata_ # <<>>
  PROVE  Len(tablesMetadata_) \in Tables
BY TablesFinite DEF Tables

LEMMA FinishCreateInv == ASSUME Inv, FinishCreate PROVE Inv'
<1>1. /\ op.name = "create" /\ op' = NoOp /\ (SaveSucceeds \/ SaveFails)
      /\ UNCHANGED <<pageVars, open, scan, rows, stray>>
      /\ \/ UNCHANGED <<catalog, leaked>>
         \/ /\ nextTableId_' = nextTableId_ - 1 /\ tablesMetadata_' = Shortened(tablesMetadata_)
            /\ Leaks({LastPage(Len(tablesMetadata_))})
  BY DEF FinishCreate, IdBeforeCreate, Shortened
<1>2. PagesOK' /\ InFile' = InFile
  BY <1>1 DEF Inv, PagesOK, InFile, pageVars
<1>3. CatalogOK(tablesMetadata_', nextTableId_', InFile')
  BY <1>1, <1>2 DEF Inv, CatalogsOK, OpOK, catalog
<1>4. CatalogsOK'
  BY <1>1, <1>2, <1>3, SavedCatalog DEF CatalogsOK
<1>5. OpOK' /\ NewRowOK'
  BY <1>1, <1>3, NoOpOK DEF CatalogOK
<1>6. rows' \subseteq Row /\ RowsReadable' /\ RidsUnique'
  BY <1>1, RowFacts, RowsStay, TableManagerAssumption DEF pageVars
<1>7. LastPage(Len(tablesMetadata_)) \in PageIds
  BY <1>1, LastIndex, EntryOfTable DEF Inv, OpOK
<1>8. ScanOK' /\ open' \in BOOLEAN
  BY <1>1, <1>7 DEF Inv, ScanOK, scan, Leaks
<1> QED BY <1>2, <1>4, <1>5, <1>6, <1>8 DEF Inv, RowsOK
-----------------------------------------------------------------------------
(***************************************************************************)
(* insertRow.                                                              *)
(***************************************************************************)
Readable(r) == LiveAt(r.rid.page, r.rid.slot) /\ store[r.rid.page].rows[r.rid.slot] = r.value

LEMMA ReportedRow ==
  ASSUME Inv, NEW t \in Tables, NEW p \in PageIds, NEW s \in Nat \ {0}, NEW v \in Values,
         Reported(t, p, s, v),
         \A r \in rows : Readable(r)' /\ r.rid # [page |-> p, slot |-> s],
         store'[p] # Absent, s \in DOMAIN store'[p].rows, store'[p].rows[s] = v
  PROVE  rows' \subseteq Row /\ RowsReadable' /\ RidsUnique'
<1> DEFINE x == [table |-> tablesMetadata_[t].name, rid |-> [page |-> p, slot |-> s], value |-> v]
<1>1. /\ x \in Row /\ x.rid = [page |-> p, slot |-> s] /\ x.rid.page = p /\ x.rid.slot = s
      /\ x.value = v
  BY EntryOfTable DEF Row, Rid
<1>2. rows' = rows \cup {x}
  BY DEF Reported
<1>3. PICK y : y = x
  OBVIOUS
<1> HIDE DEF x
<1>4. v # Tombstone
  BY TableManagerAssumption
<1>5. Readable(y)'
  BY <1>1, <1>3, <1>4 DEF Readable, LiveAt
<1>6. rows' = rows \cup {y} /\ y \in Row /\ y.rid = [page |-> p, slot |-> s]
  BY <1>1, <1>2, <1>3
<1>7. rows' \subseteq Row
  BY <1>6 DEF Inv, RowsOK
<1>8. RowsReadable'
  BY <1>5, <1>6 DEF RowsReadable, Readable
<1>9. RidsUnique'
  BY <1>6 DEF RidsUnique, Inv, RowsOK
<1> QED BY <1>7, <1>8, <1>9

LEMMA AppendedRow ==
  ASSUME NEW page \in Page, NEW v \in Values
  PROVE  LET q == [page EXCEPT !.rows = Append(@, v)]
             n == Len(page.rows)
         IN  /\ q \in Page /\ n \in Nat /\ DOMAIN page.rows = 1 .. n
             /\ DOMAIN q.rows = 1 .. n + 1 /\ q.rows[n + 1] = v
             /\ \A i \in 1 .. n : q.rows[i] = page.rows[i]
<1> DEFINE q == [page EXCEPT !.rows = Append(@, v)]
           n == Len(page.rows)
<1>1. page.rows \in Seq(Values \cup {Tombstone}) /\ v \in Values \cup {Tombstone}
  BY DEF Page
<1>2. /\ Append(page.rows, v) \in Seq(Values \cup {Tombstone}) /\ n \in Nat
      /\ DOMAIN page.rows = 1 .. n /\ DOMAIN Append(page.rows, v) = 1 .. n + 1
      /\ Append(page.rows, v)[n + 1] = v
      /\ \A i \in 1 .. n : Append(page.rows, v)[i] = page.rows[i]
  BY <1>1
<1> HIDE DEF n
<1>3. q \in Page /\ q.rows = Append(page.rows, v)
  BY <1>2 DEF Page
<1> QED BY <1>2, <1>3 DEF n

LEMMA InsertInLastPageInv ==
  ASSUME Inv, NEW t \in Tables, NEW v \in Values, InsertInLastPage(t, v)
  PROVE  Inv'
<1>1. PICK p : p = LastPage(t)
  OBVIOUS
<1>2. PICK page : page = store[p]
  OBVIOUS
<1>3. PICK q : q = [page EXCEPT !.rows = Append(@, v)]
  OBVIOUS
<1>4. PICK n : n = Len(page.rows)
  OBVIOUS
<1>5. p \in PageIds /\ page \in Page
  BY <1>1, <1>2, EntryOfTable
<1>6. /\ q \in Page /\ n \in Nat /\ DOMAIN page.rows = 1 .. n
      /\ DOMAIN q.rows = 1 .. n + 1 /\ q.rows[n + 1] = v
      /\ \A i \in 1 .. n : q.rows[i] = page.rows[i]
  BY <1>3, <1>4, <1>5, AppendedRow
<1>7. /\ store' = [store EXCEPT ![p] = q] /\ durable' = durable
      /\ Reported(t, p, n + 1, v) /\ op = NoOp /\ op' = NoOp
      /\ UNCHANGED <<catalog, metaFile, open, scan, losses>>
  BY <1>1, <1>2, <1>3, <1>4 DEF InsertInLastPage, WithRow, Idle
<1>8. PagesOK' /\ InFile' = InFile /\ store'[p] = q /\ \A u \in PageIds \ {p} : store'[u] = store[u]
  BY <1>2, <1>5, <1>6, <1>7, WritePages, TableManagerAssumption DEF Inv
<1>9. CatalogsOK'
  BY <1>7, <1>8 DEF Inv, CatalogsOK, catalog
<1>10. OpOK' /\ NewRowOK'
  BY <1>7, TablesFinite, NoOpOK DEF catalog
<1>11. ASSUME NEW r \in rows PROVE Readable(r)' /\ r.rid # [page |-> p, slot |-> n + 1]
  <2>1. CASE r.rid.page = p
    <3>1. r.rid.slot \in 1 .. n /\ page.rows[r.rid.slot] = r.value /\ r.value # Tombstone
      BY <1>2, <1>6, <2>1, RowFacts, TableManagerAssumption
    <3>2. r.rid.slot \in 1 .. n + 1 /\ r.rid.slot # n + 1
      BY <1>6, <3>1
    <3>3. q # Absent
      BY <1>6, TableManagerAssumption
    <3> QED BY <1>6, <1>8, <2>1, <3>1, <3>2, <3>3 DEF Readable, LiveAt
  <2>2. CASE r.rid.page # p
    <3>1. store'[r.rid.page] = store[r.rid.page]
      BY <1>8, <2>2, RowFacts
    <3> QED BY <2>2, <3>1 DEF Readable, LiveAt, Inv, RowsOK, RowsReadable
  <2> QED BY <2>1, <2>2
<1>12. rows' \subseteq Row /\ RowsReadable' /\ RidsUnique'
  <2>1. n + 1 \in Nat \ {0} /\ n + 1 \in 1 .. n + 1 /\ q # Absent
    BY <1>6, TableManagerAssumption
  <2> QED BY <1>5, <1>6, <1>7, <1>8, <1>11, <2>1, ReportedRow
<1>13. ScanOK' /\ open' \in BOOLEAN
  BY <1>7 DEF Inv, ScanOK, scan, losses
<1> QED BY <1>8, <1>9, <1>10, <1>12, <1>13 DEF Inv, RowsOK

LEMMA OneRow ==
  ASSUME NEW v \in Values
  PROVE  <<v>> \in Seq(Values \cup {Tombstone})
OBVIOUS

LEMMA InsertInNewPageInv ==
  ASSUME Inv, NEW t \in Tables, NEW v \in Values, InsertInNewPage(t, v)
  PROVE  Inv'
<1>1. PICK p \in FreshPages :
        \/ NewPage(p, TablePage(<<>>)) /\ Leaks({p}) /\ op' = op
        \/ /\ NewPage(p, TablePage(<<v>>))
           /\ op' = [name |-> "link", table |-> t, page |-> p, value |-> v]
           /\ UNCHANGED leaked
  BY DEF InsertInNewPage
<1>2. PICK page \in Page : NewPage(p, page)
  BY <1>1, EmptyRows, OneRow, NewTablePage
<1>3. /\ PagesOK' /\ p \in InFile' /\ p \in PageIds /\ InFile \subseteq InFile'
      /\ store'[p] = page
  BY <1>2, NewPagePages DEF Inv
<1>4. UNCHANGED <<catalog, metaFile, open, scan, rows, stray>> /\ op = NoOp
  BY DEF InsertInNewPage, Idle
<1>5. CatalogsOK'
  BY <1>3, <1>4, MorePages DEF Inv, CatalogsOK, catalog
<1>6. rows' \subseteq Row /\ RowsReadable' /\ RidsUnique'
  BY <1>2, <1>4, FreshPageRows, RowsStay
<1>7. OpOK' /\ NewRowOK'
  <2>1. CASE op' = op
    BY <1>4, <2>1, TablesFinite, NoOpOK DEF catalog
  <2>2. CASE /\ NewPage(p, TablePage(<<v>>))
             /\ op' = [name |-> "link", table |-> t, page |-> p, value |-> v]
    <3>1. /\ op'.name = "link" /\ op'.table = t /\ op'.page = p /\ op'.value = v
          /\ t \in Tables' /\ t \in 0 .. Len(tablesMetadata_)' /\ p \in 0 .. MaxPages
      BY <1>3, <1>4, <2>2, EntryOfTable, TablesFinite DEF catalog, Tables, PageIds
    <3>2. OpTyped'
      BY <2>2, <3>1 DEF OpTyped
    <3>3. OpOK'
      BY <1>3, <3>1, <3>2 DEF OpOK
    <3>4. TablePage(<<v>>).rows = <<v>> /\ TablePage(<<v>>) # Absent /\ TablePage(<<v>>) \in Page
      BY OneRow, NewTablePage
    <3>5. store'[p] = TablePage(<<v>>) /\ \A r \in rows : r.rid.page # p
      BY <2>2, <3>4, NewPagePages, FreshPageRows DEF Inv
    <3>6. NewRowOK'
      BY <1>4, <3>1, <3>4, <3>5 DEF NewRowOK, AloneOn
    <3> QED BY <3>3, <3>6
  <2> QED BY <1>1, <2>1, <2>2
<1>8. ScanOK' /\ open' \in BOOLEAN
  BY <1>1, <1>3, <1>4 DEF Inv, ScanOK, scan, Leaks
<1> QED BY <1>3, <1>5, <1>6, <1>7, <1>8 DEF Inv, RowsOK

(***************************************************************************)
(* The catalog's last page of one table is another page of the file.       *)
(***************************************************************************)
LEMMA MovedLastPage ==
  ASSUME NEW tables, NEW next, NEW P, CatalogOK(tables, next, P), NEW t \in DOMAIN tables,
         NEW p \in P, P \subseteq PageIds
  PROVE  LET m == [tables EXCEPT ![t].lastPageId = p]
         IN  CatalogOK(m, next, P) /\ Len(m) = Len(tables) /\ DOMAIN m = DOMAIN tables
             /\ m[t].lastPageId = p
<1> DEFINE m == [tables EXCEPT ![t].lastPageId = p]
           e == [tables[t] EXCEPT !.lastPageId = p]
<1>1. tables \in Seq(Entry) /\ tables[t] \in Entry /\ Len(tables) \in Nat
      /\ DOMAIN tables = 1 .. Len(tables)
  BY DEF CatalogOK
<1>2. /\ e \in Entry /\ e.tableId = tables[t].tableId /\ e.name = tables[t].name
      /\ e.firstPageId = tables[t].firstPageId /\ e.lastPageId = p
  BY <1>1 DEF Entry
<1>3. m = [tables EXCEPT ![t] = e]
  OBVIOUS
<1> HIDE DEF e
<1>4. m \in Seq(Entry) /\ Len(m) = Len(tables) /\ DOMAIN m = DOMAIN tables
      /\ m[t] = e /\ \A i \in DOMAIN tables \ {t} : m[i] = tables[i]
  BY <1>1, <1>2, <1>3
<1> HIDE DEF m
<1>5. CatalogOK(m, next, P)
  BY <1>2, <1>4 DEF CatalogOK
<1> QED BY <1>2, <1>4, <1>5 DEF m

LEMMA LinkNewPageInv == ASSUME Inv, LinkNewPage PROVE Inv'
<1>1. PICK t \in Tables : t = op.table
  BY DEF LinkNewPage, Inv, OpOK
<1>2. PICK p : p = LastPage(t)
  OBVIOUS
<1>3. /\ op.name = "link" /\ op.page \in InFile /\ op.page \in PageIds /\ op.value \in Values
      /\ p \in PageIds /\ p \in InFile /\ store[p] \in Page
  BY <1>1, <1>2, EntryOfTable DEF LinkNewPage, Inv, OpOK, InFile
<1>4. UNCHANGED <<durable, nextTableId_, metaFile, open, scan, rows, stray>>
  BY DEF LinkNewPage
<1>5. CASE /\ store' = [store EXCEPT ![p] = Linked(store[p], op.page)]
           /\ tablesMetadata_' = [tablesMetadata_ EXCEPT ![t].lastPageId = op.page]
           /\ op' = [op EXCEPT !.name = "grow", !.page = p]
           /\ Leaks(BrokenOff(t))
  <2>1. Linked(store[p], op.page) \in Page /\ Linked(store[p], op.page).rows = store[p].rows
    BY <1>3, PageSlots DEF Linked, Page
  <2>2. /\ PagesOK' /\ InFile' = InFile /\ store'[p] = Linked(store[p], op.page)
        /\ \A u \in PageIds \ {p} : store'[u] = store[u]
    BY <1>3, <1>4, <1>5, <2>1, WritePages, TableManagerAssumption DEF Inv
  <2>3. \A u \in PageIds : store'[u].rows = store[u].rows /\ (store[u] # Absent => store'[u] # Absent)
    BY <2>1, <2>2, TableManagerAssumption
  <2>4. CatalogOK(tablesMetadata_', nextTableId_, InFile) /\ Len(tablesMetadata_)' = Len(tablesMetadata_)
        /\ Tables' = Tables /\ tablesMetadata_'[t].lastPageId = op.page
    <3>1. CatalogOK(tablesMetadata_, nextTableId_, InFile) /\ t \in DOMAIN tablesMetadata_
          /\ op.page \in InFile /\ InFile \subseteq PageIds
      BY <1>3 DEF Inv, CatalogsOK, Tables, InFile
    <3> DEFINE m == [tablesMetadata_ EXCEPT ![t].lastPageId = op.page]
    <3>2. /\ CatalogOK(m, nextTableId_, InFile) /\ Len(m) = Len(tablesMetadata_)
          /\ DOMAIN m = DOMAIN tablesMetadata_ /\ m[t].lastPageId = op.page
      BY <3>1, MovedLastPage
    <3>3. tablesMetadata_' = m
      BY <1>5
    <3> HIDE DEF m
    <3> QED BY <3>2, <3>3 DEF Tables
  <2>5. CatalogsOK'
    BY <1>4, <2>2, <2>4 DEF Inv, CatalogsOK
  <2>6. /\ op'.name = "grow" /\ op'.table = t /\ op'.page = p /\ op'.value = op.value
        /\ p \in 0 .. MaxPages /\ OpTyped'
    <3>1. OpTyped /\ p \in 0 .. MaxPages
      BY <1>3 DEF Inv, OpOK, PageIds
    <3> QED BY <1>1, <1>5, <2>4, <3>1 DEF OpTyped
  <2>7. OpOK'
    BY <1>3, <2>2, <2>4, <2>6 DEF OpOK
  <2>8. NewRowOK'
    <3>1. AloneOn(op.page)
      BY <1>3 DEF Inv, RowsOK, NewRowOK
    <3>2. LastPage(t)' = op.page
      BY <2>4 DEF LastPage
    <3>3. store'[op.page] # Absent /\ store'[op.page].rows = <<op'.value>>
      BY <1>3, <2>3, <2>6, <3>1 DEF AloneOn
    <3>4. AloneOn(LastPage(op.table))'
      BY <1>4, <2>6, <3>1, <3>2, <3>3 DEF AloneOn, LastPage
    <3> QED BY <2>6, <3>4 DEF NewRowOK
  <2>9. rows' \subseteq Row /\ RowsReadable' /\ RidsUnique'
    BY <1>4, <2>3, RowFacts, RowsStay, TableManagerAssumption
  <2>10. ScanOK' /\ open' \in BOOLEAN
    <3>1. BrokenOff(t) \subseteq PageIds
      BY DEF BrokenOff, Chain
    <3> QED BY <1>4, <1>5, <3>1 DEF Inv, ScanOK, scan, Leaks
  <2> QED BY <2>2, <2>5, <2>7, <2>8, <2>9, <2>10 DEF Inv, RowsOK
<1>6. CASE op' = NoOp /\ Leaks({op.page}) /\ UNCHANGED <<store, tablesMetadata_>>
  <2>1. PagesOK' /\ CatalogsOK'
    BY <1>4, <1>6 DEF Inv, PagesOK, CatalogsOK, InFile
  <2>2. OpOK' /\ NewRowOK'
    BY <1>6, TablesFinite, NoOpOK
  <2>3. rows' \subseteq Row /\ RowsReadable' /\ RidsUnique'
    BY <1>4, <1>6, RowFacts, RowsStay, TableManagerAssumption
  <2>4. ScanOK' /\ open' \in BOOLEAN
    BY <1>3, <1>4, <1>6 DEF Inv, ScanOK, scan, Leaks
  <2> QED BY <2>1, <2>2, <2>3, <2>4 DEF Inv, RowsOK
<1> QED BY <1>1, <1>2, <1>5, <1>6 DEF LinkNewPage

LEMMA FinishInsertInv == ASSUME Inv, FinishInsert PROVE Inv'
<1>1. PICK t \in Tables : t = op.table
  BY DEF FinishInsert, Inv, OpOK
<1>2. PICK p : p = LastPage(t)
  OBVIOUS
<1>3. /\ op.name = "grow" /\ op.page \in InFile /\ op.value \in Values
      /\ p \in PageIds /\ store[p] \in Page /\ store[p].rows = <<op.value>>
      /\ \A r \in rows : r.rid.page # p
  BY <1>1, <1>2, EntryOfTable DEF FinishInsert, Inv, OpOK, RowsOK, NewRowOK, AloneOn
<1>4. op' = NoOp /\ UNCHANGED <<pageVars, nextTableId_, open, scan, leaked>>
  BY DEF FinishInsert
<1>5. PagesOK' /\ InFile' = InFile
  BY <1>4 DEF Inv, PagesOK, InFile, pageVars
<1>6. (SaveSucceeds \/ SaveFails) /\ (metaFile' # Torn => CatalogOK(metaFile'.tables, metaFile'.next, InFile'))
  BY <1>5, SavedCatalog DEF FinishInsert
<1>7. CatalogOK(tablesMetadata_', nextTableId_', InFile')
  <2>1. CASE tablesMetadata_' = tablesMetadata_
    BY <1>4, <1>5, <2>1 DEF Inv, CatalogsOK
  <2>2. CASE tablesMetadata_' = [tablesMetadata_ EXCEPT ![t].lastPageId = op.page]
    BY <1>3, <1>4, <1>5, <2>2, MovedLastPage DEF Inv, CatalogsOK, Tables, InFile
  <2> QED BY <1>1, <2>1, <2>2 DEF FinishInsert
<1>8. OpOK' /\ NewRowOK'
  BY <1>4, <1>7, NoOpOK DEF CatalogOK
<1>9. rows' \subseteq Row /\ RowsReadable' /\ RidsUnique'
  <2>1. CASE rows' = rows
    BY <1>4, <2>1, RowFacts, RowsStay, TableManagerAssumption DEF pageVars
  <2>2. CASE Reported(t, p, 1, op.value)
    <3>1. \A r \in rows : Readable(r)' /\ r.rid # [page |-> p, slot |-> 1]
      BY <1>3, <1>4 DEF Readable, LiveAt, Inv, RowsOK, RowsReadable, pageVars
    <3>2. store'[p] # Absent /\ 1 \in DOMAIN store'[p].rows /\ store'[p].rows[1] = op.value
      BY <1>3, <1>4, TableManagerAssumption DEF pageVars
    <3>3. 1 \in Nat \ {0}
      OBVIOUS
    <3> QED BY <1>3, <2>2, <3>1, <3>2, <3>3, ReportedRow
  <2> QED BY <1>1, <1>2, <2>1, <2>2 DEF FinishInsert
<1>10. ScanOK' /\ open' \in BOOLEAN
  <2>1. stray' \subseteq Rid
    <3>1. [page |-> p, slot |-> 1] \in Rid
      BY <1>3 DEF Rid
    <3> QED BY <1>1, <1>2, <3>1 DEF FinishInsert, Strays, Inv, ScanOK
  <2> QED BY <1>4, <2>1 DEF Inv, ScanOK, scan
<1> QED BY <1>5, <1>6, <1>7, <1>8, <1>9, <1>10 DEF Inv, RowsOK, CatalogsOK
-----------------------------------------------------------------------------
(***************************************************************************)
(* updateRow and deleteRow: one slot of one page.                          *)
(***************************************************************************)
LEMMA WrittenSlot ==
  ASSUME NEW page \in Page, NEW s \in DOMAIN page.rows, NEW v \in Values \cup {Tombstone}
  PROVE  LET q == [page EXCEPT !.rows[s] = v]
         IN  /\ q \in Page /\ DOMAIN q.rows = DOMAIN page.rows /\ q.rows[s] = v
             /\ \A i \in DOMAIN page.rows \ {s} : q.rows[i] = page.rows[i]
<1> DEFINE q == [page EXCEPT !.rows[s] = v]
           w == [page.rows EXCEPT ![s] = v]
<1>1. page.rows \in Seq(Values \cup {Tombstone})
  BY DEF Page
<1>2. /\ w \in Seq(Values \cup {Tombstone}) /\ DOMAIN w = DOMAIN page.rows /\ w[s] = v
      /\ \A i \in DOMAIN page.rows \ {s} : w[i] = page.rows[i]
  BY <1>1
<1>3. q = [page EXCEPT !.rows = w]
  OBVIOUS
<1> HIDE DEF w, q
<1>4. q \in Page /\ q.rows = w
  BY <1>2, <1>3 DEF Page
<1> QED BY <1>2, <1>4 DEF q

LEMMA SlotWrite ==
  ASSUME Inv, Idle, NEW r \in rows, NEW v \in Values \cup {Tombstone},
         store' = [store EXCEPT ![r.rid.page] = [store[r.rid.page] EXCEPT !.rows[r.rid.slot] = v]],
         UNCHANGED <<durable, catalog, metaFile, open, op>>
  PROVE  /\ PagesOK' /\ CatalogsOK' /\ OpOK' /\ NewRowOK' /\ open' \in BOOLEAN
         /\ \A x \in rows : x.rid # r.rid => Readable(x)'
         /\ store'[r.rid.page] # Absent /\ r.rid.slot \in DOMAIN store'[r.rid.page].rows
         /\ store'[r.rid.page].rows[r.rid.slot] = v
<1>1. PICK p : p = r.rid.page
  OBVIOUS
<1>2. PICK s : s = r.rid.slot
  OBVIOUS
<1>3. p \in PageIds /\ store[p] \in Page /\ s \in DOMAIN store[p].rows /\ r.rid = [page |-> p, slot |-> s]
  BY <1>1, <1>2, RowFacts
<1>4. PICK q : q = [store[p] EXCEPT !.rows[s] = v]
  OBVIOUS
<1>5. /\ q \in Page /\ DOMAIN q.rows = DOMAIN store[p].rows /\ q.rows[s] = v
      /\ \A i \in DOMAIN store[p].rows \ {s} : q.rows[i] = store[p].rows[i]
  BY <1>3, <1>4, WrittenSlot
<1>6. store' = [store EXCEPT ![p] = q]
  BY <1>1, <1>2, <1>4
<1>7. PagesOK' /\ InFile' = InFile /\ store'[p] = q /\ \A u \in PageIds \ {p} : store'[u] = store[u]
  BY <1>3, <1>5, <1>6, WritePages, TableManagerAssumption DEF Inv
<1>8. CatalogsOK'
  BY <1>7 DEF Inv, CatalogsOK, catalog
<1>9. OpOK' /\ NewRowOK'
  BY TablesFinite, NoOpOK DEF catalog, Idle
<1>10. ASSUME NEW x \in rows, x.rid # r.rid PROVE Readable(x)'
  <2>1. CASE x.rid.page = p
    <3>1. x.rid.slot # s
      BY <1>3, <1>10, <2>1, RowFacts
    <3>2. /\ x.rid.slot \in DOMAIN store[p].rows /\ store[p].rows[x.rid.slot] = x.value
          /\ x.value # Tombstone /\ q # Absent
      BY <1>5, <2>1, RowFacts, TableManagerAssumption
    <3>3. x.rid.slot \in DOMAIN q.rows /\ q.rows[x.rid.slot] = x.value
      BY <1>5, <3>1, <3>2
    <3>4. store'[x.rid.page] = q
      BY <1>7, <2>1
    <3> QED BY <3>2, <3>3, <3>4 DEF Readable, LiveAt
  <2>2. CASE x.rid.page # p
    <3>1. store'[x.rid.page] = store[x.rid.page]
      BY <1>7, <2>2, RowFacts
    <3> QED BY <3>1 DEF Readable, LiveAt, Inv, RowsOK, RowsReadable
  <2> QED BY <2>1, <2>2
<1>11. q # Absent
  BY <1>5, TableManagerAssumption
<1> QED BY <1>1, <1>2, <1>3, <1>5, <1>7, <1>8, <1>9, <1>10, <1>11 DEF Inv

LEMMA UpdateRowInv == ASSUME Inv, NEW r \in rows, NEW v \in Values, UpdateRow(r, v) PROVE Inv'
<1>1. PICK x : x = [r EXCEPT !.value = v]
  OBVIOUS
<1>2. x \in Row /\ x.rid = r.rid /\ x.value = v /\ v # Tombstone
  BY <1>1, RowFacts, TableManagerAssumption DEF Row
<1>3. rows' = (rows \ {r}) \cup {x} /\ UNCHANGED <<scan, losses>>
  BY <1>1 DEF UpdateRow
<1>4. /\ PagesOK' /\ CatalogsOK' /\ OpOK' /\ NewRowOK' /\ open' \in BOOLEAN
      /\ \A y \in rows : y.rid # r.rid => Readable(y)'
      /\ store'[r.rid.page] # Absent /\ r.rid.slot \in DOMAIN store'[r.rid.page].rows
      /\ store'[r.rid.page].rows[r.rid.slot] = v
  BY SlotWrite DEF UpdateRow
<1>5. \A y \in rows \ {r} : y.rid # r.rid
  BY DEF Inv, RowsOK, RidsUnique
<1>6. Readable(x)'
  BY <1>2, <1>4 DEF Readable, LiveAt
<1>7. rows' \subseteq Row /\ RowsReadable' /\ RidsUnique'
  <2>1. \A y \in rows' : y \in Row /\ Readable(y)'
    BY <1>2, <1>3, <1>4, <1>5, <1>6 DEF Inv, RowsOK
  <2>2. RidsUnique'
    BY <1>2, <1>3, <1>5 DEF RidsUnique, Inv, RowsOK
  <2> QED BY <2>1, <2>2 DEF RowsReadable, Readable
<1>8. ScanOK'
  BY <1>3 DEF Inv, ScanOK, scan, losses
<1> QED BY <1>4, <1>7, <1>8 DEF Inv, RowsOK

LEMMA DeleteRowInv == ASSUME Inv, NEW r \in rows, DeleteRow(r) PROVE Inv'
<1>1. /\ PagesOK' /\ CatalogsOK' /\ OpOK' /\ NewRowOK' /\ open' \in BOOLEAN
      /\ \A y \in rows : y.rid # r.rid => Readable(y)'
  BY SlotWrite DEF DeleteRow, WithTombstone
<1>2. \A y \in rows \ {r} : y.rid # r.rid
  BY DEF Inv, RowsOK, RidsUnique
<1>3. rows' = rows \ {r}
  BY DEF DeleteRow
<1>4. rows' \subseteq Row /\ RowsReadable' /\ RidsUnique'
  BY <1>1, <1>2, <1>3 DEF RowsReadable, Readable, RidsUnique, Inv, RowsOK
<1>5. ScanOK'
  BY DEF DeleteRow, Inv, ScanOK, losses
<1> QED BY <1>1, <1>4, <1>5 DEF Inv, RowsOK
-----------------------------------------------------------------------------
(***************************************************************************)
(* The file catches up with the pool, and the process starts again.        *)
(***************************************************************************)
LEMMA FlushPageInv == ASSUME Inv, NEW p \in PageIds, FlushPage(p) PROVE Inv'
<1>1. /\ PagesOK' /\ InFile' = InFile
      /\ UNCHANGED <<store, catalog, metaFile, open, op, scan, rows, losses>>
  BY DEF FlushPage, Inv, PagesOK, InFile
<1>2. CatalogsOK'
  BY <1>1 DEF Inv, CatalogsOK, catalog
<1>3. OpOK'
  BY <1>1 DEF Inv, OpOK, OpTyped, catalog, Tables
<1>4. RowsOK'
  BY <1>1 DEF Inv, RowsOK, RowsReadable, LiveAt, RidsUnique, NewRowOK, AloneOn, LastPage, catalog
<1>5. ScanOK' /\ open' \in BOOLEAN
  BY <1>1 DEF Inv, ScanOK, scan, losses
<1> QED BY <1>1, <1>2, <1>3, <1>4, <1>5 DEF Inv

LEMMA RestartInv == ASSUME Inv, Restart PROVE Inv'
<1>1. durable' \in {store, durable} /\ store' = durable'
  BY DEF Restart
<1>2. PagesOK' /\ InFile' = InFile
  BY <1>1 DEF Inv, PagesOK, InFile
<1>3. metaFile' # Torn => CatalogOK(metaFile'.tables, metaFile'.next, InFile')
  <2>1. metaFile' \in {metaFile, Torn, Serialized}
    BY DEF Restart, MidSave
  <2> QED BY <1>2, <2>1 DEF Serialized, Inv, CatalogsOK
<1>4. CatalogOK(tablesMetadata_', nextTableId_', InFile')
  <2>1. CASE UNCHANGED catalog
    BY <1>2, <2>1 DEF catalog, Inv, CatalogsOK
  <2>2. CASE Accepts(metaFile') /\ tablesMetadata_' = metaFile'.tables /\ nextTableId_' = metaFile'.next
    BY <1>3, <2>2 DEF Accepts
  <2> QED BY <2>1, <2>2 DEF Restart
<1>5. OpOK' /\ NewRowOK'
  BY <1>4, NoOpOK DEF Restart, CatalogOK
<1>6. rows' \subseteq Row /\ RowsReadable' /\ RidsUnique'
  <2>1. /\ rows' \subseteq rows
        /\ \A r \in rows' : /\ store'[r.rid.page] # Absent
                            /\ r.rid.slot \in DOMAIN store'[r.rid.page].rows
                            /\ store'[r.rid.page].rows[r.rid.slot] = r.value
    BY DEF Restart
  <2>2. \A r \in rows : r.value # Tombstone /\ r \in Row
    BY RowFacts, TableManagerAssumption
  <2> QED BY <2>1, <2>2 DEF RowsReadable, LiveAt, RidsUnique, Inv, RowsOK
<1>7. ScanOK'
  <2>1. iter' = NoScan /\ seen' = <<>> /\ due' = {} /\ UNCHANGED losses
    BY DEF Restart
  <2> QED BY <2>1, NoScanTyped DEF ScanOK, losses, Inv
<1>8. open' \in BOOLEAN
  BY DEF Restart, Accepts
<1> QED BY <1>2, <1>3, <1>4, <1>5, <1>6, <1>7, <1>8 DEF Inv, RowsOK, CatalogsOK

LEMMA InitInv == Init => Inv
<1> SUFFICES ASSUME Init PROVE Inv
  OBVIOUS
<1> USE DEF Init
<1>1. PagesOK
  BY DEF PagesOK
<1>2. CatalogsOK
  BY DEF CatalogsOK, CatalogOK, Serialized
<1>3. OpOK /\ NewRowOK
  BY NoOpFacts DEF OpOK, OpTyped, NewRowOK
<1>4. ScanOK /\ open \in BOOLEAN
  BY NoScanTyped DEF ScanOK
<1>5. RowsOK
  BY <1>3 DEF RowsOK, RowsReadable, RidsUnique
<1> QED BY <1>1, <1>2, <1>3, <1>4, <1>5 DEF Inv

LEMMA InvNext == Inv /\ [Next]_vars => Inv'
<1> SUFFICES ASSUME Inv, [Next]_vars PROVE Inv'
  OBVIOUS
<1>1. ASSUME NEW n \in Names, CreateTable(n) PROVE Inv'
  BY <1>1, CreateTableInv
<1>2. ASSUME NEW t \in Tables, NEW v \in Values, InsertInLastPage(t, v) \/ InsertInNewPage(t, v)
      PROVE  Inv'
  BY <1>2, InsertInLastPageInv, InsertInNewPageInv
<1>3. CASE FinishCreate \/ LinkNewPage \/ FinishInsert
  BY <1>3, FinishCreateInv, LinkNewPageInv, FinishInsertInv
<1>4. ASSUME NEW r \in rows, DeleteRow(r) \/ \E v \in Values : UpdateRow(r, v) PROVE Inv'
  BY <1>4, DeleteRowInv, UpdateRowInv
<1>5. ASSUME NEW t \in Tables, Scan(t) PROVE Inv'
  BY <1>5, ScanInv
<1>6. CASE HasNext \/ TurnPage \/ SkipTombstone \/ LoadRow \/ LoadFails \/ TakeNext
  BY <1>6, HasNextInv, TurnPageInv, SkipTombstoneInv, LoadRowInv, LoadFailsInv, TakeNextInv
<1>7. ASSUME NEW p \in PageIds, FlushPage(p) PROVE Inv'
  BY <1>7, FlushPageInv
<1>8. CASE Restart
  BY <1>8, RestartInv
<1>9. CASE UNCHANGED vars
  <2>1. UNCHANGED <<pageVars, catalog, metaFile, open, rows>> /\ op' = op /\ UNCHANGED <<scan, losses>>
    BY <1>9 DEF vars
  <2>2. ScanOK'
    BY <2>1 DEF Inv, ScanOK, scan, losses
  <2> QED BY <2>1, <2>2, ScanStep
<1> QED BY <1>1, <1>2, <1>3, <1>4, <1>5, <1>6, <1>7, <1>8, <1>9 DEF Next

LEMMA InvAlways == Spec => []Inv
BY InitInv, InvNext, PTL DEF Spec

(***************************************************************************)
(* The types of the manager's state.                                       *)
(***************************************************************************)
THEOREM TablesTypeCorrect == Spec => []TypeOK
BY InvTypes, InvAlways, PTL

(***************************************************************************)
(* A row whose insertion insertRow reported is where it said, with its     *)
(* last value, until it is deleted or a crash loses it, whatever other     *)
(* calls have failed.                                                      *)
(***************************************************************************)
THEOREM RowsAlwaysReadable == Spec => []RowsReadable
<1>1. Inv => RowsReadable
  BY DEF Inv, RowsOK
<1> QED BY <1>1, InvAlways, PTL

(***************************************************************************)
(* load accepts every tables.meta that was not cut short.                  *)
(***************************************************************************)
THEOREM CatalogAlwaysLoads == Spec => []CatalogLoads
<1>1. Inv => CatalogLoads
  BY DEF Inv, CatalogsOK, CatalogOK, CatalogLoads, Accepts, InFile
<1> QED BY <1>1, InvAlways, PTL

(***************************************************************************)
(* tables.meta never names a page that the page file has not.              *)
(***************************************************************************)
THEOREM CatalogPagesAlwaysExist == Spec => []CatalogPagesExist
<1>1. Inv => CatalogPagesExist
  BY DEF Inv, CatalogsOK, CatalogOK, CatalogPagesExist, InFile
<1> QED BY <1>1, InvAlways, PTL
-----------------------------------------------------------------------------
(***************************************************************************)
(* A save that fails leaves the old file, and no process dies.  Then what  *)
(* the undoing of a call restores in memory is what the file has.          *)
(***************************************************************************)
CleanSaves == SaveFaults \subseteq {"unopened"} /\ ~Crashes

FileBehind ==
  /\ op.name \in {"none", "load", "link"} => metaFile = Serialized
  /\ op.name = "create" => metaFile = [next |-> nextTableId_ - 1, tables |-> Shortened(tablesMetadata_)]
  /\ op.name = "grow" =>
       metaFile = [next |-> nextTableId_,
                   tables |-> [tablesMetadata_ EXCEPT ![op.table].lastPageId = op.page]]

LEMMA BehindStays ==
  ASSUME FileBehind, UNCHANGED <<catalog, metaFile>>,
         \/ op' = op
         \/ op.name \in {"none", "load", "link"} /\ op'.name \in {"none", "load", "link"}
  PROVE  FileBehind'
<1>1. CASE op' = op
  BY <1>1 DEF FileBehind, catalog, Serialized
<1>2. CASE op.name \in {"none", "load", "link"} /\ op'.name \in {"none", "load", "link"}
  BY <1>2 DEF FileBehind, catalog, Serialized
<1> QED BY <1>1, <1>2

LEMMA MovedBack ==
  ASSUME NEW tables \in Seq(Entry), NEW t \in DOMAIN tables, NEW p
  PROVE  [[tables EXCEPT ![t].lastPageId = p] EXCEPT ![t].lastPageId = tables[t].lastPageId] = tables
<1> DEFINE e == [tables[t] EXCEPT !.lastPageId = p]
           m == [tables EXCEPT ![t] = e]
           b == [e EXCEPT !.lastPageId = tables[t].lastPageId]
<1>1. tables[t] \in Entry
  OBVIOUS
<1>2. b = tables[t]
  BY <1>1 DEF Entry
<1>3. [tables EXCEPT ![t].lastPageId = p] = m
  OBVIOUS
<1>4. m[t] = e
  OBVIOUS
<1>5. [m EXCEPT ![t].lastPageId = tables[t].lastPageId] = [m EXCEPT ![t] = b]
  BY <1>4
<1>6. [m EXCEPT ![t] = tables[t]] = tables
  <2>1. tables \in [1 .. Len(tables) -> Entry] /\ DOMAIN tables = 1 .. Len(tables)
    OBVIOUS
  <2>2. tables = [i \in DOMAIN tables |-> tables[i]]
    BY <2>1
  <2>3. [m EXCEPT ![t] = tables[t]] = [i \in DOMAIN tables |-> tables[i]]
    BY Zenon
  <2> QED BY <2>2, <2>3, Zenon
<1> HIDE DEF m, b
<1> QED BY <1>2, <1>3, <1>5, <1>6

LEMMA FileBehindNext ==
  ASSUME ~Crashes, Inv, FileBehind, Next, SaveFails => metaFile' = metaFile
  PROVE  FileBehind'
<1>1. SaveFails => metaFile' = metaFile
  OBVIOUS
<1>2. ASSUME NEW n \in Names, CreateTable(n) PROVE FileBehind'
  <2>1. PICK p \in PageIds :
          tablesMetadata_' = Append(tablesMetadata_,
             [tableId |-> nextTableId_, name |-> n, firstPageId |-> p, lastPageId |-> p])
    BY <1>2 DEF CreateTable, FreshPages
  <2>2. op.name = "none" /\ op'.name = "create" /\ metaFile' = metaFile /\ nextTableId_' = nextTableId_ + 1
    BY <1>2, NoOpFacts DEF CreateTable, Idle, NoOp, IdAfterCreate
  <2>3. nextTableId_ \in Nat
    BY DEF Inv, CatalogsOK, CatalogOK
  <2>4. [tableId |-> nextTableId_, name |-> n, firstPageId |-> p, lastPageId |-> p] \in Entry
    BY <2>3 DEF Entry
  <2>5. Shortened(tablesMetadata_') = tablesMetadata_
    BY <2>1, <2>4, TablesFinite, ShortenedAppend
  <2>6. nextTableId_' - 1 = nextTableId_
    BY <2>2, <2>3
  <2>7. metaFile = [next |-> nextTableId_, tables |-> tablesMetadata_]
    BY <2>2 DEF FileBehind, Serialized
  <2> QED BY <2>2, <2>5, <2>6, <2>7 DEF FileBehind
<1>3. CASE FinishCreate
  <2>1. op.name = "create" /\ op'.name = "none"
    BY <1>3, NoOpFacts DEF FinishCreate
  <2>2. CASE SaveSucceeds /\ UNCHANGED catalog
    BY <2>1, <2>2 DEF SaveSucceeds, Serialized, catalog, FileBehind
  <2>3. CASE /\ SaveFails /\ nextTableId_' = nextTableId_ - 1
             /\ tablesMetadata_' = Shortened(tablesMetadata_)
    BY <1>1, <2>1, <2>3 DEF Serialized, FileBehind
  <2> QED BY <1>3, <2>2, <2>3 DEF FinishCreate, IdBeforeCreate, Shortened
<1>4. ASSUME NEW t \in Tables, NEW v \in Values, InsertInLastPage(t, v) PROVE FileBehind'
  BY <1>4, NoOpFacts, BehindStays DEF InsertInLastPage, Idle
<1>5. ASSUME NEW t \in Tables, NEW v \in Values, InsertInNewPage(t, v) PROVE FileBehind'
  <2>1. op.name = "none" /\ UNCHANGED <<catalog, metaFile>>
    BY <1>5, NoOpFacts DEF InsertInNewPage, Idle
  <2>2. op' = op \/ op'.name = "link"
    BY <1>5 DEF InsertInNewPage
  <2> QED BY <2>1, <2>2, BehindStays
<1>6. CASE LinkNewPage
  <2>1. op.name = "link" /\ metaFile = [next |-> nextTableId_, tables |-> tablesMetadata_]
        /\ metaFile' = metaFile /\ nextTableId_' = nextTableId_
    BY <1>6 DEF LinkNewPage, FileBehind, Serialized
  <2>2. CASE op' = NoOp /\ UNCHANGED tablesMetadata_
    BY <2>1, <2>2, NoOpFacts, BehindStays DEF catalog
  <2>3. CASE /\ tablesMetadata_' = [tablesMetadata_ EXCEPT ![op.table].lastPageId = op.page]
             /\ op' = [op EXCEPT !.name = "grow", !.page = LastPage(op.table)]
    <3>1. op'.name = "grow" /\ op'.table = op.table /\ op'.page = tablesMetadata_[op.table].lastPageId
      BY <2>3 DEF Inv, OpOK, OpTyped, LastPage
    <3>2. op.table \in DOMAIN tablesMetadata_ /\ tablesMetadata_ \in Seq(Entry)
      BY <2>1, TablesFinite DEF Inv, OpOK, Tables
    <3>3. [tablesMetadata_' EXCEPT ![op.table].lastPageId = tablesMetadata_[op.table].lastPageId]
            = tablesMetadata_
      BY <2>3, <3>2, MovedBack
    <3> QED BY <2>1, <3>1, <3>3 DEF FileBehind
  <2> QED BY <1>6, <2>2, <2>3 DEF LinkNewPage
<1>7. CASE FinishInsert
  <2>1. op.name = "grow" /\ op'.name = "none" /\ nextTableId_' = nextTableId_
    BY <1>7, NoOpFacts DEF FinishInsert
  <2>2. CASE SaveSucceeds /\ UNCHANGED tablesMetadata_
    BY <2>1, <2>2 DEF SaveSucceeds, Serialized, FileBehind
  <2>3. CASE /\ SaveFails
             /\ tablesMetadata_' = [tablesMetadata_ EXCEPT ![op.table].lastPageId = op.page]
    BY <1>1, <2>1, <2>3 DEF Serialized, FileBehind
  <2> QED BY <1>7, <2>2, <2>3 DEF FinishInsert
<1>8. CASE \E r \in rows : DeleteRow(r) \/ \E v \in Values : UpdateRow(r, v)
  BY <1>8, BehindStays DEF DeleteRow, UpdateRow
<1>9. CASE \E t \in Tables : Scan(t)
  BY <1>9, BehindStays DEF Scan
<1>10. CASE HasNext
  <2>1. op.name = "none" /\ op'.name = "load"
    BY <1>10, NoOpFacts DEF HasNext, Idle, NoOp
  <2> QED BY <1>10, <2>1, BehindStays DEF HasNext
<1>11. CASE TurnPage \/ SkipTombstone \/ LoadRow \/ LoadFails
  <2>1. op.name = "load" /\ UNCHANGED <<catalog, metaFile>> /\ (op' = op \/ op' = NoOp)
    BY <1>11 DEF TurnPage, SkipTombstone, LoadRow, LoadFails, Loads, Loading
  <2> QED BY <2>1, NoOpFacts, BehindStays
<1>12. CASE TakeNext
  BY <1>12, BehindStays DEF TakeNext
<1>13. CASE \E p \in PageIds : FlushPage(p)
  BY <1>13, BehindStays DEF FlushPage
<1>14. CASE Restart
  <2>1. op.name = "none" /\ op'.name = "none" /\ metaFile' = metaFile
    BY <1>14, NoOpFacts DEF Restart
  <2>2. metaFile = [next |-> nextTableId_, tables |-> tablesMetadata_]
    BY <2>1 DEF FileBehind, Serialized
  <2>3. UNCHANGED catalog
    BY <1>14, <2>1, <2>2 DEF Restart, catalog
  <2> QED BY <2>1, <2>3, BehindStays
<1> QED BY <1>2, <1>3, <1>4, <1>5, <1>6, <1>7, <1>8, <1>9, <1>10, <1>11, <1>12, <1>13, <1>14 DEF Next

(***************************************************************************)
(* Between calls tables.meta holds the catalog in memory: createTable and  *)
(* insertRow take back what a failed save was to record.                   *)
(***************************************************************************)
THEOREM CatalogAlwaysSaved == ASSUME CleanSaves PROVE Spec => []CatalogSaved
<1>1. Init => FileBehind
  BY NoOpFacts DEF Init, FileBehind
<1>2. Inv /\ FileBehind /\ [Next]_vars => FileBehind'
  <2>1. ASSUME FileBehind, UNCHANGED vars PROVE FileBehind'
    BY <2>1, BehindStays DEF vars
  <2>2. SaveFails => metaFile' = metaFile
    BY DEF SaveFails, CleanSaves
  <2> QED BY <2>1, <2>2, FileBehindNext DEF CleanSaves
<1>3. FileBehind => CatalogSaved
  BY NoOpFacts DEF FileBehind, CatalogSaved, Idle
<1> QED BY <1>1, <1>2, <1>3, InvAlways, PTL DEF Spec
=============================================================================
