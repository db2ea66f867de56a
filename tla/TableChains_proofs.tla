-------------------------- MODULE TableChains_proofs --------------------------
(***************************************************************************)
(* The chains of pages, for any number of tables, pages and rows: what     *)
(* scans return of them, and what they have in common with the catalog.    *)
(***************************************************************************)
EXTENDS TableManager_proofs

(***************************************************************************)
(* An iterator returns no row twice, whatever is inserted, deleted or lost *)
(* while it runs.  A link always leads to a page with a larger id, because *)
(* a page is linked right after it was allocated, and ids only grow; so    *)
(* the iterator's position only grows.                                     *)
(***************************************************************************)

Forward(f) == \A p \in PageIds : f[p] # Absent => f[p].next = 0 \/ f[p].next > p

NoGaps == \A p, q \in PageIds : store[p] # Absent /\ q < p => store[q] # Absent

NewIsLarger == op.name = "link" => LastPage(op.table) < op.page

LinksOK == Forward(store) /\ Forward(durable) /\ NoGaps /\ NewIsLarger

(***************************************************************************)
(* Rows in front of the iterator's position.  A page id of 0 is that of a  *)
(* page never written; nothing is read after it.                           *)
(***************************************************************************)
Before(r) == \/ r.page < iter.nextPageId
             \/ r.page = iter.nextPageId /\ r.slot < iter.nextSlotId

PositionOK ==
  /\ ScanOnce
  /\ iter.nextPageId # 0 => \A i \in DOMAIN seen : Before(seen[i])
  /\ iter.cached # Nil => /\ iter.nextPageId # 0 /\ Before(iter.cached)
                          /\ \A i \in DOMAIN seen : seen[i] # iter.cached
  /\ op.name = "load" => iter.cached = Nil

(***************************************************************************)
(* Links.                                                                  *)
(***************************************************************************)
LEMMA FreshIsLarger ==
  ASSUME Inv, LinksOK, NEW p \in FreshPages, NEW q \in PageIds, store[q] # Absent
  PROVE  q < p
<1>1. p \in PageIds /\ store[p] = Absent /\ p # q /\ p \in Nat /\ q \in Nat
  BY DEF FreshPages, PageIds
<1>2. ~(p < q)
  BY <1>1 DEF LinksOK, NoGaps
<1> QED BY <1>1, <1>2

LEMMA NewPageLinks ==
  ASSUME Inv, LinksOK, NEW p, NEW page \in Page, NewPage(p, page), page.next = INVALID_PAGE_ID
  PROVE  Forward(store)' /\ Forward(durable)' /\ NoGaps'
<1>1. /\ p \in PageIds /\ store[p] = Absent /\ \A q \in 1 .. p - 1 : store[q] # Absent
      /\ store' = [store EXCEPT ![p] = page] /\ durable' = [durable EXCEPT ![p] = ZeroPage]
  BY DEF NewPage, FreshPages, Extended
<1>2. page # Absent /\ ZeroPage.next = 0 /\ page.next > p
  BY <1>1, TableManagerAssumption DEF ZeroPage, INVALID_PAGE_ID, PageIds
<1>3. /\ store'[p] = page /\ durable'[p] = ZeroPage
      /\ \A q \in PageIds \ {p} : store'[q] = store[q] /\ durable'[q] = durable[q]
  BY <1>1 DEF Inv, PagesOK
<1>4. Forward(store)' /\ Forward(durable)'
  BY <1>2, <1>3 DEF LinksOK, Forward
<1>5. ASSUME NEW q \in PageIds, NEW u \in PageIds, store'[q] # Absent, u < q PROVE store'[u] # Absent
  <2>1. CASE q = p
    <3>1. u \in 1 .. p - 1 /\ u # p
      BY <1>1, <1>5, <2>1 DEF PageIds
    <3> QED BY <1>1, <1>3, <3>1
  <2>2. CASE q # p
    BY <1>2, <1>3, <1>5, <2>2 DEF LinksOK, NoGaps
  <2> QED BY <2>1, <2>2
<1> QED BY <1>4, <1>5 DEF NoGaps

LEMMA SameLinks ==
  ASSUME Inv, LinksOK, durable' = durable, op'.name # "link",
         \A p \in PageIds : /\ store'[p] # Absent <=> store[p] # Absent
                            /\ store[p] # Absent => store'[p].next = store[p].next
  PROVE  LinksOK'
BY DEF LinksOK, Forward, NoGaps, NewIsLarger

LEMMA WrittenPage ==
  ASSUME Inv, NEW p \in PageIds, store[p] # Absent, NEW page \in Page,
         store' = [store EXCEPT ![p] = page], page.next = store[p].next
  PROVE  \A q \in PageIds : /\ store'[q] # Absent <=> store[q] # Absent
                            /\ store[q] # Absent => store'[q].next = store[q].next
<1>1. page # Absent
  BY TableManagerAssumption
<1> QED BY <1>1 DEF Inv, PagesOK

(* An update or a deletion leaves the links. *)
LEMMA RowLinks ==
  ASSUME Inv, NEW r \in rows, DeleteRow(r) \/ \E v \in Values : UpdateRow(r, v)
  PROVE  /\ UNCHANGED <<durable, catalog, metaFile, op>>
         /\ \A p \in PageIds : /\ store'[p] # Absent <=> store[p] # Absent
                               /\ store[p] # Absent => store'[p].next = store[p].next
<1>1. PICK v \in Values \cup {Tombstone} :
        store' = [store EXCEPT ![r.rid.page] = [store[r.rid.page] EXCEPT !.rows[r.rid.slot] = v]]
  BY DEF DeleteRow, UpdateRow, WithTombstone
<1>2. PICK q : q = [store[r.rid.page] EXCEPT !.rows[r.rid.slot] = v]
  OBVIOUS
<1>3. PICK p : p = r.rid.page
  OBVIOUS
<1>4. PICK s : s = r.rid.slot
  OBVIOUS
<1>5. p \in PageIds /\ store[p] \in Page /\ store[p] # Absent /\ s \in DOMAIN store[p].rows
  BY <1>3, <1>4, RowFacts, TableManagerAssumption
<1>6. q \in Page
  BY <1>2, <1>3, <1>4, <1>5, WrittenSlot
<1>7. q.next = store[p].next
  BY <1>2, <1>3, <1>5 DEF Page
<1>8. UNCHANGED <<durable, catalog, metaFile, op>>
  BY DEF DeleteRow, UpdateRow
<1>9. store' = [store EXCEPT ![p] = q]
  BY <1>1, <1>2, <1>3
<1> QED BY <1>5, <1>6, <1>7, <1>8, <1>9, WrittenPage

(* So does an insertion in the last page. *)
LEMMA InsertLinks ==
  ASSUME Inv, NEW t \in Tables, NEW v \in Values, InsertInLastPage(t, v)
  PROVE  /\ UNCHANGED <<durable, catalog, metaFile, op>>
         /\ \A p \in PageIds : /\ store'[p] # Absent <=> store[p] # Absent
                               /\ store[p] # Absent => store'[p].next = store[p].next
<1>1. PICK p \in PageIds : p = LastPage(t)
  BY EntryOfTable
<1>2. store[p] \in Page /\ store[p] # Absent
  BY <1>1, EntryOfTable, TableManagerAssumption
<1>3. PICK q : q = [store[p] EXCEPT !.rows = Append(@, v)]
  OBVIOUS
<1>4. q \in Page /\ q.next = store[p].next
  BY <1>2, <1>3, AppendedRow DEF Page
<1>5. store' = [store EXCEPT ![p] = q] /\ UNCHANGED <<durable, catalog, metaFile, op>>
  BY <1>1, <1>3 DEF InsertInLastPage, WithRow
<1> QED BY <1>2, <1>4, <1>5, WrittenPage

LEMMA LinksNext ==
  ASSUME Inv, LinksOK, Next
  PROVE  LinksOK'
<1>1. ASSUME NEW n \in Names, CreateTable(n) PROVE LinksOK'
  <2>1. PICK p : NewPage(p, TablePage(<<>>))
    BY <1>1 DEF CreateTable
  <2>2. op'.name = "create" /\ TablePage(<<>>).next = INVALID_PAGE_ID
    BY <1>1 DEF CreateTable, NoOp, TablePage
  <2>3. TablePage(<<>>) \in Page
    BY EmptyRows, NewTablePage
  <2> QED BY <2>1, <2>2, <2>3, NewPageLinks DEF LinksOK, NewIsLarger
<1>2. ASSUME NEW t \in Tables, NEW v \in Values, InsertInLastPage(t, v) PROVE LinksOK'
  <2>1. op'.name # "link"
    BY <1>2, NoOpFacts DEF InsertInLastPage, Idle
  <2> QED BY <1>2, <2>1, InsertLinks, SameLinks
<1>3. ASSUME NEW t \in Tables, NEW v \in Values, InsertInNewPage(t, v) PROVE LinksOK'
  <2>1. PICK p \in FreshPages :
          \/ NewPage(p, TablePage(<<>>)) /\ op' = op
          \/ NewPage(p, TablePage(<<v>>)) /\ op' = [name |-> "link", table |-> t, page |-> p, value |-> v]
    BY <1>3 DEF InsertInNewPage
  <2>2. PICK page \in Page : NewPage(p, page) /\ page.next = INVALID_PAGE_ID
    BY <2>1, EmptyRows, OneRow, NewTablePage DEF TablePage
  <2>3. op.name # "link" /\ UNCHANGED catalog
    BY <1>3, NoOpFacts DEF InsertInNewPage, Idle
  <2>4. LastPage(t) < p /\ LastPage(t)' = LastPage(t)
    BY <2>3, EntryOfTable, FreshIsLarger, TableManagerAssumption DEF LastPage, catalog
  <2>5. NewIsLarger'
    <3>1. CASE op' = op
      BY <2>3, <3>1 DEF NewIsLarger
    <3>2. CASE op' = [name |-> "link", table |-> t, page |-> p, value |-> v]
      BY <2>4, <3>2 DEF NewIsLarger, LastPage
    <3> QED BY <2>1, <3>1, <3>2
  <2> QED BY <2>2, <2>5, NewPageLinks DEF LinksOK
<1>4. CASE LinkNewPage
  <2>1. PICK t \in Tables : t = op.table
    BY <1>4 DEF LinkNewPage, Inv, OpOK
  <2>2. PICK p \in PageIds : p = LastPage(t)
    BY EntryOfTable
  <2>3. store[p] \in Page /\ op.page \in PageIds /\ p < op.page /\ durable' = durable
    BY <1>4, <2>1, <2>2, EntryOfTable DEF LinkNewPage, LinksOK, NewIsLarger, Inv, OpOK, InFile
  <2>4. CASE store' = [store EXCEPT ![p] = Linked(store[p], op.page)] /\ op'.name = "grow"
    <3>1. Linked(store[p], op.page) \in Page /\ Linked(store[p], op.page).next = op.page
      BY <2>3, PageSlots DEF Linked, Page
    <3>2. \A q \in PageIds \ {p} : store'[q] = store[q]
      BY <2>4 DEF Inv, PagesOK
    <3>3. store'[p] = Linked(store[p], op.page) /\ store'[p] # Absent /\ store[p] # Absent
      BY <2>3, <2>4, <3>1, TableManagerAssumption DEF Inv, PagesOK
    <3>4. Forward(store)'
      BY <2>3, <3>1, <3>2, <3>3 DEF LinksOK, Forward
    <3>5. NoGaps'
      BY <3>2, <3>3 DEF LinksOK, NoGaps
    <3> QED BY <2>3, <2>4, <3>4, <3>5 DEF LinksOK, Forward, NewIsLarger
  <2>5. CASE UNCHANGED store /\ op' = NoOp
    BY <2>3, <2>5, NoOpFacts, SameLinks
  <2>6. [op EXCEPT !.name = "grow", !.page = p].name = "grow"
    BY DEF Inv, OpOK, OpTyped
  <2> QED BY <1>4, <2>1, <2>2, <2>4, <2>5, <2>6 DEF LinkNewPage
<1>5. CASE FinishCreate \/ FinishInsert
  <2>1. UNCHANGED pageVars /\ op'.name # "link"
    BY <1>5, NoOpFacts DEF FinishCreate, FinishInsert
  <2> QED BY <2>1, SameLinks DEF pageVars
<1>6. ASSUME NEW r \in rows, DeleteRow(r) \/ \E v \in Values : UpdateRow(r, v) PROVE LinksOK'
  <2>1. op'.name # "link"
    BY <1>6, NoOpFacts DEF DeleteRow, UpdateRow, Idle
  <2> QED BY <1>6, <2>1, RowLinks, SameLinks
<1>7. CASE \/ \E t \in Tables : Scan(t)
           \/ HasNext \/ TurnPage \/ SkipTombstone \/ LoadRow \/ LoadFails \/ TakeNext
  <2>1. UNCHANGED pageVars /\ op'.name # "link"
    BY <1>7, NoOpFacts
       DEF Scan, HasNext, TurnPage, SkipTombstone, LoadRow, LoadFails, TakeNext, Loads, Loading, Idle, NoOp
  <2> QED BY <2>1, SameLinks DEF pageVars
<1>8. ASSUME NEW p \in PageIds, FlushPage(p) PROVE LinksOK'
  <2>1. UNCHANGED <<store, catalog, op>> /\ durable' = [durable EXCEPT ![p] = store[p]]
    BY <1>8 DEF FlushPage
  <2>2. Forward(durable)'
    BY <2>1 DEF LinksOK, Forward, Inv, PagesOK
  <2> QED BY <2>1, <2>2 DEF LinksOK, Forward, NoGaps, NewIsLarger, LastPage, catalog
<1>9. CASE Restart
  <2>1. durable' \in {store, durable} /\ store' = durable' /\ op' = NoOp
    BY <1>9 DEF Restart
  <2> QED BY <2>1, NoOpFacts DEF LinksOK, Forward, NoGaps, NewIsLarger, Inv, PagesOK
<1> QED BY <1>1, <1>2, <1>3, <1>4, <1>5, <1>6, <1>7, <1>8, <1>9 DEF Next
-----------------------------------------------------------------------------
(***************************************************************************)
(* The iterator's position.                                                *)
(***************************************************************************)
LEMMA RidOrder ==
  ASSUME Inv
  PROVE  /\ iter.nextPageId \in Nat /\ iter.nextSlotId \in Nat /\ Len(seen) \in Nat
         /\ DOMAIN seen = 1 .. Len(seen)
         /\ \A i \in DOMAIN seen : seen[i] \in Rid /\ seen[i].page \in Nat /\ seen[i].slot \in Nat
<1>1. iter \in Iters /\ seen \in Seq(Rid) /\ INVALID_PAGE_ID \in Nat
  BY PageSlots DEF Inv, ScanOK
<1>2. iter.nextPageId \in Nat /\ iter.nextSlotId \in Nat
  BY <1>1 DEF Iters
<1>3. \A i \in DOMAIN seen : seen[i] \in Rid
  BY <1>1
<1>4. \A r \in Rid : r.page \in Nat /\ r.slot \in Nat
  BY DEF Rid, PageIds
<1> QED BY <1>1, <1>2, <1>3, <1>4

LEMMA PositionKept ==
  ASSUME PositionOK, UNCHANGED <<iter, seen>>, op'.name = "load" => op.name = "load" \/ iter.cached = Nil
  PROVE  PositionOK'
BY DEF PositionOK, ScanOnce, Before

LEMMA PositionReset ==
  ASSUME seen' = <<>>, iter'.cached = Nil
  PROVE  PositionOK'
BY DEF PositionOK, ScanOnce

LEMMA TurnPagePosition == ASSUME Inv, LinksOK, PositionOK, TurnPage PROVE PositionOK'
<1>1. PICK p \in PageIds : /\ p = iter.nextPageId /\ store[p] # Absent /\ op.name = "load"
                           /\ iter' = [iter EXCEPT !.nextPageId = store[p].next, !.nextSlotId = 1]
                           /\ seen' = seen
  BY DEF TurnPage, Loads, Loading
<1>2. store[p].next \in Nat /\ p # 0 /\ (store[p].next = 0 \/ store[p].next > p)
  <2>1. store[p] \in Page
    BY <1>1 DEF Inv, PagesOK
  <2> QED BY <1>1, <2>1, PageSlots DEF Page, LinksOK, Forward, PageIds
<1>3. iter'.nextPageId = store[p].next /\ iter'.cached = Nil
  <2>1. iter \in Iters
    BY DEF Inv, ScanOK
  <2>2. iter.cached = Nil
    BY <1>1 DEF PositionOK
  <2> QED BY <1>1, <2>1, <2>2 DEF Iters
<1>4. \A i \in DOMAIN seen : seen[i].page <= p
  BY <1>1, <1>2, RidOrder DEF PositionOK, Before, PageIds
<1>5. ASSUME store[p].next > p, NEW i \in DOMAIN seen PROVE seen[i].page < store[p].next
  BY <1>2, <1>4, <1>5, RidOrder DEF PageIds
<1>6. iter'.nextPageId # 0 => \A i \in DOMAIN seen' : Before(seen[i])'
  BY <1>1, <1>2, <1>3, <1>5 DEF Before
<1> QED BY <1>1, <1>3, <1>6 DEF PositionOK, ScanOnce

LEMMA SkipTombstonePosition == ASSUME Inv, PositionOK, SkipTombstone PROVE PositionOK'
<1>1. /\ iter' = [iter EXCEPT !.nextSlotId = iter.nextSlotId + 1]
      /\ UNCHANGED <<op, seen>> /\ op.name = "load"
  BY DEF SkipTombstone, SlotAfterTombstone, Loads, Loading
<1>2. iter'.nextPageId = iter.nextPageId /\ iter'.nextSlotId = iter.nextSlotId + 1 /\ iter'.cached = Nil
  BY <1>1 DEF PositionOK, Inv, ScanOK, Iters
<1>3. \A i \in DOMAIN seen : Before(seen[i]) => Before(seen[i])'
  BY <1>1, <1>2, RidOrder DEF Before
<1> QED BY <1>1, <1>2, <1>3 DEF PositionOK, ScanOnce

LEMMA LoadRowPosition == ASSUME Inv, PositionOK, LoadRow PROVE PositionOK'
<1>1. /\ iter' = [iter EXCEPT !.cached = [page |-> iter.nextPageId, slot |-> iter.nextSlotId],
                             !.nextSlotId = iter.nextSlotId + 1]
      /\ iter.nextPageId \in PageIds /\ op' = NoOp /\ seen' = seen
  BY DEF LoadRow, Loads, SlotAfterRow
<1>2. PICK c : c = [page |-> iter.nextPageId, slot |-> iter.nextSlotId]
  OBVIOUS
<1>3. /\ iter'.nextPageId = iter.nextPageId /\ iter'.nextSlotId = iter.nextSlotId + 1
      /\ iter'.cached = c
  <2>1. iter \in Iters
    BY DEF Inv, ScanOK
  <2> QED BY <1>1, <1>2, <2>1 DEF Iters
<1>4. \A i \in DOMAIN seen : Before(seen[i])' /\ seen[i] # c
  BY <1>1, <1>2, <1>3, RidOrder DEF Before, PositionOK, PageIds
<1>5. c.page = iter'.nextPageId /\ c.slot < iter'.nextSlotId /\ iter'.nextPageId # 0
  BY <1>1, <1>2, <1>3, RidOrder DEF PageIds
<1>6. op'.name # "load"
  BY <1>1, NoOpFacts
<1> QED BY <1>1, <1>3, <1>4, <1>5, <1>6 DEF PositionOK, ScanOnce, Before

LEMMA TakeNextPosition == ASSUME Inv, PositionOK, TakeNext PROVE PositionOK'
<1>1. PICK c : c = iter.cached
  OBVIOUS
<1>2. c # Nil /\ iter' = [iter EXCEPT !.cached = Nil] /\ seen' = Append(seen, c) /\ op' = NoOp
  BY <1>1 DEF TakeNext, Idle
<1>3. /\ iter'.nextPageId = iter.nextPageId /\ iter'.nextSlotId = iter.nextSlotId
      /\ iter'.cached = Nil /\ c \in Rid
  BY <1>1, <1>2 DEF Inv, ScanOK, Iters
<1>4. Before(c) /\ \A i \in DOMAIN seen : Before(seen[i]) /\ seen[i] # c
  BY <1>1, <1>2 DEF PositionOK
<1>5. /\ DOMAIN seen' = 1 .. Len(seen) + 1 /\ seen'[Len(seen) + 1] = c
      /\ \A i \in DOMAIN seen : seen'[i] = seen[i]
  <2>1. seen \in Seq(Rid)
    BY DEF Inv, ScanOK
  <2> QED BY <1>2, <1>3, <2>1
<1>6. \A i \in DOMAIN seen' : i \in DOMAIN seen \/ i = Len(seen) + 1
  BY <1>5, RidOrder
<1>7. ScanOnce'
  BY <1>4, <1>5, <1>6 DEF ScanOnce, PositionOK
<1>8. \A i \in DOMAIN seen' : Before(seen[i])'
  BY <1>3, <1>4, <1>5, <1>6 DEF Before
<1> QED BY <1>2, <1>3, <1>7, <1>8, NoOpFacts DEF PositionOK

LEMMA PositionNext == ASSUME Inv, LinksOK, PositionOK, Next PROVE PositionOK'
<1>1. ASSUME \/ \E n \in Names : CreateTable(n)
             \/ \E t \in Tables, v \in Values : InsertInLastPage(t, v) \/ InsertInNewPage(t, v)
             \/ FinishCreate \/ LinkNewPage \/ FinishInsert \/ LoadFails
             \/ \E p \in PageIds : FlushPage(p)
             \/ \E r \in rows : DeleteRow(r) \/ \E v \in Values : UpdateRow(r, v)
      PROVE  PositionOK'
  <2>1. UNCHANGED <<iter, seen>>
    BY <1>1 DEF CreateTable, InsertInLastPage, InsertInNewPage, FinishCreate, LinkNewPage, FinishInsert,
                LoadFails, FlushPage, DeleteRow, UpdateRow, scan
  <2>2. op'.name = "load" => op.name = "load"
    <3>1. [op EXCEPT !.name = "grow", !.page = LastPage(op.table)].name = "grow"
      BY DEF Inv, OpOK, OpTyped
    <3>2. [NoOp EXCEPT !.name = "create"].name = "create"
      BY DEF NoOp
    <3>3. ASSUME NEW n \in Names, CreateTable(n) PROVE op'.name = "create"
      BY <3>2, <3>3 DEF CreateTable
    <3>4. ASSUME NEW t \in Tables, NEW v \in Values, InsertInLastPage(t, v) PROVE op' = op
      BY <3>4 DEF InsertInLastPage
    <3>5. ASSUME NEW t \in Tables, NEW v \in Values, InsertInNewPage(t, v)
          PROVE  op' = op \/ op'.name = "link"
      BY <3>5 DEF InsertInNewPage
    <3>6. CASE FinishCreate \/ LinkNewPage \/ FinishInsert \/ LoadFails
      BY <3>1, <3>6, NoOpFacts DEF FinishCreate, LinkNewPage, FinishInsert, LoadFails
    <3>7. ASSUME NEW p \in PageIds, FlushPage(p) PROVE op' = op
      BY <3>7 DEF FlushPage
    <3>8. ASSUME NEW r \in rows, DeleteRow(r) \/ \E v \in Values : UpdateRow(r, v) PROVE op' = op
      BY <3>8 DEF DeleteRow, UpdateRow
    <3> QED BY <1>1, <3>3, <3>4, <3>5, <3>6, <3>7, <3>8
  <2> QED BY <2>1, <2>2, PositionKept
<1>2. ASSUME NEW t \in Tables, Scan(t) PROVE PositionOK'
  <2>1. seen' = <<>> /\ iter'.cached = Nil
    BY <1>2 DEF Scan, NoScan
  <2> QED BY <2>1, PositionReset
<1>3. CASE HasNext
  <2>1. UNCHANGED <<iter, seen>> /\ iter.cached = Nil
    BY <1>3 DEF HasNext, scan
  <2> QED BY <2>1, PositionKept
<1>4. CASE TurnPage \/ SkipTombstone \/ LoadRow \/ TakeNext
  BY <1>4, TurnPagePosition, SkipTombstonePosition, LoadRowPosition, TakeNextPosition
<1>5. CASE Restart
  <2>1. seen' = <<>> /\ iter'.cached = Nil
    BY <1>5 DEF Restart, NoScan
  <2> QED BY <2>1, PositionReset
<1> QED BY <1>1, <1>2, <1>3, <1>4, <1>5 DEF Next
-----------------------------------------------------------------------------
LEMMA ScanInvInit == Init => Inv /\ LinksOK /\ PositionOK
<1> SUFFICES ASSUME Init PROVE LinksOK /\ PositionOK
  BY InitInv
<1>1. LinksOK
  BY NoOpFacts DEF Init, LinksOK, Forward, NoGaps, NewIsLarger
<1>2. PositionOK
  BY NoOpFacts DEF Init, NoScan, PositionOK, ScanOnce
<1> QED BY <1>1, <1>2

LEMMA ScanInvNext == Inv /\ LinksOK /\ PositionOK /\ [Next]_vars => (Inv /\ LinksOK /\ PositionOK)'
<1> SUFFICES ASSUME Inv, LinksOK, PositionOK, [Next]_vars PROVE LinksOK' /\ PositionOK'
  BY InvNext
<1>1. CASE Next
  BY <1>1, LinksNext, PositionNext
<1>2. CASE UNCHANGED vars
  <2>1. UNCHANGED <<store, durable, tablesMetadata_, op, iter, seen>>
    BY <1>2 DEF vars, pageVars, catalog, scan
  <2>2. PositionOK'
    BY <2>1, PositionKept
  <2> QED BY <2>1, <2>2 DEF LinksOK, Forward, NoGaps, NewIsLarger, LastPage
<1> QED BY <1>1, <1>2

(***************************************************************************)
(* An iterator (TableIterator::next) never returns the row of a slot that  *)
(* it has returned before.                                                 *)
(***************************************************************************)
THEOREM ScanNeverRepeats == Spec => []ScanOnce
<1>1. Inv /\ LinksOK /\ PositionOK => ScanOnce
  BY DEF PositionOK
<1> QED BY <1>1, ScanInvInit, ScanInvNext, PTL DEF Spec
-----------------------------------------------------------------------------

(***************************************************************************)
(* Chains.  A page has one link, so the pages of a chain are in a line,    *)
(* and where links lead forward, in the order of their ids.                *)
(***************************************************************************)
LEMMA ChainStart ==
  ASSUME NEW f, NEW p \in PageIds
  PROVE  p \in Chain(f, p) /\ Chain(f, p) \subseteq PageIds
BY DEF Chain

LEMMA ChainClosed ==
  ASSUME NEW f, NEW p \in PageIds
  PROVE  LinkClosed(f, Chain(f, p))
BY DEF Chain, LinkClosed

LEMMA ChainLeast ==
  ASSUME NEW f, NEW p \in PageIds, NEW S \in SUBSET PageIds, p \in S, LinkClosed(f, S)
  PROVE  Chain(f, p) \subseteq S
BY DEF Chain

LEMMA ChainThrough ==
  ASSUME NEW f, NEW p \in PageIds, NEW q \in Chain(f, p)
  PROVE  q \in PageIds /\ Chain(f, q) \subseteq Chain(f, p)
BY ChainStart, ChainClosed, ChainLeast

(* A chain is its first page and the chain that the link of that page leads to. *)
LEMMA ChainNext ==
  ASSUME NEW f, NEW p \in PageIds, NEW q \in Chain(f, p), q # p
  PROVE  f[p] # Absent /\ f[p].next \in PageIds /\ q \in Chain(f, f[p].next)
<1>1. CASE f[p] # Absent /\ f[p].next \in PageIds
  <2> DEFINE S == {p} \cup Chain(f, f[p].next)
  <2>1. S \in SUBSET PageIds /\ f[p].next \in S
    BY <1>1, ChainStart
  <2>2. LinkClosed(f, S)
    BY <1>1, <2>1, ChainStart, ChainClosed DEF LinkClosed
  <2>3. q \in S
    BY <2>1, <2>2, ChainLeast
  <2> QED BY <1>1, <2>3
<1>2. CASE ~(f[p] # Absent /\ f[p].next \in PageIds)
  <2>1. LinkClosed(f, {p})
    BY <1>2 DEF LinkClosed
  <2> QED BY <2>1, ChainLeast
<1> QED BY <1>1, <1>2

LEMMA ChainEnd ==
  ASSUME NEW f, NEW p \in PageIds, f[p] # Absent => f[p].next \notin PageIds
  PROVE  Chain(f, p) = {p}
BY ChainStart, ChainNext

LEMMA ChainForward ==
  ASSUME NEW f, Forward(f), NEW p \in PageIds, NEW q \in Chain(f, p)
  PROVE  p <= q
<1> DEFINE S == {x \in PageIds : p <= x}
<1>1. S \in SUBSET PageIds /\ p \in S
  BY DEF PageIds
<1>2. \A x \in PageIds : f[x] # Absent /\ f[x].next \in PageIds => x < f[x].next
  BY DEF Forward, PageIds
<1>3. LinkClosed(f, S)
  BY <1>2 DEF LinkClosed, PageIds
<1> QED BY <1>1, <1>3, ChainLeast

(* Of two pages of a chain, one leads to the other. *)
LEMMA ChainLine ==
  ASSUME NEW f, NEW p \in PageIds, NEW q \in Chain(f, p), NEW r \in Chain(f, p)
  PROVE  q \in Chain(f, r) \/ r \in Chain(f, q)
<1> DEFINE S == {x \in Chain(f, p) : x \in Chain(f, r) \/ r \in Chain(f, x)}
<1>1. S \in SUBSET PageIds /\ p \in S
  BY ChainStart
<1>2. ASSUME NEW x \in S, f[x] # Absent, f[x].next \in PageIds PROVE f[x].next \in S
  <2>1. f[x].next \in Chain(f, p)
    BY <1>2, ChainClosed DEF LinkClosed
  <2>2. CASE x \in Chain(f, r)
    BY <1>2, <2>1, <2>2, ChainThrough, ChainClosed DEF LinkClosed
  <2>3. CASE r \in Chain(f, x) /\ x # r
    BY <1>1, <2>1, <2>3, ChainNext
  <2>4. CASE x = r
    BY <1>1, <1>2, <2>1, <2>4, ChainStart, ChainClosed DEF LinkClosed
  <2> QED BY <1>2, <2>2, <2>3, <2>4
<1>3. LinkClosed(f, S)
  BY <1>2 DEF LinkClosed
<1>4. q \in S
  BY <1>1, <1>3, ChainLeast
<1> QED BY <1>4

LEMMA ChainOrder ==
  ASSUME NEW f, Forward(f), NEW p \in PageIds, NEW q \in Chain(f, p), NEW r \in Chain(f, p), q < r
  PROVE  f[q] # Absent /\ f[q].next \in Chain(f, p) /\ f[q].next <= r /\ r \in Chain(f, f[q].next)
<1>1. q \in PageIds /\ r \in PageIds
  BY ChainThrough
<1>2. r \in Chain(f, q)
  <2>1. CASE q \in Chain(f, r)
    BY <1>1, <2>1, ChainForward DEF PageIds
  <2> QED BY <2>1, ChainLine
<1>3. f[q] # Absent /\ f[q].next \in PageIds /\ r \in Chain(f, f[q].next)
  BY <1>1, <1>2, ChainNext DEF PageIds
<1>4. f[q].next <= r
  BY <1>3, ChainForward
<1>5. f[q].next \in Chain(f, p)
  BY <1>3, ChainClosed DEF LinkClosed
<1> QED BY <1>3, <1>4, <1>5

(* A chain is what its links make it. *)
SameLink(f, g, q) ==
  \A n \in PageIds : (f[q] # Absent /\ f[q].next = n) <=> (g[q] # Absent /\ g[q].next = n)

LEMMA ChainSame ==
  ASSUME NEW f, NEW g, NEW p \in PageIds, \A q \in Chain(f, p) : SameLink(f, g, q)
  PROVE  Chain(g, p) = Chain(f, p)
<1>1. Chain(g, p) \subseteq Chain(f, p)
  <2>1. LinkClosed(g, Chain(f, p))
    BY ChainClosed DEF LinkClosed, SameLink
  <2> QED BY <2>1, ChainStart, ChainLeast
<1>2. Chain(f, p) \subseteq Chain(g, p)
  <2> DEFINE S == Chain(f, p) \cap Chain(g, p)
  <2>1. S \in SUBSET PageIds /\ p \in S
    BY ChainStart
  <2>2. LinkClosed(f, S)
    BY ChainClosed DEF LinkClosed, SameLink
  <2>3. Chain(f, p) \subseteq S
    BY <2>1, <2>2, ChainLeast
  <2> QED BY <2>3
<1> QED BY <1>1, <1>2

(* Changing the link of a page takes no page off a chain up to that page. *)
LEMMA ChainKeptBelow ==
  ASSUME NEW f, NEW g, Forward(f), NEW p \in PageIds, NEW last \in PageIds,
         \A q \in PageIds \ {last} : SameLink(f, g, q),
         NEW q \in Chain(f, p), q <= last
  PROVE  q \in Chain(g, p)
<1> DEFINE S == {x \in PageIds : x <= last => x \in Chain(g, p)}
<1>1. S \in SUBSET PageIds /\ p \in S
  BY ChainStart
<1>2. ASSUME NEW x \in S, f[x] # Absent, f[x].next \in PageIds, f[x].next <= last
      PROVE  f[x].next \in Chain(g, p)
  <2>1. x < f[x].next
    BY <1>2 DEF Forward, PageIds
  <2>2. x # last /\ x <= last
    BY <1>2, <2>1 DEF PageIds
  <2>3. g[x] # Absent /\ g[x].next = f[x].next
    BY <1>2, <2>2 DEF SameLink
  <2> QED BY <1>2, <2>2, <2>3, ChainClosed DEF LinkClosed
<1>3. LinkClosed(f, S)
  BY <1>2 DEF LinkClosed
<1>4. q \in S
  BY <1>1, <1>3, ChainLeast
<1> QED BY <1>4

(***************************************************************************)
(* What linking a page n behind page "last" of a chain makes of it: the    *)
(* pages up to last, and n.                                                *)
(***************************************************************************)
LEMMA ChainRelinked ==
  ASSUME NEW f, NEW g, Forward(f), NEW p \in PageIds, NEW last \in Chain(f, p), NEW n \in PageIds,
         \A q \in PageIds \ {last} : SameLink(f, g, q),
         g[last] # Absent, g[last].next = n, last < n, g[n] # Absent => g[n].next \notin PageIds
  PROVE  Chain(g, p) = {q \in Chain(f, p) : q <= last} \cup {n}
<1> DEFINE S == {q \in Chain(f, p) : q <= last} \cup {n}
<1>0. last \in PageIds /\ p <= last /\ last # n
  BY ChainThrough, ChainForward DEF PageIds
<1>1. Chain(g, p) \subseteq S
  <2>1. S \in SUBSET PageIds /\ p \in S
    BY <1>0, ChainStart
  <2>2. ASSUME NEW x \in S, g[x] # Absent, g[x].next \in PageIds PROVE g[x].next \in S
    <3>1. CASE x = last
      BY <3>1
    <3>2. CASE x # last /\ x # n
      <4>1. x \in Chain(f, p) /\ x < last /\ x \in PageIds
        BY <1>0, <2>1, <3>2 DEF PageIds
      <4>2. f[x] # Absent /\ f[x].next \in Chain(f, p) /\ f[x].next <= last
        BY <4>1, ChainOrder
      <4>3. f[x].next = g[x].next
        BY <3>2, <4>1, <4>2, ChainThrough DEF SameLink
      <4> QED BY <4>2, <4>3
    <3> QED BY <2>2, <3>1, <3>2
  <2>3. LinkClosed(g, S)
    BY <2>2 DEF LinkClosed
  <2> QED BY <2>1, <2>3, ChainLeast
<1>2. {q \in Chain(f, p) : q <= last} \subseteq Chain(g, p)
  BY <1>0, ChainKeptBelow
<1>3. n \in Chain(g, p)
  <2>1. last \in Chain(g, p)
    BY <1>0, ChainKeptBelow DEF PageIds
  <2> QED BY <2>1, ChainClosed DEF LinkClosed
<1> QED BY <1>1, <1>2, <1>3

(* The pages of a chain behind one of its pages. *)
LEMMA ChainBehind ==
  ASSUME NEW f, Forward(f), NEW p \in PageIds, NEW last \in Chain(f, p)
  PROVE  {q \in Chain(f, p) : ~(q <= last)} =
           IF f[last] # Absent /\ f[last].next \in PageIds THEN Chain(f, f[last].next) ELSE {}
<1>1. last \in PageIds
  BY ChainThrough
<1>2. ASSUME NEW q \in Chain(f, p), ~(q <= last)
      PROVE  f[last] # Absent /\ f[last].next \in PageIds /\ q \in Chain(f, f[last].next)
  <2>1. q \in PageIds /\ last < q
    BY <1>1, <1>2, ChainThrough DEF PageIds
  <2> QED BY <2>1, ChainOrder, ChainThrough
<1>3. ASSUME f[last] # Absent, f[last].next \in PageIds, NEW q \in Chain(f, f[last].next)
      PROVE  q \in Chain(f, p) /\ ~(q <= last)
  <2>1. f[last].next \in Chain(f, p) /\ last < f[last].next
    BY <1>1, <1>3, ChainClosed DEF LinkClosed, Forward, PageIds
  <2>2. q \in Chain(f, p) /\ f[last].next <= q /\ q \in PageIds
    BY <1>3, <2>1, ChainThrough, ChainForward
  <2> QED BY <1>1, <1>3, <2>1, <2>2 DEF PageIds
<1> QED BY <1>2, <1>3
-----------------------------------------------------------------------------
(***************************************************************************)
(* Every page has an owner, the first page of its table, which its links   *)
(* in the pool and in the file respect, the catalog that a crash may bring *)
(* back as well as the one in memory, and an insertion that has not linked *)
(* its new page yet.  The owner of a page that is on no chain is the one   *)
(* that would have linked it.                                              *)
(***************************************************************************)
Root(t) == tablesMetadata_[t].firstPageId

LinksOwned(f, owner) ==
  \A q, n \in PageIds : f[q] # Absent /\ f[q].next = n => n \in InFile /\ owner[n] = owner[q]

RootsOwned(tables, owner) ==
  /\ \A i \in DOMAIN tables : /\ owner[tables[i].firstPageId] = tables[i].firstPageId
                              /\ owner[tables[i].lastPageId] = tables[i].firstPageId
  /\ \A i, j \in DOMAIN tables : tables[i].firstPageId = tables[j].firstPageId => i = j

OwnedBy(owner) ==
  /\ LinksOwned(store, owner) /\ LinksOwned(durable, owner)
  /\ RootsOwned(tablesMetadata_, owner)
  /\ metaFile # Torn => RootsOwned(metaFile.tables, owner)
  /\ op.name \in {"link", "grow"} => owner[op.page] = Root(op.table)

Owners == [PageIds -> PageIds]
OwnersOK == \E owner \in Owners : OwnedBy(owner)

LEMMA NewPageOwned ==
  ASSUME Inv, NEW owner \in Owners, OwnedBy(owner), NEW r \in PageIds,
         NEW p, NEW page \in Page, NewPage(p, page), page.next = INVALID_PAGE_ID
  PROVE  LET o == [owner EXCEPT ![p] = r]
         IN  /\ o \in Owners /\ o[p] = r /\ p \in PageIds
             /\ \A q \in InFile : q # p /\ o[q] = owner[q]
             /\ LinksOwned(store, o)' /\ LinksOwned(durable, o)'
<1> DEFINE o == [owner EXCEPT ![p] = r]
<1>1. /\ p \in PageIds /\ store[p] = Absent
      /\ store' = [store EXCEPT ![p] = page] /\ durable' = [durable EXCEPT ![p] = ZeroPage]
  BY DEF NewPage, FreshPages, Extended
<1>2. page.next \notin PageIds /\ ZeroPage.next \notin PageIds
  BY PageSlots DEF ZeroPage, PageIds
<1>3. /\ store'[p] = page /\ durable'[p] = ZeroPage /\ p \notin InFile /\ InFile \subseteq InFile'
      /\ \A q \in PageIds \ {p} : store'[q] = store[q] /\ durable'[q] = durable[q]
  BY <1>1, NewPagePages DEF Inv, PagesOK, InFile
<1>4. o \in Owners /\ o[p] = r /\ \A q \in PageIds \ {p} : o[q] = owner[q]
  BY <1>1 DEF Owners
<1> HIDE DEF o
<1>5. \A q \in InFile : q # p /\ o[q] = owner[q]
  BY <1>3, <1>4 DEF InFile
<1>6. ASSUME NEW q \in PageIds, NEW n \in PageIds, store'[q] # Absent, store'[q].next = n
      PROVE  n \in InFile' /\ o[n] = o[q]
  <2>1. q # p /\ store[q] # Absent /\ store[q].next = n
    BY <1>2, <1>3, <1>6
  <2> QED BY <1>3, <1>4, <1>5, <2>1 DEF OwnedBy, LinksOwned
<1>7. ASSUME NEW q \in PageIds, NEW n \in PageIds, durable'[q] # Absent, durable'[q].next = n
      PROVE  n \in InFile' /\ o[n] = o[q]
  <2>1. q # p /\ durable[q] # Absent /\ durable[q].next = n
    BY <1>2, <1>3, <1>7
  <2> QED BY <1>3, <1>4, <1>5, <2>1 DEF OwnedBy, LinksOwned
<1>8. LinksOwned(store, o)' /\ LinksOwned(durable, o)'
  BY <1>6, <1>7 DEF LinksOwned
<1> QED BY <1>1, <1>4, <1>5, <1>8 DEF o

LEMMA RootsKept ==
  ASSUME NEW tables, NEW next, CatalogOK(tables, next, InFile),
         NEW owner, RootsOwned(tables, owner), NEW o, \A q \in InFile : o[q] = owner[q]
  PROVE  RootsOwned(tables, o)
BY DEF CatalogOK, RootsOwned

LEMMA RootsAppended ==
  ASSUME NEW tables \in Seq(Entry), NEW owner, RootsOwned(tables, owner),
         NEW e \in Entry, e.lastPageId = e.firstPageId, owner[e.firstPageId] = e.firstPageId,
         \A i \in DOMAIN tables : tables[i].firstPageId # e.firstPageId
  PROVE  RootsOwned(Append(tables, e), owner)
<1> DEFINE m == Append(tables, e)
<1>1. /\ Len(tables) \in Nat /\ DOMAIN m = 1 .. Len(tables) + 1 /\ m[Len(tables) + 1] = e
      /\ \A i \in 1 .. Len(tables) : m[i] = tables[i]
  OBVIOUS
<1>2. DOMAIN tables = 1 .. Len(tables)
  OBVIOUS
<1>3. \A i \in DOMAIN m : (i \in DOMAIN tables /\ m[i] = tables[i]) \/ i = Len(tables) + 1
  BY <1>1, <1>2
<1> HIDE DEF m
<1>4. \A i \in DOMAIN m : /\ owner[m[i].firstPageId] = m[i].firstPageId
                          /\ owner[m[i].lastPageId] = m[i].firstPageId
  BY <1>1, <1>3 DEF RootsOwned
<1>5. \A i, j \in DOMAIN m : m[i].firstPageId = m[j].firstPageId => i = j
  BY <1>1, <1>3 DEF RootsOwned
<1>6. RootsOwned(m, owner)
  BY <1>4, <1>5 DEF RootsOwned
<1> QED BY <1>6 DEF m

LEMMA RootsShortened ==
  ASSUME NEW tables \in Seq(Entry), NEW owner, RootsOwned(tables, owner)
  PROVE  RootsOwned(Shortened(tables), owner)
<1>1. CASE tables = <<>>
  BY <1>1 DEF Shortened, RootsOwned
<1>2. CASE tables # <<>>
  <2>1. /\ DOMAIN Shortened(tables) \subseteq DOMAIN tables
        /\ \A i \in DOMAIN Shortened(tables) : Shortened(tables)[i] = tables[i]
    BY <1>2 DEF Shortened
  <2> QED BY <2>1 DEF RootsOwned
<1> QED BY <1>1, <1>2

LEMMA RootsMoved ==
  ASSUME NEW tables \in Seq(Entry), NEW owner, RootsOwned(tables, owner), NEW t \in DOMAIN tables,
         NEW p, owner[p] = tables[t].firstPageId
  PROVE  RootsOwned([tables EXCEPT ![t].lastPageId = p], owner)
<1> DEFINE m == [tables EXCEPT ![t].lastPageId = p]
<1>1. DOMAIN m = DOMAIN tables /\ \A i \in DOMAIN tables \ {t} : m[i] = tables[i]
  OBVIOUS
<1>2. m[t] = [tables[t] EXCEPT !.lastPageId = p] /\ tables[t] \in Entry
  OBVIOUS
<1>3. m[t].lastPageId = p /\ m[t].firstPageId = tables[t].firstPageId
  BY <1>2 DEF Entry
<1> HIDE DEF m
<1>4. \A i \in DOMAIN m : m[i].firstPageId = tables[i].firstPageId
  BY <1>1, <1>3
<1>5. RootsOwned(m, owner)
  BY <1>1, <1>3, <1>4 DEF RootsOwned
<1> QED BY <1>5 DEF m

LEMMA OwnersStay ==
  ASSUME Inv, NEW owner \in Owners, OwnedBy(owner), UNCHANGED <<durable, catalog, metaFile>>,
         \A p \in PageIds : /\ store'[p] # Absent <=> store[p] # Absent
                            /\ store[p] # Absent => store'[p].next = store[p].next,
         op' = op \/ op'.name \notin {"link", "grow"}
  PROVE  OwnersOK'
<1>1. InFile' = InFile
  BY DEF InFile
<1>2. LinksOwned(store, owner)' /\ LinksOwned(durable, owner)'
  BY <1>1 DEF OwnedBy, LinksOwned
<1>3. OwnedBy(owner)'
  BY <1>2 DEF OwnedBy, catalog, Root
<1> QED BY <1>3 DEF OwnersOK

LEMMA CreateTableOwners ==
  ASSUME Inv, NEW owner \in Owners, OwnedBy(owner), NEW n \in Names, CreateTable(n)
  PROVE  OwnersOK'
<1>1. PICK p \in FreshPages :
        /\ NewPage(p, TablePage(<<>>))
        /\ tablesMetadata_' = Append(tablesMetadata_,
             [tableId |-> nextTableId_, name |-> n, firstPageId |-> p, lastPageId |-> p])
  BY DEF CreateTable
<1>2. PICK e : e = [tableId |-> nextTableId_, name |-> n, firstPageId |-> p, lastPageId |-> p]
  OBVIOUS
<1>3. p \in PageIds /\ TablePage(<<>>) \in Page /\ TablePage(<<>>).next = INVALID_PAGE_ID
  BY <1>1, EmptyRows, NewTablePage DEF FreshPages, TablePage
<1>4. PICK o \in Owners : /\ o[p] = p
                          /\ \A q \in InFile : q # p /\ o[q] = owner[q]
                          /\ LinksOwned(store, o)' /\ LinksOwned(durable, o)'
  BY <1>1, <1>3, NewPageOwned
<1>5. e \in Entry /\ e.lastPageId = p /\ e.firstPageId = p
  BY <1>2, <1>3 DEF Entry, Inv, CatalogsOK, CatalogOK
<1>6. RootsOwned(tablesMetadata_, o) /\ (metaFile # Torn => RootsOwned(metaFile.tables, o))
  BY <1>4, RootsKept DEF OwnedBy, Inv, CatalogsOK
<1>7. \A i \in DOMAIN tablesMetadata_ : tablesMetadata_[i].firstPageId # p
  BY <1>4 DEF Inv, CatalogsOK, CatalogOK
<1>8. RootsOwned(tablesMetadata_', o)
  BY <1>1, <1>2, <1>4, <1>5, <1>6, <1>7, TablesFinite, RootsAppended
<1>9. op'.name = "create" /\ metaFile' = metaFile
  BY DEF CreateTable, NoOp
<1>10. OwnedBy(o)'
  BY <1>4, <1>6, <1>8, <1>9 DEF OwnedBy
<1> QED BY <1>10 DEF OwnersOK

LEMMA InsertInNewPageOwners ==
  ASSUME Inv, NEW owner \in Owners, OwnedBy(owner), NEW t \in Tables, NEW v \in Values,
         InsertInNewPage(t, v)
  PROVE  OwnersOK'
<1>1. PICK p \in FreshPages :
        \/ NewPage(p, TablePage(<<>>)) /\ op' = op
        \/ NewPage(p, TablePage(<<v>>)) /\ op' = [name |-> "link", table |-> t, page |-> p, value |-> v]
  BY DEF InsertInNewPage
<1>2. PICK page \in Page : NewPage(p, page) /\ page.next = INVALID_PAGE_ID
  BY <1>1, EmptyRows, OneRow, NewTablePage DEF TablePage
<1>3. op.name = "none" /\ UNCHANGED <<catalog, metaFile>> /\ Root(t)' = Root(t)
  BY NoOpFacts DEF InsertInNewPage, Idle, Root, catalog
<1>4. PICK r \in PageIds : r = Root(t)
  BY EntryOfTable DEF Root
<1>5. PICK o \in Owners : /\ o[p] = r
                          /\ \A q \in InFile : q # p /\ o[q] = owner[q]
                          /\ LinksOwned(store, o)' /\ LinksOwned(durable, o)'
  BY <1>2, NewPageOwned
<1>6. RootsOwned(tablesMetadata_, o) /\ (metaFile # Torn => RootsOwned(metaFile.tables, o))
  BY <1>5, RootsKept DEF OwnedBy, Inv, CatalogsOK
<1>7. op'.name \in {"link", "grow"} => o[op'.page] = Root(op.table)'
  <2>1. CASE op' = op
    BY <1>3, <2>1
  <2>2. CASE op' = [name |-> "link", table |-> t, page |-> p, value |-> v]
    BY <1>3, <1>4, <1>5, <2>2 DEF Root
  <2> QED BY <1>1, <2>1, <2>2
<1>8. OwnedBy(o)'
  BY <1>3, <1>5, <1>6, <1>7 DEF OwnedBy, catalog
<1> QED BY <1>8 DEF OwnersOK

LEMMA LinkNewPageOwners ==
  ASSUME Inv, NEW owner \in Owners, OwnedBy(owner), LinkNewPage
  PROVE  OwnersOK'
<1>1. PICK t \in Tables : t = op.table
  BY DEF LinkNewPage, Inv, OpOK
<1>2. PICK p \in PageIds : p = LastPage(t)
  BY EntryOfTable
<1>3. /\ op.name = "link" /\ op.page \in InFile /\ op.page \in PageIds /\ UNCHANGED <<durable, metaFile>>
      /\ store[p] \in Page /\ nextTableId_' = nextTableId_
  BY <1>1, <1>2, EntryOfTable DEF LinkNewPage, Inv, OpOK, InFile
<1>4. owner[op.page] = Root(t) /\ owner[p] = Root(t)
  BY <1>1, <1>2, <1>3 DEF OwnedBy, RootsOwned, Root, LastPage, Tables
<1>5. CASE UNCHANGED <<store, tablesMetadata_>> /\ op' = NoOp
  BY <1>3, <1>5, NoOpFacts, OwnersStay DEF catalog
<1>6. CASE /\ store' = [store EXCEPT ![p] = Linked(store[p], op.page)]
           /\ tablesMetadata_' = [tablesMetadata_ EXCEPT ![t].lastPageId = op.page]
           /\ op' = [op EXCEPT !.name = "grow", !.page = p]
  <2>1. Linked(store[p], op.page).next = op.page /\ InFile' = InFile
    BY <1>3 DEF Linked, Page, InFile
  <2>2. store'[p].next = op.page /\ \A q \in PageIds \ {p} : store'[q] = store[q]
    BY <1>6, <2>1 DEF Inv, PagesOK
  <2>3. LinksOwned(store, owner)' /\ LinksOwned(durable, owner)'
    BY <1>3, <1>4, <2>1, <2>2 DEF OwnedBy, LinksOwned
  <2>4. RootsOwned(tablesMetadata_', owner)
    BY <1>4, <1>6, TablesFinite, RootsMoved DEF OwnedBy, Root, Tables
  <2>5. op'.page = p /\ op'.table = t
    BY <1>1, <1>6 DEF Inv, OpOK, OpTyped
  <2>6. Root(t)' = Root(t)
    <3>1. tablesMetadata_[t] \in Entry /\ t \in DOMAIN tablesMetadata_
      BY EntryOfTable DEF Tables
    <3>2. tablesMetadata_'[t] = [tablesMetadata_[t] EXCEPT !.lastPageId = op.page]
      BY <1>6, <3>1
    <3> QED BY <3>1, <3>2 DEF Root, Entry
  <2>7. OwnedBy(owner)'
    BY <1>3, <1>4, <2>3, <2>4, <2>5, <2>6 DEF OwnedBy
  <2> QED BY <2>7 DEF OwnersOK
<1> QED BY <1>1, <1>2, <1>5, <1>6 DEF LinkNewPage

LEMMA SavedRoots ==
  ASSUME NEW owner \in Owners, OwnedBy(owner), SaveSucceeds \/ SaveFails
  PROVE  metaFile' # Torn => RootsOwned(metaFile'.tables, owner)
BY DEF SaveSucceeds, SaveFails, Serialized, OwnedBy

LEMMA FinishOwners ==
  ASSUME Inv, NEW owner \in Owners, OwnedBy(owner), FinishCreate \/ FinishInsert
  PROVE  OwnersOK'
<1>1. UNCHANGED pageVars /\ op' = NoOp /\ (SaveSucceeds \/ SaveFails)
  BY DEF FinishCreate, FinishInsert
<1>2. LinksOwned(store, owner)' /\ LinksOwned(durable, owner)'
  BY <1>1 DEF OwnedBy, LinksOwned, InFile, pageVars
<1>3. RootsOwned(tablesMetadata_', owner)
  <2>1. CASE UNCHANGED tablesMetadata_
    BY <2>1 DEF OwnedBy
  <2>2. CASE FinishCreate /\ tablesMetadata_' = Shortened(tablesMetadata_)
    BY <2>2, TablesFinite, RootsShortened DEF OwnedBy
  <2>3. CASE FinishInsert /\ tablesMetadata_' = [tablesMetadata_ EXCEPT ![op.table].lastPageId = op.page]
    <3>1. op.table \in DOMAIN tablesMetadata_ /\ owner[op.page] = tablesMetadata_[op.table].firstPageId
      BY <2>3 DEF FinishInsert, Inv, OpOK, Tables, OwnedBy, Root
    <3> QED BY <2>3, <3>1, TablesFinite, RootsMoved DEF OwnedBy
  <2> QED BY <2>1, <2>2, <2>3 DEF FinishCreate, FinishInsert, Shortened, catalog
<1>4. OwnedBy(owner)'
  BY <1>1, <1>2, <1>3, SavedRoots, NoOpFacts DEF OwnedBy
<1> QED BY <1>4 DEF OwnersOK

LEMMA FlushOwners ==
  ASSUME Inv, NEW owner \in Owners, OwnedBy(owner), NEW p \in PageIds, FlushPage(p)
  PROVE  OwnersOK'
<1>1. UNCHANGED <<store, catalog, metaFile, op>> /\ durable' = [durable EXCEPT ![p] = store[p]]
  BY DEF FlushPage
<1>2. InFile' = InFile
  BY <1>1 DEF InFile, Inv, PagesOK
<1>3. \A q \in PageIds : durable'[q] = store[q] \/ durable'[q] = durable[q]
  BY <1>1 DEF Inv, PagesOK
<1>4. LinksOwned(store, owner)' /\ LinksOwned(durable, owner)'
  BY <1>1, <1>2, <1>3 DEF OwnedBy, LinksOwned
<1>5. OwnedBy(owner)'
  BY <1>1, <1>4 DEF OwnedBy, catalog, Root
<1> QED BY <1>5 DEF OwnersOK

LEMMA RestartOwners ==
  ASSUME Inv, NEW owner \in Owners, OwnedBy(owner), Restart
  PROVE  OwnersOK'
<1>1. /\ durable' \in {store, durable} /\ store' = durable' /\ op' = NoOp
      /\ metaFile' \in {metaFile, Torn, Serialized} /\ open' = Accepts(metaFile')
      /\ IF open' THEN tablesMetadata_' = metaFile'.tables ELSE UNCHANGED catalog
  BY DEF Restart, MidSave
<1>2. InFile' = InFile
  BY <1>1 DEF InFile, Inv, PagesOK
<1>3. LinksOwned(store, owner)' /\ LinksOwned(durable, owner)'
  BY <1>1, <1>2 DEF OwnedBy, LinksOwned
<1>4. metaFile' # Torn => RootsOwned(metaFile'.tables, owner)
  BY <1>1 DEF Serialized, OwnedBy
<1>5. RootsOwned(tablesMetadata_', owner)
  BY <1>1, <1>4 DEF Accepts, catalog, OwnedBy
<1>6. OwnedBy(owner)'
  BY <1>1, <1>3, <1>4, <1>5, NoOpFacts DEF OwnedBy
<1> QED BY <1>6 DEF OwnersOK

LEMMA OwnersNext == ASSUME Inv, OwnersOK, [Next]_vars PROVE OwnersOK'
<1>1. PICK owner \in Owners : OwnedBy(owner)
  BY DEF OwnersOK
<1>2. ASSUME NEW n \in Names, CreateTable(n) PROVE OwnersOK'
  BY <1>1, <1>2, CreateTableOwners
<1>3. ASSUME NEW t \in Tables, NEW v \in Values, InsertInLastPage(t, v) PROVE OwnersOK'
  BY <1>1, <1>3, InsertLinks, OwnersStay
<1>4. ASSUME NEW t \in Tables, NEW v \in Values, InsertInNewPage(t, v) PROVE OwnersOK'
  BY <1>1, <1>4, InsertInNewPageOwners
<1>5. CASE LinkNewPage \/ FinishCreate \/ FinishInsert
  BY <1>1, <1>5, LinkNewPageOwners, FinishOwners
<1>6. ASSUME NEW r \in rows, DeleteRow(r) \/ \E v \in Values : UpdateRow(r, v) PROVE OwnersOK'
  BY <1>1, <1>6, RowLinks, OwnersStay
<1>7. CASE \/ \E t \in Tables : Scan(t)
           \/ HasNext \/ TurnPage \/ SkipTombstone \/ LoadRow \/ LoadFails \/ TakeNext
  <2>1. UNCHANGED <<pageVars, catalog, metaFile>>
    BY <1>7 DEF Scan, HasNext, TurnPage, SkipTombstone, LoadRow, LoadFails, TakeNext
  <2>2. op' = op \/ op'.name \notin {"link", "grow"}
    BY <1>7, NoOpFacts
       DEF Scan, HasNext, TurnPage, SkipTombstone, LoadRow, LoadFails, TakeNext, Loads, Loading, NoOp
  <2> QED BY <1>1, <2>1, <2>2, OwnersStay DEF pageVars
<1>8. ASSUME NEW p \in PageIds, FlushPage(p) PROVE OwnersOK'
  BY <1>1, <1>8, FlushOwners
<1>9. CASE Restart
  BY <1>1, <1>9, RestartOwners
<1>10. CASE UNCHANGED vars
  BY <1>1, <1>10, OwnersStay DEF vars, pageVars, catalog
<1> QED BY <1>2, <1>3, <1>4, <1>5, <1>6, <1>7, <1>8, <1>9, <1>10 DEF Next

LEMMA OwnersInit == Init => OwnersOK
<1> SUFFICES ASSUME Init PROVE OwnersOK
  OBVIOUS
<1>1. PICK owner : owner = [p \in PageIds |-> p]
  OBVIOUS
<1>2. OwnedBy(owner)
  BY NoOpFacts DEF Init, OwnedBy, LinksOwned, RootsOwned, Serialized
<1> QED BY <1>1, <1>2 DEF OwnersOK, Owners

(* What has a page of a table's chain has its owner. *)
LEMMA ChainOwned ==
  ASSUME NEW f, NEW owner \in Owners, LinksOwned(f, owner), NEW p \in PageIds, NEW q \in Chain(f, p)
  PROVE  owner[q] = owner[p]
<1> DEFINE S == {x \in PageIds : owner[x] = owner[p]}
<1>1. S \in SUBSET PageIds /\ p \in S /\ LinkClosed(f, S)
  BY DEF LinksOwned, LinkClosed
<1> QED BY <1>1, ChainLeast

(***************************************************************************)
(* No page is ever on the chains of two tables, whichever calls fail and   *)
(* wherever the process dies: insertRow links only a page that newPage has *)
(* just given it, and newPage never gives a page twice.                    *)
(***************************************************************************)
THEOREM ChainsAlwaysDisjoint == Spec => []ChainsDisjoint
<1>1. Inv /\ OwnersOK => ChainsDisjoint
  <2> SUFFICES ASSUME Inv, OwnersOK, NEW f \in {store, durable}, NEW t \in Tables, NEW u \in Tables, t # u,
                      NEW p \in {Root(t), LastPage(t)}, NEW q \in {Root(u), LastPage(u)},
                      NEW x \in Chain(f, p), x \in Chain(f, q)
               PROVE  FALSE
    BY DEF ChainsDisjoint, Root, LastPage
  <2>1. PICK owner \in Owners : OwnedBy(owner)
    BY DEF OwnersOK
  <2>2. p \in PageIds /\ q \in PageIds
    BY EntryOfTable DEF Root
  <2>3. owner[p] = Root(t) /\ owner[q] = Root(u) /\ Root(t) # Root(u)
    BY <2>1 DEF OwnedBy, RootsOwned, Root, LastPage, Tables
  <2>4. owner[x] = owner[p] /\ owner[x] = owner[q]
    BY <2>1, <2>2, ChainOwned DEF OwnedBy
  <2> QED BY <2>3, <2>4
<1>2. Inv /\ OwnersOK /\ [Next]_vars => OwnersOK'
  BY OwnersNext
<1> QED BY <1>1, <1>2, OwnersInit, InvAlways, PTL DEF Spec
-----------------------------------------------------------------------------
(***************************************************************************)
(* As long as no process dies, tables.meta is cut short or what the undo-  *)
(* ing of a call restores, so that a restart changes no table.             *)
(***************************************************************************)
FileOK == metaFile # Torn => FileBehind

LEMMA FileNext ==
  ASSUME ~Crashes, Inv, FileOK, [Next]_vars
  PROVE  FileOK'
<1>1. CASE UNCHANGED vars
  BY <1>1, BehindStays DEF FileOK, vars
<1>2. CASE Next /\ metaFile # Torn
  <2>1. metaFile' # Torn => (SaveFails => metaFile' = metaFile)
    BY DEF SaveFails
  <2> QED BY <1>2, <2>1, FileBehindNext DEF FileOK
<1>3. CASE Next /\ metaFile = Torn /\ metaFile' # Torn
  <2>1. FinishCreate \/ FinishInsert
    BY <1>3 DEF Next, CreateTable, InsertInLastPage, InsertInNewPage, LinkNewPage, DeleteRow, UpdateRow,
                Scan, HasNext, TurnPage, SkipTombstone, LoadRow, LoadFails, TakeNext, FlushPage, Restart
  <2>2. ~SaveFails
    BY <1>3 DEF SaveFails
  <2>3. SaveSucceeds /\ UNCHANGED catalog /\ op' = NoOp
    BY <2>1, <2>2 DEF FinishCreate, FinishInsert, catalog
  <2> QED BY <2>3, NoOpFacts DEF SaveSucceeds, Serialized, catalog, FileOK, FileBehind
<1> QED BY <1>1, <1>2, <1>3 DEF FileOK

(***************************************************************************)
(* What a step does to the chains of the tables.  Most leave them.         *)
(***************************************************************************)
LEMMA ChainsAllocated ==
  ASSUME Inv, OwnersOK, NEW p \in Allocated
  PROVE  p \in PageIds /\ Chain(store, p) \subseteq Allocated
<1>1. Allocated \in SUBSET PageIds /\ p \in PageIds
  BY DEF Allocated
<1>2. LinkClosed(store, Allocated)
  BY DEF OwnersOK, OwnedBy, LinksOwned, LinkClosed, Inv, PagesOK, InFile, Allocated
<1> QED BY <1>1, <1>2, ChainLeast

LEMMA RootAllocated ==
  ASSUME Inv, OwnersOK, NEW t \in Tables
  PROVE  /\ Root(t) \in Allocated /\ Root(t) \in PageIds /\ ChainOf(t) = Chain(store, Root(t))
         /\ ChainOf(t) \subseteq Allocated /\ LastPage(t) \in Allocated
<1>1. Root(t) \in Allocated /\ LastPage(t) \in Allocated
  BY DEF Inv, PagesOK, InFile, CatalogsOK, CatalogOK, Allocated, Root, LastPage, Tables
<1> QED BY <1>1, ChainsAllocated DEF ChainOf, Root

LEMMA OtherChains ==
  ASSUME Inv, OwnersOK, NEW t \in Tables, NEW u \in Tables, t # u
  PROVE  ChainOf(t) \cap ChainOf(u) = {} /\ LastPage(t) \notin ChainOf(u) /\ Root(t) # Root(u)
<1>1. PICK owner \in Owners : OwnedBy(owner)
  BY DEF OwnersOK
<1>2. owner[LastPage(t)] = Root(t) /\ owner[Root(t)] = Root(t) /\ owner[Root(u)] = Root(u)
      /\ Root(t) # Root(u)
  BY <1>1 DEF OwnedBy, RootsOwned, Root, LastPage, Tables
<1>3. \A x \in ChainOf(t) : owner[x] = Root(t)
  BY <1>1, <1>2, RootAllocated, ChainOwned DEF OwnedBy
<1>4. \A x \in ChainOf(u) : owner[x] = Root(u)
  BY <1>1, <1>2, RootAllocated, ChainOwned DEF OwnedBy
<1> QED BY <1>2, <1>3, <1>4

LEMMA NewPageChains ==
  ASSUME Inv, OwnersOK, NEW p, NEW page \in Page, NewPage(p, page), page.next = INVALID_PAGE_ID
  PROVE  /\ \A q \in Allocated : Chain(store', q) = Chain(store, q)
         /\ Chain(store', p) = {p}
         /\ p \in PageIds \ Allocated /\ Allocated' = Allocated \cup {p} /\ store'[p] = page
         /\ \A q \in Allocated : store'[q] = store[q]
<1>1. p \in PageIds /\ store[p] = Absent /\ store' = [store EXCEPT ![p] = page]
  BY DEF NewPage, FreshPages
<1>2. store'[p] = page /\ page # Absent /\ \A q \in PageIds \ {p} : store'[q] = store[q]
  BY <1>1, TableManagerAssumption DEF Inv, PagesOK
<1>3. page.next \notin PageIds
  BY PageSlots
<1>4. Chain(store', p) = {p}
  BY <1>1, <1>2, <1>3, ChainEnd
<1>5. ASSUME NEW q \in Allocated PROVE Chain(store', q) = Chain(store, q)
  <2>1. \A x \in Chain(store, q) : x \in PageIds /\ x # p
    BY <1>1, ChainsAllocated DEF Allocated
  <2>2. \A x \in Chain(store, q) : SameLink(store, store', x)
    BY <1>2, <2>1 DEF SameLink
  <2> QED BY <2>2, ChainsAllocated, ChainSame
<1> QED BY <1>1, <1>2, <1>4, <1>5 DEF Allocated

Steady == /\ UNCHANGED tablesMetadata_
          /\ \A q \in Allocated : q \in Allocated' /\ Chain(store', q) = Chain(store, q)

LEMMA SameLinksSteady ==
  ASSUME Inv, OwnersOK, UNCHANGED tablesMetadata_,
         \A p \in PageIds : /\ store'[p] # Absent <=> store[p] # Absent
                            /\ store[p] # Absent => store'[p].next = store[p].next
  PROVE  Steady /\ Allocated' = Allocated
<1>1. \A p \in PageIds : SameLink(store, store', p)
  BY DEF SameLink
<1>2. \A q \in Allocated : q \in PageIds /\ Chain(store, q) \subseteq PageIds
  BY ChainStart DEF Allocated
<1>3. \A q \in Allocated : Chain(store', q) = Chain(store, q)
  BY <1>1, <1>2, ChainSame
<1> QED BY <1>3 DEF Steady, Allocated

LEMMA SteadyChains ==
  ASSUME Inv, OwnersOK, Steady
  PROVE  /\ Tables' = Tables /\ OnChains' = OnChains
         /\ \A t \in Tables : /\ ChainOf(t)' = ChainOf(t) /\ LastPage(t)' = LastPage(t)
                              /\ tablesMetadata_'[t] = tablesMetadata_[t]
<1>1. Tables' = Tables /\ \A t \in Tables : LastPage(t)' = LastPage(t) /\ tablesMetadata_'[t] = tablesMetadata_[t]
  BY DEF Steady, Tables, LastPage
<1>2. ASSUME NEW t \in Tables PROVE ChainOf(t)' = ChainOf(t)
  BY RootAllocated DEF Steady, ChainOf, Root
<1> QED BY <1>1, <1>2 DEF OnChains

LEMMA QuietRestart ==
  ASSUME ~Crashes, Inv, FileOK, Restart
  PROVE  /\ UNCHANGED <<store, tablesMetadata_, rows, losses>> /\ op = NoOp /\ op' = NoOp
         /\ iter' = NoScan /\ due' = {} /\ seen' = <<>>
<1>1. /\ op = NoOp /\ op' = NoOp /\ store' = store /\ metaFile' = metaFile /\ UNCHANGED losses
      /\ iter' = NoScan /\ due' = {} /\ seen' = <<>>
  BY DEF Restart
<1>2. UNCHANGED tablesMetadata_
  <2>1. open' => tablesMetadata_' = metaFile'.tables /\ metaFile' # Torn
    BY DEF Restart, Accepts
  <2>2. ~open' => UNCHANGED tablesMetadata_
    BY DEF Restart, catalog
  <2>3. metaFile # Torn => metaFile = [next |-> nextTableId_, tables |-> tablesMetadata_]
    BY <1>1, NoOpFacts DEF FileOK, FileBehind, Serialized
  <2> QED BY <1>1, <2>1, <2>2, <2>3
<1>3. \A r \in rows : /\ store[r.rid.page] # Absent /\ r.rid.slot \in DOMAIN store[r.rid.page].rows
                      /\ store[r.rid.page].rows[r.rid.slot] = r.value
  BY DEF Inv, RowsOK, RowsReadable, LiveAt
<1>4. rows' = rows
  BY <1>1, <1>3 DEF Restart
<1> QED BY <1>1, <1>2, <1>4

LEMMA InsertNewSteady ==
  ASSUME Inv, OwnersOK, NEW t \in Tables, NEW v \in Values, InsertInNewPage(t, v)
  PROVE  Steady
<1>1. PICK p \in FreshPages : NewPage(p, TablePage(<<>>)) \/ NewPage(p, TablePage(<<v>>))
  BY DEF InsertInNewPage
<1>2. PICK page \in Page : NewPage(p, page) /\ page.next = INVALID_PAGE_ID
  BY <1>1, EmptyRows, OneRow, NewTablePage DEF TablePage
<1>3. UNCHANGED tablesMetadata_
  BY DEF InsertInNewPage, catalog
<1> QED BY <1>2, <1>3, NewPageChains DEF Steady

LEMMA SteadySteps ==
  ASSUME ~Crashes, Inv, OwnersOK, FileOK, Next
  PROVE  \/ Steady
         \/ \E n \in Names : CreateTable(n)
         \/ FinishCreate \/ LinkNewPage \/ FinishInsert
<1>1. ASSUME NEW t \in Tables, NEW v \in Values, InsertInLastPage(t, v) PROVE Steady
  BY <1>1, InsertLinks, SameLinksSteady DEF catalog
<1>2. ASSUME NEW t \in Tables, NEW v \in Values, InsertInNewPage(t, v) PROVE Steady
  BY <1>2, InsertNewSteady
<1>3. ASSUME NEW r \in rows, DeleteRow(r) \/ \E v \in Values : UpdateRow(r, v) PROVE Steady
  BY <1>3, RowLinks, SameLinksSteady DEF catalog
<1>4. CASE \/ \E t \in Tables : Scan(t)
           \/ HasNext \/ TurnPage \/ SkipTombstone \/ LoadRow \/ LoadFails \/ TakeNext \/ Restart
  <2>1. UNCHANGED <<store, tablesMetadata_>>
    BY <1>4, QuietRestart DEF Scan, HasNext, TurnPage, SkipTombstone, LoadRow, LoadFails, TakeNext,
                              pageVars, catalog
  <2> QED BY <2>1, SameLinksSteady
<1>5. \A p \in PageIds : ~FlushPage(p)
  BY DEF FlushPage
<1> QED BY <1>1, <1>2, <1>3, <1>4, <1>5 DEF Next
-----------------------------------------------------------------------------
(***************************************************************************)
(* The last page of a table is on its chain, and no row whose insertion    *)
(* was reported is on a page behind it: so the links that insertRow        *)
(* replaces lead to no such row.                                           *)
(***************************************************************************)
LastOnChain == \A t \in Tables : LastPage(t) \in ChainOf(t)

OnTable(page, t) == /\ page \in ChainOf(t) /\ page <= LastPage(t)
                    /\ op.name = "grow" /\ op.table = t => page <= op.page
RowsOnChain == \A r \in rows : \E t \in Tables : tablesMetadata_[t].name = r.table /\ OnTable(r.rid.page, t)

NewTableEmpty ==
  op.name = "create" =>
    LET t == Len(tablesMetadata_)
    IN  /\ LastPage(t) = Root(t) /\ ChainOf(t) = {Root(t)}
        /\ \A r \in rows : r.table # tablesMetadata_[t].name

NewPageAlone == op.name = "link" => op.page \notin OnChains /\ store[op.page].next = INVALID_PAGE_ID

OldLastPage == op.name = "grow" => op.page \in ChainOf(op.table) /\ op.page < LastPage(op.table)

ReachOK == LastOnChain /\ RowsOnChain /\ NewTableEmpty /\ NewPageAlone /\ OldLastPage

(* The chains after a new page has been linked. *)
LEMMA LinkedChains ==
  ASSUME Inv, LinksOK, OwnersOK, ReachOK, op.name = "link", NEW t \in Tables, t = op.table,
         store' = [store EXCEPT ![LastPage(t)] = Linked(@, op.page)],
         tablesMetadata_' = [tablesMetadata_ EXCEPT ![t].lastPageId = op.page]
  PROVE  /\ Tables' = Tables /\ LastPage(t)' = op.page /\ LastPage(t) < op.page
         /\ ChainOf(t)' = {q \in ChainOf(t) : q <= LastPage(t)} \cup {op.page}
         /\ \A u \in Tables \ {t} : ChainOf(u)' = ChainOf(u) /\ LastPage(u)' = LastPage(u)
         /\ \A u \in Tables : Root(u)' = Root(u) /\ tablesMetadata_'[u].name = tablesMetadata_[u].name
         /\ \A q \in PageIds \ {LastPage(t)} : store'[q] = store[q]
         /\ store'[LastPage(t)].rows = store[LastPage(t)].rows /\ store'[LastPage(t)] # Absent
         /\ Allocated' = Allocated /\ op.page \in Allocated /\ op.page \in PageIds
<1>1. PICK p \in PageIds : p = LastPage(t)
  BY EntryOfTable
<1>2. PICK n \in PageIds : n = op.page
  BY DEF Inv, OpOK, InFile
<1>3. store[p] \in Page /\ p < n /\ p \in ChainOf(t) /\ n \in Allocated
  BY <1>1, <1>2, EntryOfTable DEF LinksOK, NewIsLarger, ReachOK, LastOnChain, Inv, OpOK, PagesOK, InFile, Allocated
<1>4. PICK page : page = Linked(store[p], n)
  OBVIOUS
<1>5. page \in Page /\ page.next = n /\ page.rows = store[p].rows
  BY <1>2, <1>3, <1>4, PageSlots DEF Linked, Page
<1>6. store' = [store EXCEPT ![p] = page] /\ page # Absent /\ store[p] # Absent
  BY <1>1, <1>2, <1>3, <1>4, <1>5, TableManagerAssumption
<1>7. store'[p] = page /\ \A q \in PageIds \ {p} : store'[q] = store[q]
  BY <1>6 DEF Inv, PagesOK
<1>8. \A q \in PageIds \ {p} : SameLink(store, store', q)
  BY <1>7 DEF SameLink
<1>9. tablesMetadata_ \in Seq(Entry) /\ t \in DOMAIN tablesMetadata_ /\ tablesMetadata_[t] \in Entry
  BY TablesFinite, EntryOfTable DEF Tables
<1>10. /\ Tables' = Tables
       /\ tablesMetadata_'[t] = [tablesMetadata_[t] EXCEPT !.lastPageId = n]
       /\ \A u \in Tables \ {t} : tablesMetadata_'[u] = tablesMetadata_[u]
  BY <1>2, <1>9 DEF Tables
<1>11. /\ tablesMetadata_'[t].lastPageId = n
       /\ tablesMetadata_'[t].firstPageId = tablesMetadata_[t].firstPageId
       /\ tablesMetadata_'[t].name = tablesMetadata_[t].name
  BY <1>9, <1>10 DEF Entry
<1>12. \A u \in Tables : Root(u)' = Root(u) /\ tablesMetadata_'[u].name = tablesMetadata_[u].name
  BY <1>10, <1>11 DEF Root
<1>13. store'[n] # Absent => store'[n].next \notin PageIds
  BY <1>2, <1>3, <1>7, PageSlots DEF ReachOK, NewPageAlone, PageIds
<1>14. ChainOf(t)' = {q \in ChainOf(t) : q <= p} \cup {n}
  <2>1. Forward(store) /\ Root(t) \in PageIds /\ p \in Chain(store, Root(t))
    BY <1>3, RootAllocated DEF LinksOK
  <2>2. Chain(store', Root(t)) = {q \in Chain(store, Root(t)) : q <= p} \cup {n}
    <3>1. PICK g : g = store'
      OBVIOUS
    <3>2. g[p] # Absent /\ g[p].next = n /\ (g[n] # Absent => g[n].next \notin PageIds)
      BY <1>5, <1>6, <1>7, <1>13, <3>1
    <3>3. \A q \in PageIds \ {p} : SameLink(store, g, q)
      BY <1>8, <3>1
    <3>4. Chain(g, Root(t)) = {q \in Chain(store, Root(t)) : q <= p} \cup {n}
      BY <1>3, <2>1, <3>2, <3>3, ChainRelinked
    <3> QED BY <3>1, <3>4
  <2>3. ChainOf(t)' = Chain(store', Root(t)) /\ ChainOf(t) = Chain(store, Root(t))
    BY <1>12 DEF ChainOf, Root
  <2> QED BY <2>2, <2>3
<1>15. ASSUME NEW u \in Tables, u # t PROVE ChainOf(u)' = ChainOf(u)
  <2>1. p \notin ChainOf(u) /\ Root(u) \in PageIds /\ ChainOf(u) = Chain(store, Root(u))
    BY <1>1, <1>15, OtherChains, RootAllocated
  <2>2. \A q \in Chain(store, Root(u)) : SameLink(store, store', q)
    BY <1>8, <2>1, ChainStart
  <2>3. ChainOf(u)' = Chain(store', Root(u))
    BY <1>12 DEF ChainOf, Root
  <2> QED BY <2>1, <2>2, <2>3, ChainSame
<1>16. LastPage(t)' = n /\ \A u \in Tables \ {t} : LastPage(u)' = LastPage(u)
  BY <1>10, <1>11 DEF LastPage
<1>17. Allocated' = Allocated
  BY <1>6, <1>7 DEF Allocated
<1> QED BY <1>1, <1>2, <1>3, <1>5, <1>6, <1>7, <1>10, <1>12, <1>14, <1>15, <1>16, <1>17

LEMMA SteadyReach ==
  ASSUME Inv, OwnersOK, ReachOK, Steady, op'.name \notin {"create", "grow"}, NewPageAlone',
         \A r \in rows' : \/ \E x \in rows : x.rid = r.rid /\ x.table = r.table
                          \/ \E t \in Tables : tablesMetadata_[t].name = r.table /\ r.rid.page = LastPage(t)
  PROVE  ReachOK'
<1>1. LastOnChain'
  BY SteadyChains DEF ReachOK, LastOnChain
<1>2. ASSUME NEW r \in rows'
      PROVE  \E t \in Tables : tablesMetadata_'[t].name = r.table /\ OnTable(r.rid.page, t)'
  <2>1. PICK t \in Tables : /\ tablesMetadata_[t].name = r.table
                            /\ r.rid.page \in ChainOf(t) /\ r.rid.page <= LastPage(t)
    <3>1. ASSUME NEW x \in rows, x.rid = r.rid, x.table = r.table
          PROVE  \E t \in Tables : /\ tablesMetadata_[t].name = r.table
                                   /\ r.rid.page \in ChainOf(t) /\ r.rid.page <= LastPage(t)
      BY <3>1 DEF ReachOK, RowsOnChain, OnTable
    <3>2. ASSUME NEW t \in Tables, tablesMetadata_[t].name = r.table, r.rid.page = LastPage(t)
          PROVE  r.rid.page \in ChainOf(t) /\ r.rid.page <= LastPage(t)
      BY <3>2, EntryOfTable DEF ReachOK, LastOnChain, PageIds
    <3> QED BY <3>1, <3>2
  <2>2. tablesMetadata_'[t].name = r.table /\ OnTable(r.rid.page, t)'
    BY <2>1, SteadyChains DEF OnTable
  <2> QED BY <2>2
<1>3. RowsOnChain'
  BY <1>2, SteadyChains DEF RowsOnChain
<1> QED BY <1>1, <1>3 DEF ReachOK, NewTableEmpty, OldLastPage

LEMMA SameRowsReach ==
  ASSUME Inv, OwnersOK, ReachOK, Steady, op'.name \notin {"create", "grow", "link"},
         \A r \in rows' : \E x \in rows : x.rid = r.rid /\ x.table = r.table
  PROVE  ReachOK'
BY SteadyReach DEF NewPageAlone

LEMMA InsertReach ==
  ASSUME Inv, OwnersOK, ReachOK, Steady, NEW t \in Tables, NEW v \in Values,
         InsertInLastPage(t, v) \/ InsertInNewPage(t, v)
  PROVE  ReachOK'
<1>1. CASE InsertInLastPage(t, v)
  <2>1. op'.name = "none"
    BY <1>1, NoOpFacts DEF InsertInLastPage, Idle
  <2>2. \A r \in rows' : r \in rows \/ (tablesMetadata_[t].name = r.table /\ r.rid.page = LastPage(t))
    <3>1. PICK s : Reported(t, LastPage(t), s, v)
      BY <1>1 DEF InsertInLastPage
    <3> QED BY <3>1 DEF Reported
  <2> QED BY <2>1, <2>2, SteadyReach DEF NewPageAlone
<1>2. CASE InsertInNewPage(t, v)
  <2>1. PICK p \in FreshPages :
          \/ NewPage(p, TablePage(<<>>)) /\ op' = op
          \/ NewPage(p, TablePage(<<v>>)) /\ op' = [name |-> "link", table |-> t, page |-> p, value |-> v]
    BY <1>2 DEF InsertInNewPage
  <2>2. PICK page \in Page : NewPage(p, page) /\ page.next = INVALID_PAGE_ID
    BY <2>1, EmptyRows, OneRow, NewTablePage DEF TablePage
  <2>3. op.name = "none" /\ rows' = rows
    BY <1>2, NoOpFacts DEF InsertInNewPage, Idle
  <2>4. p \notin OnChains' /\ store'[p].next = INVALID_PAGE_ID
    <3>1. p \notin Allocated /\ store'[p] = page
      BY <2>2, NewPageChains
    <3>2. OnChains \subseteq Allocated
      BY RootAllocated DEF OnChains
    <3> QED BY <2>2, <3>1, <3>2, SteadyChains
  <2>5. NewPageAlone' /\ op'.name \notin {"create", "grow"}
    BY <2>1, <2>3, <2>4 DEF NewPageAlone
  <2> QED BY <2>3, <2>5, SteadyReach
<1> QED BY <1>1, <1>2

LEMMA RowReach ==
  ASSUME Inv, OwnersOK, ReachOK, Steady, NEW r \in rows,
         DeleteRow(r) \/ \E v \in Values : UpdateRow(r, v)
  PROVE  ReachOK'
<1>1. op'.name = "none"
  BY NoOpFacts DEF DeleteRow, UpdateRow, Idle
<1>2. CASE DeleteRow(r)
  BY <1>1, <1>2, SameRowsReach DEF DeleteRow
<1>3. ASSUME NEW v \in Values, UpdateRow(r, v) PROVE ReachOK'
  <2>1. PICK y : y = [r EXCEPT !.value = v]
    OBVIOUS
  <2>2. rows' = (rows \ {r}) \cup {y}
    BY <1>3, <2>1 DEF UpdateRow
  <2>3. y.rid = r.rid /\ y.table = r.table
    BY <2>1, RowFacts DEF Row
  <2> QED BY <1>1, <2>2, <2>3, SameRowsReach
<1> QED BY <1>2, <1>3

LEMMA ScanReach ==
  ASSUME ~Crashes, Inv, OwnersOK, FileOK, ReachOK, Steady,
         \/ \E t \in Tables : Scan(t)
         \/ HasNext \/ TurnPage \/ SkipTombstone \/ LoadRow \/ LoadFails \/ TakeNext \/ Restart
  PROVE  ReachOK'
<1>1. rows' = rows
  BY QuietRestart DEF Scan, HasNext, TurnPage, SkipTombstone, LoadRow, LoadFails, TakeNext
<1>2. op'.name \notin {"create", "grow", "link"}
  BY NoOpFacts, QuietRestart
     DEF Scan, HasNext, TurnPage, SkipTombstone, LoadRow, LoadFails, TakeNext, Loads, Loading, Idle, NoOp
<1> QED BY <1>1, <1>2, SameRowsReach

(* The catalog's entries stay when it grows or shrinks at its end. *)
LEMMA CreatedTable ==
  ASSUME Inv, OwnersOK, NEW n \in Names, CreateTable(n)
  PROVE  \E p \in PageIds \ Allocated :
           \E t \in Nat :
               /\ t = Len(tablesMetadata_)' /\ tablesMetadata_'[t].name = n
               /\ Tables' = Tables \cup {t} /\ t \notin Tables
               /\ LastPage(t)' = p /\ Root(t)' = p /\ ChainOf(t)' = {p}
               /\ store'[p].rows = <<>> /\ Allocated' = Allocated \cup {p}
               /\ \A q \in Allocated : store'[q] = store[q]
               /\ \A u \in Tables : /\ tablesMetadata_'[u] = tablesMetadata_[u]
                                    /\ ChainOf(u)' = ChainOf(u) /\ LastPage(u)' = LastPage(u)
               /\ OnChains' = OnChains \cup {p}
<1>1. PICK p \in FreshPages :
        /\ NewPage(p, TablePage(<<>>))
        /\ tablesMetadata_' = Append(tablesMetadata_,
             [tableId |-> nextTableId_, name |-> n, firstPageId |-> p, lastPageId |-> p])
  BY DEF CreateTable
<1>2. PICK e : e = [tableId |-> nextTableId_, name |-> n, firstPageId |-> p, lastPageId |-> p]
  OBVIOUS
<1>3. PICK k : k = Len(tablesMetadata_) + 1
  OBVIOUS
<1>4. TablePage(<<>>) \in Page /\ TablePage(<<>>).rows = <<>> /\ TablePage(<<>>).next = INVALID_PAGE_ID
  BY EmptyRows, NewTablePage DEF TablePage
<1>5. /\ \A q \in Allocated : Chain(store', q) = Chain(store, q)
      /\ Chain(store', p) = {p}
      /\ p \in PageIds \ Allocated /\ Allocated' = Allocated \cup {p} /\ store'[p] = TablePage(<<>>)
      /\ \A q \in Allocated : store'[q] = store[q]
  BY <1>1, <1>4, NewPageChains
<1>6. e \in Entry
  BY <1>2, <1>5 DEF Entry, Inv, CatalogsOK, CatalogOK
<1>7. /\ Tables' = Tables \cup {k} /\ k \notin Tables /\ Len(tablesMetadata_)' = k
      /\ tablesMetadata_'[k] = e /\ \A u \in Tables : tablesMetadata_'[u] = tablesMetadata_[u]
  BY <1>1, <1>2, <1>3, <1>6, TablesFinite DEF Tables
<1>8. LastPage(k)' = p /\ Root(k)' = p /\ ChainOf(k)' = {p} /\ tablesMetadata_'[k].name = n
  BY <1>2, <1>5, <1>7 DEF LastPage, Root, ChainOf
<1>9. ASSUME NEW u \in Tables PROVE ChainOf(u)' = ChainOf(u) /\ LastPage(u)' = LastPage(u)
  BY <1>5, <1>7, RootAllocated DEF ChainOf, LastPage, Root
<1>10. OnChains' = OnChains \cup {p}
  BY <1>7, <1>8, <1>9 DEF OnChains
<1> QED BY <1>3, <1>4, <1>5, <1>7, <1>8, <1>9, <1>10, TablesFinite

LEMMA CreateReach ==
  ASSUME Inv, OwnersOK, ReachOK, NEW n \in Names, CreateTable(n)
  PROVE  ReachOK'
<1>1. PICK p \in PageIds \ Allocated :
        \E t \in Nat :
           /\ t = Len(tablesMetadata_)' /\ tablesMetadata_'[t].name = n
           /\ Tables' = Tables \cup {t} /\ t \notin Tables
           /\ LastPage(t)' = p /\ Root(t)' = p /\ ChainOf(t)' = {p}
           /\ \A u \in Tables : /\ tablesMetadata_'[u] = tablesMetadata_[u]
                                /\ ChainOf(u)' = ChainOf(u) /\ LastPage(u)' = LastPage(u)
  BY CreatedTable
<1>2. PICK k \in Nat :
           /\ k = Len(tablesMetadata_)' /\ tablesMetadata_'[k].name = n
           /\ Tables' = Tables \cup {k} /\ k \notin Tables
           /\ LastPage(k)' = p /\ Root(k)' = p /\ ChainOf(k)' = {p}
           /\ \A u \in Tables : /\ tablesMetadata_'[u] = tablesMetadata_[u]
                                /\ ChainOf(u)' = ChainOf(u) /\ LastPage(u)' = LastPage(u)
  BY <1>1
<1>3. op'.name = "create" /\ rows' = rows /\ n \notin TableNames
  BY DEF CreateTable, NoOp
<1>4. LastOnChain'
  BY <1>2 DEF ReachOK, LastOnChain
<1>5. ASSUME NEW r \in rows
      PROVE  \E t \in Tables : /\ tablesMetadata_'[t].name = r.table /\ OnTable(r.rid.page, t)'
                               /\ r.table # n
  <2>1. PICK t \in Tables : tablesMetadata_[t].name = r.table /\ OnTable(r.rid.page, t)
    BY DEF ReachOK, RowsOnChain
  <2>2. r.table # n
    BY <1>3, <2>1 DEF TableNames
  <2>3. OnTable(r.rid.page, t)'
    BY <1>2, <1>3, <2>1 DEF OnTable
  <2> QED BY <1>2, <2>1, <2>2, <2>3
<1>6. RowsOnChain'
  BY <1>2, <1>3, <1>5 DEF RowsOnChain
<1>7. NewTableEmpty'
  BY <1>2, <1>3, <1>5 DEF NewTableEmpty
<1> QED BY <1>3, <1>4, <1>6, <1>7 DEF ReachOK, NewPageAlone, OldLastPage

(* A table whose creation is undone had one page. *)
LEMMA UndoneTable ==
  ASSUME Inv, OwnersOK, op.name = "create", store' = store,
         tablesMetadata_' = Shortened(tablesMetadata_), NEW k, k = Len(tablesMetadata_)
  PROVE  /\ k \in Tables /\ Tables' = Tables \ {k}
         /\ \A u \in Tables \ {k} : /\ tablesMetadata_'[u] = tablesMetadata_[u]
                                    /\ ChainOf(u)' = ChainOf(u) /\ LastPage(u)' = LastPage(u)
         /\ OnChains' = OnChains \ ChainOf(k)
<1>1. tablesMetadata_ # <<>> /\ tablesMetadata_ \in Seq(Entry)
  BY TablesFinite DEF Inv, OpOK
<1>2. /\ k \in Tables /\ Tables' = Tables \ {k}
      /\ \A u \in Tables \ {k} : tablesMetadata_'[u] = tablesMetadata_[u]
  BY <1>1 DEF Shortened, Tables
<1>3. \A u \in Tables \ {k} : ChainOf(u)' = ChainOf(u) /\ LastPage(u)' = LastPage(u)
  BY <1>2 DEF ChainOf, LastPage
<1>4. \A u \in Tables \ {k} : ChainOf(u) \cap ChainOf(k) = {}
  BY <1>2, OtherChains
<1>5. OnChains' = OnChains \ ChainOf(k)
  BY <1>2, <1>3, <1>4 DEF OnChains
<1> QED BY <1>2, <1>3, <1>5

LEMMA FinishCreateReach ==
  ASSUME Inv, OwnersOK, ReachOK, FinishCreate
  PROVE  ReachOK'
<1>1. op.name = "create" /\ op' = NoOp /\ rows' = rows /\ store' = store /\ op'.name = "none"
  BY NoOpFacts DEF FinishCreate, pageVars
<1>2. CASE UNCHANGED catalog
  <2>1. Steady
    BY <1>1, <1>2, SameLinksSteady DEF catalog
  <2> QED BY <1>1, <2>1, SameRowsReach
<1>3. CASE tablesMetadata_' = Shortened(tablesMetadata_)
  <2>1. PICK k : k = Len(tablesMetadata_)
    OBVIOUS
  <2>2. /\ Tables' = Tables \ {k}
        /\ \A u \in Tables \ {k} : /\ tablesMetadata_'[u] = tablesMetadata_[u]
                                   /\ ChainOf(u)' = ChainOf(u) /\ LastPage(u)' = LastPage(u)
    BY <1>1, <1>3, <2>1, UndoneTable
  <2>3. LastOnChain'
    BY <2>2 DEF ReachOK, LastOnChain
  <2>4. ASSUME NEW r \in rows
        PROVE  \E t \in Tables \ {k} : tablesMetadata_'[t].name = r.table /\ OnTable(r.rid.page, t)'
    <3>1. PICK t \in Tables : tablesMetadata_[t].name = r.table /\ OnTable(r.rid.page, t)
      BY DEF ReachOK, RowsOnChain
    <3>2. t # k
      BY <1>1, <2>1, <3>1 DEF ReachOK, NewTableEmpty
    <3>3. OnTable(r.rid.page, t)'
      BY <1>1, <2>2, <3>1, <3>2 DEF OnTable
    <3> QED BY <2>2, <3>1, <3>2, <3>3
  <2>5. RowsOnChain'
    BY <1>1, <2>2, <2>4 DEF RowsOnChain
  <2> QED BY <1>1, <2>3, <2>5 DEF ReachOK, NewTableEmpty, NewPageAlone, OldLastPage
<1> QED BY <1>2, <1>3 DEF FinishCreate, Shortened

LEMMA LinkReach ==
  ASSUME Inv, LinksOK, OwnersOK, ReachOK, LinkNewPage
  PROVE  ReachOK'
<1>1. PICK t \in Tables : t = op.table
  BY DEF LinkNewPage, Inv, OpOK
<1>2. op.name = "link" /\ rows' = rows
  BY DEF LinkNewPage
<1>3. CASE UNCHANGED <<store, tablesMetadata_>> /\ op' = NoOp
  <2>1. Steady
    BY <1>3, SameLinksSteady
  <2> QED BY <1>2, <1>3, <2>1, NoOpFacts, SameRowsReach
<1>4. CASE /\ store' = [store EXCEPT ![LastPage(t)] = Linked(@, op.page)]
           /\ tablesMetadata_' = [tablesMetadata_ EXCEPT ![t].lastPageId = op.page]
           /\ op' = [op EXCEPT !.name = "grow", !.page = LastPage(t)]
  <2>1. PICK p \in PageIds : p = LastPage(t)
    BY EntryOfTable
  <2>2. PICK n : n = op.page
    OBVIOUS
  <2>3. /\ Tables' = Tables /\ LastPage(t)' = n /\ p < n
        /\ ChainOf(t)' = {q \in ChainOf(t) : q <= p} \cup {n}
        /\ \A u \in Tables \ {t} : ChainOf(u)' = ChainOf(u) /\ LastPage(u)' = LastPage(u)
        /\ \A u \in Tables : tablesMetadata_'[u].name = tablesMetadata_[u].name
        /\ n \in PageIds
    BY <1>1, <1>2, <1>4, <2>1, <2>2, LinkedChains
  <2>4. op'.name = "grow" /\ op'.table = t /\ op'.page = p
    BY <1>1, <1>4, <2>1 DEF Inv, OpOK, OpTyped
  <2>5. LastOnChain'
    BY <2>3 DEF ReachOK, LastOnChain
  <2>6. ASSUME NEW r \in rows
        PROVE  \E u \in Tables : tablesMetadata_'[u].name = r.table /\ OnTable(r.rid.page, u)'
    <3>1. PICK u \in Tables : tablesMetadata_[u].name = r.table /\ OnTable(r.rid.page, u)
      BY DEF ReachOK, RowsOnChain
    <3>2. r.rid.page \in PageIds
      BY RowFacts
    <3>3. CASE u = t
      <4>1. r.rid.page \in ChainOf(t)' /\ r.rid.page <= LastPage(t)' /\ r.rid.page <= p
        BY <2>1, <2>3, <3>1, <3>2, <3>3 DEF OnTable, PageIds
      <4> QED BY <2>3, <2>4, <3>1, <3>3, <4>1 DEF OnTable
    <3>4. CASE u # t
      BY <2>3, <2>4, <3>1, <3>4 DEF OnTable
    <3> QED BY <3>3, <3>4
  <2>7. RowsOnChain'
    BY <1>2, <2>3, <2>6 DEF RowsOnChain
  <2>8. OldLastPage'
    BY <1>1, <2>1, <2>3, <2>4 DEF OldLastPage, ReachOK, LastOnChain, PageIds
  <2> QED BY <2>4, <2>5, <2>7, <2>8 DEF ReachOK, NewTableEmpty, NewPageAlone
<1> QED BY <1>1, <1>3, <1>4 DEF LinkNewPage

(* Undoing an insertion takes the new page out of the catalog, not off the chain. *)
LEMMA UndoneInsert ==
  ASSUME Inv, OwnersOK, op.name = "grow", store' = store, NEW t \in Tables, t = op.table,
         tablesMetadata_' = [tablesMetadata_ EXCEPT ![t].lastPageId = op.page]
  PROVE  /\ Tables' = Tables /\ LastPage(t)' = op.page
         /\ \A u \in Tables \ {t} : LastPage(u)' = LastPage(u)
         /\ \A u \in Tables : /\ ChainOf(u)' = ChainOf(u)
                              /\ tablesMetadata_'[u].name = tablesMetadata_[u].name
                              /\ tablesMetadata_'[u].firstPageId = tablesMetadata_[u].firstPageId
         /\ OnChains' = OnChains
<1>1. tablesMetadata_ \in Seq(Entry) /\ t \in DOMAIN tablesMetadata_ /\ tablesMetadata_[t] \in Entry
  BY TablesFinite, EntryOfTable DEF Tables
<1>2. PICK n : n = op.page
  OBVIOUS
<1>3. /\ Tables' = Tables
      /\ tablesMetadata_'[t] = [tablesMetadata_[t] EXCEPT !.lastPageId = n]
      /\ \A u \in Tables \ {t} : tablesMetadata_'[u] = tablesMetadata_[u]
  BY <1>1, <1>2 DEF Tables
<1>4. /\ tablesMetadata_'[t].lastPageId = n
      /\ tablesMetadata_'[t].firstPageId = tablesMetadata_[t].firstPageId
      /\ tablesMetadata_'[t].name = tablesMetadata_[t].name
  BY <1>1, <1>3 DEF Entry
<1>5. \A u \in Tables : /\ tablesMetadata_'[u].name = tablesMetadata_[u].name
                        /\ tablesMetadata_'[u].firstPageId = tablesMetadata_[u].firstPageId
  BY <1>3, <1>4
<1>6. \A u \in Tables : ChainOf(u)' = ChainOf(u)
  BY <1>5 DEF ChainOf
<1> QED BY <1>2, <1>3, <1>4, <1>5, <1>6 DEF LastPage, OnChains

LEMMA FinishInsertReach ==
  ASSUME Inv, OwnersOK, ReachOK, FinishInsert
  PROVE  ReachOK'
<1>1. PICK t \in Tables : t = op.table
  BY DEF FinishInsert, Inv, OpOK
<1>2. op.name = "grow" /\ op' = NoOp /\ op'.name = "none" /\ store' = store
  BY NoOpFacts DEF FinishInsert, pageVars
<1>3. CASE Reported(t, LastPage(t), 1, op.value) /\ UNCHANGED tablesMetadata_
  <2>1. Steady
    BY <1>2, <1>3, SameLinksSteady
  <2>2. \A r \in rows' : r \in rows \/ (tablesMetadata_[t].name = r.table /\ r.rid.page = LastPage(t))
    BY <1>3 DEF Reported
  <2> QED BY <1>2, <2>1, <2>2, SteadyReach DEF NewPageAlone
<1>4. CASE UNCHANGED rows /\ tablesMetadata_' = [tablesMetadata_ EXCEPT ![t].lastPageId = op.page]
  <2>1. /\ Tables' = Tables /\ LastPage(t)' = op.page
        /\ \A u \in Tables \ {t} : LastPage(u)' = LastPage(u)
        /\ \A u \in Tables : /\ ChainOf(u)' = ChainOf(u)
                             /\ tablesMetadata_'[u].name = tablesMetadata_[u].name
    BY <1>1, <1>2, <1>4, UndoneInsert
  <2>2. LastOnChain'
    BY <1>1, <1>2, <2>1 DEF ReachOK, LastOnChain, OldLastPage
  <2>3. ASSUME NEW r \in rows
        PROVE  \E u \in Tables : tablesMetadata_'[u].name = r.table /\ OnTable(r.rid.page, u)'
    <3>1. PICK u \in Tables : tablesMetadata_[u].name = r.table /\ OnTable(r.rid.page, u)
      BY DEF ReachOK, RowsOnChain
    <3>2. OnTable(r.rid.page, u)'
      BY <1>1, <1>2, <2>1, <3>1 DEF OnTable
    <3> QED BY <2>1, <3>1, <3>2
  <2>4. RowsOnChain'
    BY <1>4, <2>1, <2>3 DEF RowsOnChain
  <2> QED BY <1>2, <2>2, <2>4 DEF ReachOK, NewTableEmpty, NewPageAlone, OldLastPage
<1> QED BY <1>1, <1>3, <1>4 DEF FinishInsert

LEMMA ReachInit == Init => ReachOK
BY NoOpFacts DEF Init, Tables, ReachOK, LastOnChain, RowsOnChain, NewTableEmpty, NewPageAlone, OldLastPage

LEMMA ReachNext ==
  ASSUME ~Crashes, Inv, LinksOK, OwnersOK, FileOK, ReachOK, [Next]_vars
  PROVE  ReachOK'
<1>1. CASE Next
  <2>1. ASSUME NEW n \in Names, CreateTable(n) PROVE ReachOK'
    BY <2>1, CreateReach
  <2>2. CASE FinishCreate \/ LinkNewPage \/ FinishInsert
    BY <2>2, FinishCreateReach, LinkReach, FinishInsertReach
  <2>3. CASE Steady
    <3>1. ASSUME NEW t \in Tables, NEW v \in Values, InsertInLastPage(t, v) \/ InsertInNewPage(t, v)
          PROVE  ReachOK'
      BY <2>3, <3>1, InsertReach
    <3>2. ASSUME NEW r \in rows, DeleteRow(r) \/ \E v \in Values : UpdateRow(r, v) PROVE ReachOK'
      BY <2>3, <3>2, RowReach
    <3>3. CASE \/ \E t \in Tables : Scan(t)
               \/ HasNext \/ TurnPage \/ SkipTombstone \/ LoadRow \/ LoadFails \/ TakeNext \/ Restart
      BY <2>3, <3>3, ScanReach
    <3>4. \A p \in PageIds : ~FlushPage(p)
      BY DEF FlushPage
    <3> QED BY <1>1, <2>1, <2>2, <3>1, <3>2, <3>3, <3>4 DEF Next
  <2> QED BY <1>1, <2>1, <2>2, <2>3, SteadySteps
<1>2. CASE UNCHANGED vars
  <2>1. UNCHANGED <<store, tablesMetadata_, op, rows>>
    BY <1>2 DEF vars, pageVars, catalog
  <2> QED BY <2>1 DEF Tables, LastPage, ChainOf, Root, OnChains, OnTable,
                      ReachOK, LastOnChain, RowsOnChain, NewTableEmpty, NewPageAlone, OldLastPage
<1> QED BY <1>1, <1>2

(***************************************************************************)
(* The inductive invariant about chains, as long as no process dies.       *)
(***************************************************************************)
ChainInv == Inv /\ LinksOK /\ PositionOK /\ OwnersOK /\ FileOK /\ ReachOK

LEMMA ChainInvAlways == ASSUME ~Crashes PROVE Spec => []ChainInv
<1>1. Init => ChainInv
  <2>1. Init => FileOK
    BY NoOpFacts DEF Init, FileOK, FileBehind
  <2> QED BY <2>1, ScanInvInit, OwnersInit, ReachInit DEF ChainInv
<1>2. ChainInv /\ [Next]_vars => ChainInv'
  BY ScanInvNext, OwnersNext, FileNext, ReachNext DEF ChainInv
<1> QED BY <1>1, <1>2, PTL DEF Spec

(***************************************************************************)
(* A row whose insertion was reported is on its table's chain, whichever   *)
(* calls failed before: the links that insertRow replaces lead only to     *)
(* pages of insertions whose failure it has reported.                      *)
(***************************************************************************)
THEOREM RowsAlwaysReachable == ASSUME ~Crashes PROVE Spec => []RowsReachable
<1>1. ChainInv => RowsReachable
  BY DEF ChainInv, ReachOK, RowsOnChain, OnTable, RowsReachable
<1> QED BY <1>1, ChainInvAlways, PTL
-----------------------------------------------------------------------------
(***************************************************************************)
(* The pages that failed calls have left are those of no chain, but for    *)
(* the page of an insertion that has not linked it yet.                    *)
(***************************************************************************)
Unlinking == IF op.name = "link" THEN {op.page} ELSE {}
LeakedOK == leaked = Allocated \ (OnChains \cup Unlinking)

(* The pages that linking a new page takes off the chains. *)
LEMMA LinkedOnChains ==
  ASSUME Inv, LinksOK, OwnersOK, ReachOK, op.name = "link", NEW t \in Tables, t = op.table,
         store' = [store EXCEPT ![LastPage(t)] = Linked(@, op.page)],
         tablesMetadata_' = [tablesMetadata_ EXCEPT ![t].lastPageId = op.page]
  PROVE  /\ OnChains' = (OnChains \ BrokenOff(t)) \cup {op.page}
         /\ BrokenOff(t) \subseteq ChainOf(t) /\ op.page \notin OnChains
<1>1. PICK p \in PageIds : p = LastPage(t)
  BY EntryOfTable
<1>2. PICK n : n = op.page
  OBVIOUS
<1>3. /\ Tables' = Tables /\ ChainOf(t)' = {q \in ChainOf(t) : q <= p} \cup {n}
      /\ \A u \in Tables \ {t} : ChainOf(u)' = ChainOf(u)
  BY <1>1, <1>2, LinkedChains
<1>4. BrokenOff(t) = {q \in ChainOf(t) : ~(q <= p)}
  <2>1. p \in Chain(store, Root(t)) /\ Root(t) \in PageIds /\ ChainOf(t) = Chain(store, Root(t))
    BY <1>1, RootAllocated DEF ReachOK, LastOnChain
  <2>2. Forward(store) /\ store[p] # Absent
    BY <1>1, EntryOfTable, TableManagerAssumption DEF LinksOK
  <2>3. {q \in Chain(store, Root(t)) : ~(q <= p)} =
           IF store[p] # Absent /\ store[p].next \in PageIds THEN Chain(store, store[p].next) ELSE {}
    BY <2>1, <2>2, ChainBehind
  <2>4. BrokenOff(t) = IF store[p].next \in PageIds THEN Chain(store, store[p].next) ELSE {}
    BY <1>1 DEF BrokenOff
  <2> QED BY <2>1, <2>2, <2>3, <2>4
<1>5. \A u \in Tables \ {t} : ChainOf(u) \cap BrokenOff(t) = {}
  BY <1>4, OtherChains
<1>6. OnChains' = (OnChains \ BrokenOff(t)) \cup {n}
  BY <1>3, <1>4, <1>5 DEF OnChains
<1> QED BY <1>2, <1>4, <1>6 DEF ReachOK, NewPageAlone

LEMMA SameLeaks ==
  ASSUME LeakedOK, UNCHANGED leaked, Allocated' = Allocated, OnChains' = OnChains,
         op.name # "link" /\ op'.name # "link"
  PROVE  LeakedOK'
BY DEF LeakedOK, Unlinking

LEMMA InsertLeaks ==
  ASSUME ~Crashes, Inv, OwnersOK, Steady, LeakedOK, NEW t \in Tables, NEW v \in Values,
         InsertInNewPage(t, v)
  PROVE  LeakedOK'
<1>1. PICK p \in FreshPages :
        \/ NewPage(p, TablePage(<<>>)) /\ op' = op /\ leaked' = leaked \cup {p}
        \/ /\ NewPage(p, TablePage(<<v>>)) /\ leaked' = leaked
           /\ op' = [name |-> "link", table |-> t, page |-> p, value |-> v]
  BY DEF InsertInNewPage, Leaks
<1>2. PICK page \in Page : NewPage(p, page) /\ page.next = INVALID_PAGE_ID
  BY <1>1, EmptyRows, OneRow, NewTablePage DEF TablePage
<1>3. p \notin Allocated /\ Allocated' = Allocated \cup {p}
  BY <1>2, NewPageChains
<1>4. OnChains' = OnChains /\ OnChains \subseteq Allocated
  BY SteadyChains, RootAllocated DEF OnChains
<1>5. op.name = "none"
  BY NoOpFacts DEF InsertInNewPage, Idle
<1> QED BY <1>1, <1>3, <1>4, <1>5 DEF LeakedOK, Unlinking

LEMMA FinishCreateLeaks ==
  ASSUME ~Crashes, Inv, OwnersOK, ReachOK, LeakedOK, FinishCreate
  PROVE  LeakedOK'
<1>1. op.name = "create" /\ op' = NoOp /\ store' = store /\ op'.name = "none" /\ Allocated' = Allocated
  BY NoOpFacts DEF FinishCreate, pageVars, Allocated
<1>2. CASE UNCHANGED <<catalog, leaked>>
  <2>1. OnChains' = OnChains
    BY <1>1, <1>2 DEF catalog, OnChains, Tables, ChainOf
  <2> QED BY <1>1, <1>2, <2>1, SameLeaks
<1>3. CASE tablesMetadata_' = Shortened(tablesMetadata_) /\ Leaks({LastPage(Len(tablesMetadata_))})
  <2>1. PICK k : k = Len(tablesMetadata_)
    OBVIOUS
  <2>2. k \in Tables /\ OnChains' = OnChains \ ChainOf(k)
    BY <1>1, <1>3, <2>1, UndoneTable
  <2>3. ChainOf(k) = {LastPage(k)} /\ LastPage(k) \in Allocated /\ ChainOf(k) \subseteq OnChains
    BY <1>1, <2>1, <2>2, RootAllocated DEF ReachOK, NewTableEmpty, OnChains
  <2>4. leaked' = leaked \cup {LastPage(k)}
    BY <1>3, <2>1 DEF Leaks
  <2> QED BY <1>1, <2>2, <2>3, <2>4 DEF LeakedOK, Unlinking
<1> QED BY <1>2, <1>3 DEF FinishCreate, Shortened

LEMMA LinkLeaks ==
  ASSUME ~Crashes, Inv, LinksOK, OwnersOK, ReachOK, LeakedOK, LinkNewPage
  PROVE  LeakedOK'
<1>1. PICK t \in Tables : t = op.table
  BY DEF LinkNewPage, Inv, OpOK
<1>2. op.name = "link"
  BY DEF LinkNewPage
<1>3. op.page \in Allocated
  BY <1>2 DEF Inv, OpOK, PagesOK, InFile, Allocated
<1>4. CASE UNCHANGED <<store, tablesMetadata_>> /\ op' = NoOp /\ Leaks({op.page})
  <2>1. OnChains' = OnChains /\ Allocated' = Allocated
    BY <1>4 DEF OnChains, Tables, ChainOf, Allocated
  <2>2. op.page \notin OnChains /\ op'.name = "none"
    BY <1>2, <1>4, NoOpFacts DEF ReachOK, NewPageAlone
  <2> QED BY <1>2, <1>3, <1>4, <2>1, <2>2 DEF LeakedOK, Unlinking, Leaks
<1>5. CASE /\ store' = [store EXCEPT ![LastPage(t)] = Linked(@, op.page)]
           /\ tablesMetadata_' = [tablesMetadata_ EXCEPT ![t].lastPageId = op.page]
           /\ op' = [op EXCEPT !.name = "grow", !.page = LastPage(t)]
           /\ Leaks(BrokenOff(t))
  <2>1. /\ OnChains' = (OnChains \ BrokenOff(t)) \cup {op.page}
        /\ BrokenOff(t) \subseteq ChainOf(t) /\ op.page \notin OnChains
    BY <1>1, <1>2, <1>5, LinkedOnChains
  <2>2. Allocated' = Allocated
    BY <1>1, <1>2, <1>5, LinkedChains
  <2>3. ChainOf(t) \subseteq Allocated /\ ChainOf(t) \subseteq OnChains
    BY RootAllocated DEF OnChains
  <2>4. op'.name = "grow"
    BY <1>5 DEF Inv, OpOK, OpTyped
  <2> QED BY <1>2, <1>3, <1>5, <2>1, <2>2, <2>3, <2>4 DEF LeakedOK, Unlinking, Leaks
<1> QED BY <1>1, <1>4, <1>5 DEF LinkNewPage

LEMMA LeakedNext ==
  ASSUME ~Crashes, ChainInv, LeakedOK, [Next]_vars
  PROVE  LeakedOK'
<1> USE DEF ChainInv
<1>1. ASSUME NEW n \in Names, CreateTable(n) PROVE LeakedOK'
  <2>1. PICK p \in PageIds \ Allocated : Allocated' = Allocated \cup {p} /\ OnChains' = OnChains \cup {p}
    BY <1>1, CreatedTable
  <2>2. op.name = "none" /\ op'.name = "create" /\ leaked' = leaked
    BY <1>1, NoOpFacts DEF CreateTable, Idle, NoOp, losses
  <2> QED BY <2>1, <2>2 DEF LeakedOK, Unlinking
<1>2. CASE FinishCreate \/ LinkNewPage
  BY <1>2, FinishCreateLeaks, LinkLeaks
<1>3. CASE FinishInsert
  <2>1. op.name = "grow" /\ op'.name = "none" /\ UNCHANGED <<store, leaked>> /\ Allocated' = Allocated
    BY <1>3, NoOpFacts DEF FinishInsert, pageVars, Allocated
  <2>2. PICK t \in Tables : t = op.table
    BY <1>3 DEF FinishInsert, Inv, OpOK
  <2>3. CASE tablesMetadata_' = [tablesMetadata_ EXCEPT ![t].lastPageId = op.page]
    BY <2>1, <2>2, <2>3, UndoneInsert, SameLeaks
  <2>4. CASE UNCHANGED tablesMetadata_
    BY <2>1, <2>4, SameLeaks DEF OnChains, Tables, ChainOf
  <2> QED BY <1>3, <2>2, <2>3, <2>4 DEF FinishInsert
<1>4. ASSUME NEW t \in Tables, NEW v \in Values, InsertInLastPage(t, v) PROVE LeakedOK'
  <2>1. Steady /\ Allocated' = Allocated
    BY <1>4, InsertLinks, SameLinksSteady DEF catalog
  <2>2. op.name # "link" /\ op' = op /\ leaked' = leaked
    BY <1>4, NoOpFacts DEF InsertInLastPage, Idle, losses
  <2> QED BY <2>1, <2>2, SteadyChains, SameLeaks
<1>5. ASSUME NEW t \in Tables, NEW v \in Values, InsertInNewPage(t, v), Steady PROVE LeakedOK'
  BY <1>5, InsertLeaks
<1>6. ASSUME NEW r \in rows, DeleteRow(r) \/ \E v \in Values : UpdateRow(r, v) PROVE LeakedOK'
  <2>1. Steady /\ Allocated' = Allocated
    BY <1>6, RowLinks, SameLinksSteady DEF catalog
  <2>2. op.name # "link" /\ op' = op /\ leaked' = leaked
    BY <1>6, NoOpFacts DEF DeleteRow, UpdateRow, Idle, losses
  <2> QED BY <2>1, <2>2, SteadyChains, SameLeaks
<1>7. CASE \/ \E t \in Tables : Scan(t)
           \/ HasNext \/ TurnPage \/ SkipTombstone \/ LoadRow \/ LoadFails \/ TakeNext \/ Restart
  <2>1. UNCHANGED <<store, tablesMetadata_, leaked>>
    BY <1>7, QuietRestart DEF Scan, HasNext, TurnPage, SkipTombstone, LoadRow, LoadFails, TakeNext,
                              pageVars, catalog, losses
  <2>2. op.name # "link" /\ op'.name # "link"
    BY <1>7, NoOpFacts, QuietRestart
       DEF Scan, HasNext, TurnPage, SkipTombstone, LoadRow, LoadFails, TakeNext, Loads, Loading, Idle, NoOp
  <2> QED BY <2>1, <2>2, SameLeaks DEF OnChains, Tables, ChainOf, Allocated
<1>8. CASE UNCHANGED vars
  BY <1>8 DEF vars, pageVars, catalog, losses, LeakedOK, Unlinking, OnChains, Tables, ChainOf, Allocated
<1>9. \A p \in PageIds : ~FlushPage(p)
  BY DEF FlushPage
<1>10. ASSUME NEW t \in Tables, NEW v \in Values, InsertInNewPage(t, v) PROVE Steady
  BY <1>10, InsertNewSteady
<1> QED BY <1>1, <1>2, <1>3, <1>4, <1>5, <1>6, <1>7, <1>8, <1>9, <1>10 DEF Next

(***************************************************************************)
(* Between calls, the pages on no chain are exactly those that failed      *)
(* calls have left: none is lost in another way, and none of those is ever *)
(* on a chain again.                                                       *)
(***************************************************************************)
THEOREM PagesAlwaysOwned == ASSUME ~Crashes PROVE Spec => []PagesOwned
<1>1. Init => LeakedOK
  BY NoOpFacts DEF Init, LeakedOK, Allocated
<1>2. ChainInv /\ LeakedOK /\ [Next]_vars => LeakedOK'
  BY LeakedNext
<1>3. LeakedOK => PagesOwned
  BY NoOpFacts DEF LeakedOK, PagesOwned, Unlinking, Idle
<1> QED BY <1>1, <1>2, <1>3, ChainInvAlways, PTL DEF Spec
-----------------------------------------------------------------------------
(***************************************************************************)
(* Every live slot on a chain is that of a reported row, of an insertion   *)
(* that failed after it had linked its page, or of the one that runs.      *)
(***************************************************************************)
Accounted(p) == \A s \in DOMAIN store[p].rows :
  LiveAt(p, s) => \/ [page |-> p, slot |-> s] \in stray
                  \/ \E r \in rows : r.rid = [page |-> p, slot |-> s]
                  \/ op.name = "grow" /\ p = LastPage(op.table)
SlotsOK == \A p \in OnChains : Accounted(p)

LEMMA AccountedStays ==
  ASSUME NEW p, Accounted(p), store[p] # Absent, store'[p].rows = store[p].rows,
         stray \subseteq stray', \A r \in rows : \E x \in rows' : x.rid = r.rid,
         ~(op.name = "grow" /\ p = LastPage(op.table))
  PROVE  Accounted(p)'
BY DEF Accounted, LiveAt

LEMMA ChainPage ==
  ASSUME Inv, OwnersOK, NEW p \in OnChains
  PROVE  p \in PageIds /\ store[p] # Absent /\ p \in Allocated /\ store[p] \in Page
<1>1. p \in Allocated
  BY RootAllocated DEF OnChains
<1> QED BY <1>1 DEF Allocated, Inv, PagesOK

LEMMA CreateSlots ==
  ASSUME ChainInv, SlotsOK, NEW n \in Names, CreateTable(n)
  PROVE  SlotsOK'
<1> USE DEF ChainInv
<1>1. PICK p \in PageIds \ Allocated : /\ OnChains' = OnChains \cup {p} /\ store'[p].rows = <<>>
                                       /\ \A q \in Allocated : store'[q] = store[q]
  BY CreatedTable
<1>2. op.name = "none" /\ stray' = stray /\ rows' = rows
  BY NoOpFacts DEF CreateTable, Idle, losses
<1>3. Accounted(p)'
  BY <1>1 DEF Accounted
<1>4. \A q \in OnChains : Accounted(q)'
  BY <1>1, <1>2, ChainPage, AccountedStays DEF SlotsOK
<1> QED BY <1>1, <1>3, <1>4 DEF SlotsOK

LEMMA ReportedRid ==
  ASSUME NEW t, NEW p, NEW s, NEW v, Reported(t, p, s, v)
  PROVE  rows \subseteq rows' /\ \E r \in rows' : r.rid = [page |-> p, slot |-> s]
<1>1. PICK x : x = [table |-> tablesMetadata_[t].name, rid |-> [page |-> p, slot |-> s], value |-> v]
  OBVIOUS
<1>2. x.rid = [page |-> p, slot |-> s] /\ rows' = rows \cup {x}
  BY <1>1 DEF Reported
<1> QED BY <1>2

LEMMA InsertSlots ==
  ASSUME ChainInv, Steady, SlotsOK, NEW t \in Tables, NEW v \in Values, InsertInLastPage(t, v)
  PROVE  SlotsOK'
<1> USE DEF ChainInv
<1>1. PICK p \in PageIds : p = LastPage(t)
  BY EntryOfTable
<1>2. PICK page \in Page : page = store[p] /\ page # Absent
  BY <1>1, EntryOfTable, TableManagerAssumption
<1>3. PICK q : q = [page EXCEPT !.rows = Append(@, v)]
  OBVIOUS
<1>4. PICK n : n = Len(page.rows)
  OBVIOUS
<1>5. /\ n \in Nat /\ DOMAIN page.rows = 1 .. n /\ DOMAIN q.rows = 1 .. n + 1
      /\ \A i \in 1 .. n : q.rows[i] = page.rows[i]
  BY <1>3, <1>4, <1>2, AppendedRow
<1>6. /\ store' = [store EXCEPT ![p] = q] /\ Reported(t, p, n + 1, v)
      /\ op.name = "none" /\ op' = op /\ stray' = stray
  BY <1>1, <1>2, <1>3, <1>4, NoOpFacts DEF InsertInLastPage, WithRow, Idle, losses
<1>7. store'[p] = q /\ \A u \in PageIds \ {p} : store'[u] = store[u]
  BY <1>6 DEF Inv, PagesOK
<1>8. rows \subseteq rows' /\ \E r \in rows' : r.rid = [page |-> p, slot |-> n + 1]
  BY <1>6, ReportedRid
<1>9. ASSUME NEW u \in OnChains PROVE Accounted(u)'
  <2>1. Accounted(u) /\ u \in PageIds /\ store[u] # Absent
    BY ChainPage DEF SlotsOK
  <2>2. CASE u = p
    <3>1. ASSUME NEW s \in DOMAIN store'[u].rows, LiveAt(u, s)'
          PROVE  \/ [page |-> u, slot |-> s] \in stray'
                 \/ \E r \in rows' : r.rid = [page |-> u, slot |-> s]
      <4>1. CASE s = n + 1
        BY <1>8, <2>2, <4>1
      <4>2. CASE s # n + 1
        <5>1. s \in 1 .. n
          BY <1>5, <1>7, <2>2, <3>1, <4>2
        <5>2. LiveAt(u, s) /\ s \in DOMAIN store[u].rows
          BY <1>2, <1>5, <1>7, <2>1, <2>2, <3>1, <5>1 DEF LiveAt
        <5> QED BY <1>6, <1>8, <2>1, <5>2 DEF Accounted
      <4> QED BY <4>1, <4>2
    <3> QED BY <3>1 DEF Accounted
  <2>3. CASE u # p
    BY <1>6, <1>7, <1>8, <2>1, <2>3, AccountedStays
  <2> QED BY <2>2, <2>3
<1> QED BY <1>9, SteadyChains DEF SlotsOK

LEMMA InsertNewSlots ==
  ASSUME ChainInv, Steady, SlotsOK, NEW t \in Tables, NEW v \in Values, InsertInNewPage(t, v)
  PROVE  SlotsOK'
<1> USE DEF ChainInv
<1>1. PICK p \in FreshPages : NewPage(p, TablePage(<<>>)) \/ NewPage(p, TablePage(<<v>>))
  BY DEF InsertInNewPage
<1>2. PICK page \in Page : NewPage(p, page) /\ page.next = INVALID_PAGE_ID
  BY <1>1, EmptyRows, OneRow, NewTablePage DEF TablePage
<1>3. \A q \in Allocated : store'[q] = store[q]
  BY <1>2, NewPageChains
<1>4. op.name = "none" /\ stray' = stray /\ rows' = rows
  BY NoOpFacts DEF InsertInNewPage, Idle
<1>5. \A q \in OnChains : Accounted(q)'
  BY <1>3, <1>4, ChainPage, AccountedStays DEF SlotsOK
<1> QED BY <1>5, SteadyChains DEF SlotsOK

LEMMA LinkSlots ==
  ASSUME ChainInv, SlotsOK, LinkNewPage
  PROVE  SlotsOK'
<1> USE DEF ChainInv
<1>1. PICK t \in Tables : t = op.table
  BY DEF LinkNewPage, Inv, OpOK
<1>2. op.name = "link" /\ stray' = stray /\ rows' = rows
  BY DEF LinkNewPage
<1>3. CASE UNCHANGED <<store, tablesMetadata_>>
  <2>1. OnChains' = OnChains
    BY <1>3 DEF OnChains, Tables, ChainOf
  <2>2. \A q \in OnChains : Accounted(q)'
    BY <1>2, <1>3, ChainPage, AccountedStays DEF SlotsOK
  <2> QED BY <2>1, <2>2 DEF SlotsOK
<1>4. CASE /\ store' = [store EXCEPT ![LastPage(t)] = Linked(@, op.page)]
           /\ tablesMetadata_' = [tablesMetadata_ EXCEPT ![t].lastPageId = op.page]
           /\ op' = [op EXCEPT !.name = "grow", !.page = LastPage(t)]
  <2>1. PICK p : p = LastPage(t)
    OBVIOUS
  <2>2. PICK n : n = op.page
    OBVIOUS
  <2>3. /\ \A q \in PageIds \ {p} : store'[q] = store[q]
        /\ store'[p].rows = store[p].rows /\ LastPage(t)' = n
    BY <1>1, <1>2, <1>4, <2>1, <2>2, LinkedChains
  <2>4. OnChains' \subseteq OnChains \cup {n}
    BY <1>1, <1>2, <1>4, <2>2, LinkedOnChains
  <2>5. \A q \in OnChains : Accounted(q)'
    <3>1. \A q \in OnChains : store'[q].rows = store[q].rows
      BY <2>3, ChainPage
    <3> QED BY <1>2, <3>1, ChainPage, AccountedStays DEF SlotsOK
  <2>6. op'.name = "grow" /\ op'.table = t
    BY <1>1, <1>4 DEF Inv, OpOK, OpTyped
  <2>7. LastPage(op.table)' = n
    BY <2>3, <2>6 DEF LastPage
  <2>8. Accounted(n)'
    BY <2>6, <2>7 DEF Accounted
  <2> QED BY <2>4, <2>5, <2>8 DEF SlotsOK
<1> QED BY <1>1, <1>3, <1>4 DEF LinkNewPage

LEMMA FinishInsertSlots ==
  ASSUME ~Crashes, ChainInv, SlotsOK, FinishInsert
  PROVE  SlotsOK'
<1> USE DEF ChainInv
<1>1. PICK t \in Tables : t = op.table
  BY DEF FinishInsert, Inv, OpOK
<1>2. PICK p : p = LastPage(t)
  OBVIOUS
<1>3. op.name = "grow" /\ op' = NoOp /\ store' = store /\ store[p].rows = <<op.value>>
  BY <1>1, <1>2 DEF FinishInsert, pageVars, Inv, RowsOK, NewRowOK, AloneOn
<1>4. \/ Reported(t, p, 1, op.value) /\ UNCHANGED <<tablesMetadata_, stray>>
      \/ /\ tablesMetadata_' = [tablesMetadata_ EXCEPT ![t].lastPageId = op.page]
         /\ Strays(p, 1) /\ UNCHANGED rows
  BY <1>1, <1>2 DEF FinishInsert
<1>5. OnChains' = OnChains
  <2>1. CASE UNCHANGED tablesMetadata_
    BY <1>3, <2>1 DEF OnChains, Tables, ChainOf
  <2>2. CASE tablesMetadata_' = [tablesMetadata_ EXCEPT ![t].lastPageId = op.page]
    BY <1>1, <1>3, <2>2, UndoneInsert
  <2> QED BY <1>4, <2>1, <2>2
<1>6. /\ stray \subseteq stray' /\ rows \subseteq rows'
      /\ \/ [page |-> p, slot |-> 1] \in stray'
         \/ \E r \in rows' : r.rid = [page |-> p, slot |-> 1]
  <2>1. CASE Reported(t, p, 1, op.value) /\ UNCHANGED stray
    BY <2>1, ReportedRid
  <2>2. CASE Strays(p, 1) /\ UNCHANGED rows
    BY <2>2 DEF Strays
  <2> QED BY <1>4, <2>1, <2>2
<1>7. Accounted(p)'
  <2>1. DOMAIN store'[p].rows = {1}
    BY <1>3
  <2> QED BY <1>6, <2>1 DEF Accounted
<1>8. ASSUME NEW q \in OnChains, q # p PROVE Accounted(q)'
  BY <1>1, <1>2, <1>3, <1>6, <1>8, ChainPage, AccountedStays DEF SlotsOK
<1> QED BY <1>5, <1>7, <1>8 DEF SlotsOK

LEMMA WrittenSlots ==
  ASSUME Inv, NEW r \in rows, NEW v \in Values \cup {Tombstone},
         store' = [store EXCEPT ![r.rid.page] = [store[r.rid.page] EXCEPT !.rows[r.rid.slot] = v]]
  PROVE  /\ \A p \in PageIds : store[p] # Absent =>
              /\ DOMAIN store'[p].rows = DOMAIN store[p].rows
              /\ \A s \in DOMAIN store[p].rows :
                   [page |-> p, slot |-> s] = r.rid \/ store'[p].rows[s] = store[p].rows[s]
         /\ store'[r.rid.page].rows[r.rid.slot] = v
<1>1. PICK p : p = r.rid.page
  OBVIOUS
<1>2. PICK s : s = r.rid.slot
  OBVIOUS
<1>3. p \in PageIds /\ store[p] \in Page /\ s \in DOMAIN store[p].rows /\ r.rid = [page |-> p, slot |-> s]
  BY <1>1, <1>2, RowFacts
<1>4. PICK q : q = [store[p] EXCEPT !.rows[s] = v]
  OBVIOUS
<1>5. /\ DOMAIN q.rows = DOMAIN store[p].rows /\ q.rows[s] = v
      /\ \A i \in DOMAIN store[p].rows \ {s} : q.rows[i] = store[p].rows[i]
  BY <1>3, <1>4, WrittenSlot
<1>6. store'[p] = q /\ \A u \in PageIds \ {p} : store'[u] = store[u]
  BY <1>1, <1>2, <1>3, <1>4 DEF Inv, PagesOK
<1> QED BY <1>1, <1>2, <1>3, <1>5, <1>6

LEMMA RowSlotsKept ==
  ASSUME ChainInv, Steady, SlotsOK, NEW r \in rows, DeleteRow(r) \/ \E v \in Values : UpdateRow(r, v)
  PROVE  SlotsOK'
<1> USE DEF ChainInv
<1>1. op.name = "none" /\ stray' = stray
  BY NoOpFacts DEF DeleteRow, UpdateRow, Idle, losses
<1>2. PICK v \in Values \cup {Tombstone} :
        /\ store' = [store EXCEPT ![r.rid.page] = [store[r.rid.page] EXCEPT !.rows[r.rid.slot] = v]]
        /\ v = Tombstone \/ \E x \in rows' : x.rid = r.rid
        /\ rows \ {r} \subseteq rows'
  <2>1. CASE DeleteRow(r)
    BY <2>1 DEF DeleteRow, WithTombstone
  <2>2. ASSUME NEW v \in Values, UpdateRow(r, v)
        PROVE  /\ store' = [store EXCEPT ![r.rid.page] = [store[r.rid.page] EXCEPT !.rows[r.rid.slot] = v]]
               /\ \E x \in rows' : x.rid = r.rid
               /\ rows \ {r} \subseteq rows'
    <3>1. PICK y : y = [r EXCEPT !.value = v]
      OBVIOUS
    <3>2. rows' = (rows \ {r}) \cup {y} /\ y.rid = r.rid
      BY <2>2, <3>1, RowFacts DEF UpdateRow, Row
    <3> QED BY <2>2, <3>2 DEF UpdateRow
  <2> QED BY <2>1, <2>2
<1>3. ASSUME NEW p \in OnChains, NEW s \in DOMAIN store'[p].rows, LiveAt(p, s)'
      PROVE  \/ [page |-> p, slot |-> s] \in stray'
             \/ \E x \in rows' : x.rid = [page |-> p, slot |-> s]
  <2>1. p \in PageIds /\ store[p] # Absent /\ Accounted(p)
    BY ChainPage DEF SlotsOK
  <2>2. CASE [page |-> p, slot |-> s] = r.rid
    <3>1. p = r.rid.page /\ s = r.rid.slot
      BY <2>2, RowFacts
    <3>2. store'[r.rid.page].rows[r.rid.slot] = v
      BY <1>2, WrittenSlots
    <3>3. v # Tombstone
      BY <1>3, <3>1, <3>2 DEF LiveAt
    <3> QED BY <1>2, <2>2, <3>3
  <2>3. CASE [page |-> p, slot |-> s] # r.rid
    <3>1. /\ DOMAIN store'[p].rows = DOMAIN store[p].rows
          /\ [page |-> p, slot |-> s] = r.rid \/ store'[p].rows[s] = store[p].rows[s]
      <4>1. \A q \in PageIds : store[q] # Absent =>
              /\ DOMAIN store'[q].rows = DOMAIN store[q].rows
              /\ \A i \in DOMAIN store[q].rows :
                   [page |-> q, slot |-> i] = r.rid \/ store'[q].rows[i] = store[q].rows[i]
        BY <1>2, WrittenSlots
      <4> QED BY <2>1, <4>1, Zenon
    <3>2. LiveAt(p, s) /\ s \in DOMAIN store[p].rows
      BY <1>3, <2>1, <2>3, <3>1 DEF LiveAt
    <3> QED BY <1>1, <1>2, <2>1, <2>3, <3>2 DEF Accounted
  <2> QED BY <2>2, <2>3
<1>4. \A p \in OnChains : Accounted(p)'
  BY <1>3 DEF Accounted
<1> QED BY <1>4, SteadyChains DEF SlotsOK

LEMMA SlotsNext ==
  ASSUME ~Crashes, ChainInv, SlotsOK, [Next]_vars
  PROVE  SlotsOK'
<1> USE DEF ChainInv
<1>1. CASE UNCHANGED vars
  BY <1>1 DEF vars, pageVars, catalog, losses, SlotsOK, Accounted, LiveAt, LastPage, OnChains, Tables, ChainOf
<1>2. ASSUME NEW n \in Names, CreateTable(n) PROVE SlotsOK'
  BY <1>2, CreateSlots
<1>3. CASE LinkNewPage \/ FinishInsert
  BY <1>3, LinkSlots, FinishInsertSlots
<1>4. CASE FinishCreate
  <2>1. op.name = "create" /\ UNCHANGED <<store, rows, stray>>
    BY <1>4 DEF FinishCreate, pageVars
  <2>2. OnChains' \subseteq OnChains
    <3>1. CASE UNCHANGED catalog
      BY <2>1, <3>1 DEF catalog, OnChains, Tables, ChainOf
    <3>2. CASE tablesMetadata_' = Shortened(tablesMetadata_)
      BY <2>1, <3>2, UndoneTable
    <3> QED BY <1>4, <3>1, <3>2 DEF FinishCreate, Shortened
  <2>3. \A q \in OnChains : Accounted(q)'
    BY <2>1, ChainPage, AccountedStays DEF SlotsOK
  <2> QED BY <2>2, <2>3 DEF SlotsOK
<1>5. ASSUME NEW t \in Tables, NEW v \in Values, InsertInLastPage(t, v), Steady PROVE SlotsOK'
  BY <1>5, InsertSlots
<1>6. ASSUME NEW t \in Tables, NEW v \in Values, InsertInNewPage(t, v) PROVE SlotsOK'
  BY <1>6, InsertNewSteady, InsertNewSlots
<1>7. ASSUME NEW r \in rows, DeleteRow(r) \/ \E v \in Values : UpdateRow(r, v), Steady PROVE SlotsOK'
  BY <1>7, RowSlotsKept
<1>8. CASE \/ \E t \in Tables : Scan(t)
           \/ HasNext \/ TurnPage \/ SkipTombstone \/ LoadRow \/ LoadFails \/ TakeNext \/ Restart
  <2>1. UNCHANGED <<store, tablesMetadata_, rows, stray>> /\ op.name # "grow"
    BY <1>8, QuietRestart, NoOpFacts
       DEF Scan, HasNext, TurnPage, SkipTombstone, LoadRow, LoadFails, TakeNext,
           pageVars, catalog, losses, Idle, Loads, Loading
  <2>2. OnChains' = OnChains
    BY <2>1 DEF OnChains, Tables, ChainOf
  <2>3. \A q \in OnChains : Accounted(q)'
    BY <2>1, ChainPage, AccountedStays DEF SlotsOK
  <2> QED BY <2>2, <2>3 DEF SlotsOK
<1>9. \A p \in PageIds : ~FlushPage(p)
  BY DEF FlushPage
<1>10. ASSUME NEW t \in Tables, NEW v \in Values, InsertInLastPage(t, v) PROVE Steady
  BY <1>10, InsertLinks, SameLinksSteady DEF catalog
<1>11. ASSUME NEW r \in rows, DeleteRow(r) \/ \E v \in Values : UpdateRow(r, v) PROVE Steady
  BY <1>11, RowLinks, SameLinksSteady DEF catalog
<1> QED BY <1>1, <1>2, <1>3, <1>4, <1>5, <1>6, <1>7, <1>8, <1>9, <1>10, <1>11 DEF Next

(***************************************************************************)
(* A scan comes to no row whose insertion was refused, but for the rows of *)
(* insertions that failed at their very last step, the save.               *)
(***************************************************************************)
THEOREM PhantomsOnlyFromSaves == ASSUME ~Crashes PROVE Spec => []NoPhantomRows
<1>1. Init => SlotsOK
  BY DEF Init, SlotsOK, OnChains, Tables
<1>2. ChainInv /\ SlotsOK /\ [Next]_vars => SlotsOK'
  BY SlotsNext
<1>3. SlotsOK => NoPhantomRows
  BY NoOpFacts DEF SlotsOK, Accounted, NoPhantomRows, Idle
<1> QED BY <1>1, <1>2, <1>3, ChainInvAlways, PTL DEF Spec
-----------------------------------------------------------------------------
(***************************************************************************)
(* A row that a scan has to return has been returned, is cached, or is in  *)
(* front of the iterator on the chain that it follows.                     *)
(***************************************************************************)
Ahead(d) == /\ iter.nextPageId \in PageIds
            /\ d.page \in Chain(store, iter.nextPageId)
            /\ d.page = iter.nextPageId => d.slot >= iter.nextSlotId
Pending(d) == \/ \E i \in DOMAIN seen : seen[i] = d
              \/ iter.cached # Nil /\ d = iter.cached
              \/ Ahead(d)
DueOK == \A d \in due : Pending(d) /\ \E r \in rows : r.rid = d

LEMMA DueRow ==
  ASSUME ChainInv, DueOK, NEW d \in due
  PROVE  /\ d \in Rid /\ d.page \in PageIds /\ d.slot \in Nat \ {0} /\ d.page \in Allocated
         /\ store[d.page] \in Page
         /\ d.slot \in DOMAIN store[d.page].rows /\ store[d.page].rows[d.slot] # Tombstone
<1>1. PICK r \in rows : r.rid = d
  BY DEF DueOK
<1>2. d \in Rid
  BY DEF ChainInv, Inv, ScanOK
<1>3. store[d.page] # Absent /\ store[d.page].rows[d.slot] # Tombstone
  BY <1>1 DEF ChainInv, Inv, RowsOK, RowsReadable, LiveAt
<1> QED BY <1>1, <1>2, <1>3, RowFacts DEF ChainInv, Allocated

LEMMA DueKept ==
  ASSUME ChainInv, DueOK, UNCHANGED <<iter, seen>>, due' \subseteq due,
         \A d \in due' : \E r \in rows' : r.rid = d,
         \A d \in due' : Ahead(d) => d.page \in Chain(store', iter.nextPageId)
  PROVE  DueOK'
BY DEF DueOK, Pending, Ahead

LEMMA DueSameChains ==
  ASSUME ChainInv, DueOK, UNCHANGED <<iter, seen>>, due' \subseteq due,
         \A d \in due' : \E r \in rows' : r.rid = d,
         \A q \in Allocated : Chain(store', q) = Chain(store, q)
  PROVE  DueOK'
<1>1. ASSUME NEW d \in due, Ahead(d) PROVE d.page \in Chain(store', iter.nextPageId)
  <2>1. d.page \in Allocated /\ iter.nextPageId \in PageIds /\ d.page \in Chain(store, iter.nextPageId)
    BY <1>1, DueRow DEF Ahead
  <2>2. iter.nextPageId \in Allocated
    BY <2>1, ChainNext DEF Allocated
  <2> QED BY <2>1, <2>2
<1> QED BY <1>1, DueKept

LEMMA DueSameRows ==
  ASSUME ChainInv, DueOK, UNCHANGED scan, \A r \in rows : \E x \in rows' : x.rid = r.rid,
         \A q \in Allocated : Chain(store', q) = Chain(store, q)
  PROVE  DueOK'
<1>1. UNCHANGED <<iter, seen, due>>
  BY DEF scan
<1>2. \A d \in due : \E r \in rows' : r.rid = d
  BY DEF DueOK
<1> QED BY <1>1, <1>2, DueSameChains

LEMMA LinkDue ==
  ASSUME ChainInv, DueOK, LinkNewPage
  PROVE  DueOK'
<1> USE DEF ChainInv
<1>1. PICK t \in Tables : t = op.table
  BY DEF LinkNewPage, Inv, OpOK
<1>2. op.name = "link" /\ UNCHANGED <<scan, rows>>
  BY DEF LinkNewPage
<1>3. CASE UNCHANGED store
  BY <1>2, <1>3, DueSameRows
<1>4. CASE /\ store' = [store EXCEPT ![LastPage(t)] = Linked(@, op.page)]
           /\ tablesMetadata_' = [tablesMetadata_ EXCEPT ![t].lastPageId = op.page]
  <2>1. PICK last \in PageIds : last = LastPage(t)
    BY EntryOfTable
  <2>2. \A q \in PageIds \ {last} : SameLink(store, store', q)
    <3>1. \A q \in PageIds \ {last} : store'[q] = store[q]
      BY <1>1, <1>2, <1>4, <2>1, LinkedChains
    <3> QED BY <3>1 DEF SameLink
  <2>3. PICK g : g = store'
    OBVIOUS
  <2>4. PICK owner \in Owners : OwnedBy(owner)
    BY DEF OwnersOK
  <2>5. ASSUME NEW d \in due, Ahead(d) PROVE d.page \in Chain(g, iter.nextPageId)
    <3>1. PICK n \in PageIds : n = iter.nextPageId /\ d.page \in Chain(store, n)
      BY <2>5 DEF Ahead
    <3>2. CASE last \notin Chain(store, n)
      <4>1. \A q \in Chain(store, n) : SameLink(store, g, q)
        BY <2>2, <2>3, <3>2, ChainStart
      <4> QED BY <3>1, <4>1, ChainSame
    <3>3. CASE last \in Chain(store, n)
      <4>1. PICK r \in rows : r.rid = d
        BY DEF DueOK
      <4>2. PICK u \in Tables : OnTable(d.page, u)
        BY <4>1 DEF ReachOK, RowsOnChain
      <4>3. d.page \in Chain(store, Root(u)) /\ Root(u) \in PageIds
        BY <4>2, RootAllocated DEF OnTable
      <4>4. owner[last] = Root(t) /\ owner[Root(u)] = Root(u)
        BY <2>1, <2>4 DEF OwnedBy, RootsOwned, Root, LastPage, Tables
      <4>5. owner[d.page] = owner[n] /\ owner[last] = owner[n] /\ owner[d.page] = owner[Root(u)]
        BY <2>4, <3>1, <3>3, <4>3, ChainOwned DEF OwnedBy
      <4>6. u = t
        BY <4>4, <4>5, OtherChains
      <4>7. d.page <= last
        BY <2>1, <4>2, <4>6 DEF OnTable
      <4> QED BY <2>2, <2>3, <3>1, <4>7, ChainKeptBelow DEF LinksOK
    <3> QED BY <3>1, <3>2, <3>3
  <2>6. UNCHANGED <<iter, seen, due>> /\ \A d \in due' : \E r \in rows' : r.rid = d
    BY <1>2 DEF scan, DueOK
  <2> QED BY <2>3, <2>5, <2>6, DueKept
<1> QED BY <1>1, <1>3, <1>4 DEF LinkNewPage

LEMMA ScanDue ==
  ASSUME ChainInv, NEW t \in Tables, Scan(t)
  PROVE  DueOK'
<1> USE DEF ChainInv
<1>1. /\ due' = {r.rid : r \in {x \in rows : x.table = tablesMetadata_[t].name}}
      /\ iter'.nextPageId = Root(t) /\ iter'.nextSlotId = 1 /\ UNCHANGED <<store, rows>>
  BY DEF Scan, NoScan, Root, pageVars
<1>2. ASSUME NEW r \in rows, r.table = tablesMetadata_[t].name PROVE Ahead(r.rid)'
  <2>1. PICK u \in Tables : tablesMetadata_[u].name = r.table /\ OnTable(r.rid.page, u)
    BY DEF ReachOK, RowsOnChain
  <2>2. u = t
    BY <1>2, <2>1 DEF Inv, CatalogsOK, CatalogOK, Tables
  <2>3. r.rid.page \in Chain(store, Root(t)) /\ Root(t) \in PageIds
    BY <2>1, <2>2, RootAllocated DEF OnTable
  <2>4. r.rid.slot >= 1
    <3>1. \A s \in Nat \ {0} : s >= 1
      OBVIOUS
    <3>2. r.rid.slot \in Nat \ {0}
      BY RowFacts
    <3> QED BY <3>1, <3>2
  <2> QED BY <1>1, <2>3, <2>4 DEF Ahead
<1> QED BY <1>1, <1>2 DEF DueOK, Pending

LEMMA TurnPageDue ==
  ASSUME ChainInv, DueOK, TurnPage
  PROVE  DueOK'
<1> USE DEF ChainInv
<1>1. PICK p \in PageIds : /\ p = iter.nextPageId /\ store[p] # Absent
                           /\ iter' = [iter EXCEPT !.nextPageId = store[p].next, !.nextSlotId = 1]
                           /\ iter.nextSlotId > Len(store[p].rows)
                           /\ UNCHANGED <<store, rows, seen, due>>
  BY DEF TurnPage, Loads, PastLastSlot, pageVars
<1>2. iter'.nextPageId = store[p].next /\ iter'.nextSlotId = 1 /\ iter'.cached = iter.cached
  BY <1>1 DEF Inv, ScanOK, Iters
<1>3. ASSUME NEW d \in due, Ahead(d) PROVE Ahead(d)'
  <2>1. d.page # p
    <3> SUFFICES ASSUME d.page = p PROVE FALSE
      OBVIOUS
    <3>1. d.slot >= iter.nextSlotId /\ iter.nextSlotId \in Nat
      BY <1>1, <1>3, RidOrder DEF Ahead
    <3>2. Len(store[p].rows) \in Nat /\ d.slot \in 1 .. Len(store[p].rows)
      BY DueRow DEF Page
    <3> QED BY <1>1, <3>1, <3>2
  <2>2. store[p].next \in PageIds /\ d.page \in Chain(store, store[p].next)
    BY <1>1, <1>3, <2>1, ChainNext DEF Ahead
  <2>3. d.slot >= 1
    BY DueRow
  <2> QED BY <1>1, <1>2, <2>2, <2>3 DEF Ahead
<1> QED BY <1>1, <1>2, <1>3 DEF DueOK, Pending

LEMMA SkipTombstoneDue ==
  ASSUME ChainInv, DueOK, SkipTombstone
  PROVE  DueOK'
<1> USE DEF ChainInv
<1>1. PICK p \in PageIds : /\ p = iter.nextPageId
                           /\ iter' = [iter EXCEPT !.nextSlotId = iter.nextSlotId + 1]
                           /\ store[p].rows[iter.nextSlotId] = Tombstone
                           /\ UNCHANGED <<store, rows, seen, due>>
  BY DEF SkipTombstone, Loads, Read, SlotAfterTombstone, pageVars
<1>2. /\ iter'.nextPageId = p /\ iter'.nextSlotId = iter.nextSlotId + 1
      /\ iter'.cached = iter.cached /\ iter.nextSlotId \in Nat
  BY <1>1 DEF Inv, ScanOK, Iters
<1>3. ASSUME NEW d \in due, Ahead(d) PROVE Ahead(d)'
  <2>1. d.page = p => d.slot # iter.nextSlotId /\ d.slot >= iter.nextSlotId /\ d.slot \in Nat
    BY <1>1, <1>3, DueRow DEF Ahead
  <2> QED BY <1>1, <1>2, <1>3, <2>1 DEF Ahead
<1> QED BY <1>1, <1>2, <1>3 DEF DueOK, Pending

LEMMA LoadRowDue ==
  ASSUME ChainInv, DueOK, LoadRow
  PROVE  DueOK'
<1> USE DEF ChainInv
<1>1. PICK p \in PageIds :
        /\ p = iter.nextPageId
        /\ iter' = [iter EXCEPT !.cached = [page |-> p, slot |-> iter.nextSlotId],
                                !.nextSlotId = iter.nextSlotId + 1]
        /\ op.name = "load" /\ UNCHANGED <<store, rows, seen, due>>
  BY DEF LoadRow, Loads, Loading, SlotAfterRow, pageVars
<1>2. PICK c : c = [page |-> p, slot |-> iter.nextSlotId]
  OBVIOUS
<1>3. /\ iter'.nextPageId = p /\ iter'.nextSlotId = iter.nextSlotId + 1 /\ iter'.cached = c
      /\ iter.cached = Nil /\ iter.nextSlotId \in Nat \ {0}
  <2>1. iter \in Iters
    BY DEF Inv, ScanOK
  <2> QED BY <1>1, <1>2, <2>1 DEF Iters, PositionOK
<1>4. c # Nil
  <2>1. c \in Rid
    BY <1>2, <1>3 DEF Rid
  <2> QED BY <2>1, TableManagerAssumption
<1>5. ASSUME NEW d \in due, Ahead(d) PROVE d = c \/ Ahead(d)'
  <2>1. CASE d.page = p /\ d.slot = iter.nextSlotId
    BY <1>2, <2>1, DueRow DEF Rid
  <2>2. CASE ~(d.page = p /\ d.slot = iter.nextSlotId)
    <3>1. d.page = p => d.slot >= iter.nextSlotId + 1
      BY <1>1, <1>3, <1>5, <2>2, DueRow DEF Ahead
    <3> QED BY <1>1, <1>3, <1>5, <3>1 DEF Ahead
  <2> QED BY <2>1, <2>2
<1> QED BY <1>1, <1>3, <1>4, <1>5 DEF DueOK, Pending

LEMMA TakeNextDue ==
  ASSUME ChainInv, DueOK, TakeNext
  PROVE  DueOK'
<1> USE DEF ChainInv
<1>1. /\ iter' = [iter EXCEPT !.cached = Nil] /\ seen' = Append(seen, iter.cached)
      /\ UNCHANGED <<store, rows, due>> /\ iter.cached # Nil
  BY DEF TakeNext, pageVars
<1>2. PICK c \in Rid : c = iter.cached
  BY <1>1 DEF Inv, ScanOK, Iters
<1>3. iter'.nextPageId = iter.nextPageId /\ iter'.nextSlotId = iter.nextSlotId
  BY <1>1 DEF Inv, ScanOK, Iters
<1>4. /\ DOMAIN seen' = 1 .. Len(seen) + 1 /\ seen'[Len(seen) + 1] = c
      /\ Len(seen) \in Nat /\ \A i \in DOMAIN seen : i \in DOMAIN seen' /\ seen'[i] = seen[i]
  <2>1. seen \in Seq(Rid)
    BY DEF Inv, ScanOK
  <2> QED BY <1>1, <1>2, <2>1
<1>5. \E i \in DOMAIN seen' : seen'[i] = c
  BY <1>4
<1>6. ASSUME NEW d \in due PROVE Pending(d)'
  <2>1. CASE Ahead(d)
    BY <1>1, <1>3, <2>1 DEF Pending, Ahead
  <2>2. CASE ~Ahead(d)
    BY <1>2, <1>4, <1>5, <2>2 DEF DueOK, Pending
  <2> QED BY <2>1, <2>2
<1> QED BY <1>1, <1>6 DEF DueOK

LEMMA RowDue ==
  ASSUME ChainInv, DueOK, NEW r \in rows, DeleteRow(r) \/ \E v \in Values : UpdateRow(r, v)
  PROVE  DueOK'
<1> USE DEF ChainInv
<1>1. \A q \in Allocated : Chain(store', q) = Chain(store, q)
  BY RowLinks, SameLinksSteady DEF catalog, Steady
<1>2. CASE DeleteRow(r)
  <2>1. UNCHANGED <<iter, seen>> /\ due' = due \ {r.rid} /\ rows' = rows \ {r}
    BY <1>2 DEF DeleteRow
  <2>2. \A d \in due' : \E x \in rows' : x.rid = d
    BY <2>1 DEF DueOK
  <2> QED BY <1>1, <2>1, <2>2, DueSameChains
<1>3. ASSUME NEW v \in Values, UpdateRow(r, v) PROVE DueOK'
  <2>1. PICK y : y = [r EXCEPT !.value = v]
    OBVIOUS
  <2>2. rows' = (rows \ {r}) \cup {y} /\ y.rid = r.rid /\ UNCHANGED scan
    BY <1>3, <2>1, RowFacts DEF UpdateRow, Row
  <2>3. \A z \in rows : \E x \in rows' : x.rid = z.rid
    BY <2>2
  <2> QED BY <1>1, <2>2, <2>3, DueSameRows
<1> QED BY <1>2, <1>3

LEMMA DueNext ==
  ASSUME ~Crashes, ChainInv, DueOK, [Next]_vars
  PROVE  DueOK'
<1> USE DEF ChainInv
<1>1. CASE UNCHANGED vars
  BY <1>1, DueSameRows DEF vars, pageVars
<1>2. ASSUME NEW n \in Names, CreateTable(n) PROVE DueOK'
  <2>1. PICK p : NewPage(p, TablePage(<<>>))
    BY <1>2 DEF CreateTable
  <2>2. TablePage(<<>>) \in Page /\ TablePage(<<>>).next = INVALID_PAGE_ID
    BY EmptyRows, NewTablePage DEF TablePage
  <2>3. \A q \in Allocated : Chain(store', q) = Chain(store, q)
    BY <2>1, <2>2, NewPageChains
  <2>4. UNCHANGED <<scan, rows>>
    BY <1>2 DEF CreateTable
  <2> QED BY <2>3, <2>4, DueSameRows
<1>3. CASE FinishCreate \/ HasNext \/ LoadFails
  <2>1. UNCHANGED <<store, scan, rows>>
    BY <1>3 DEF FinishCreate, HasNext, LoadFails, pageVars
  <2> QED BY <2>1, DueSameRows
<1>4. CASE FinishInsert
  <2>1. UNCHANGED <<store, scan>> /\ rows \subseteq rows'
    BY <1>4 DEF FinishInsert, Reported, pageVars
  <2> QED BY <2>1, DueSameRows
<1>5. ASSUME NEW t \in Tables, NEW v \in Values, InsertInLastPage(t, v) PROVE DueOK'
  <2>1. Steady
    BY <1>5, InsertLinks, SameLinksSteady DEF catalog
  <2>2. UNCHANGED scan /\ rows \subseteq rows'
    BY <1>5 DEF InsertInLastPage, Reported
  <2> QED BY <2>1, <2>2, DueSameRows DEF Steady
<1>6. ASSUME NEW t \in Tables, NEW v \in Values, InsertInNewPage(t, v) PROVE DueOK'
  <2>1. Steady
    BY <1>6, InsertNewSteady
  <2>2. UNCHANGED <<scan, rows>>
    BY <1>6 DEF InsertInNewPage
  <2> QED BY <2>1, <2>2, DueSameRows DEF Steady
<1>7. ASSUME NEW r \in rows, DeleteRow(r) \/ \E v \in Values : UpdateRow(r, v) PROVE DueOK'
  BY <1>7, RowDue
<1>8. ASSUME NEW t \in Tables, Scan(t) PROVE DueOK'
  BY <1>8, ScanDue
<1>9. CASE LinkNewPage \/ TurnPage \/ SkipTombstone \/ LoadRow \/ TakeNext
  BY <1>9, LinkDue, TurnPageDue, SkipTombstoneDue, LoadRowDue, TakeNextDue
<1>10. CASE Restart
  <2>1. due' = {}
    BY <1>10 DEF Restart
  <2> QED BY <2>1 DEF DueOK
<1>11. \A p \in PageIds : ~FlushPage(p)
  BY DEF FlushPage
<1> QED BY <1>1, <1>2, <1>3, <1>4, <1>5, <1>6, <1>7, <1>8, <1>9, <1>10, <1>11 DEF Next

(***************************************************************************)
(* An iterator that has come to its end has returned every row that was in *)
(* the table when it began and was not deleted, also when insertions have  *)
(* replaced links of the chain while it was on it.                         *)
(***************************************************************************)
THEOREM ScansAlwaysComplete == ASSUME ~Crashes PROVE Spec => []ScanComplete
<1>1. Init => DueOK
  BY DEF Init, DueOK
<1>2. ChainInv /\ DueOK /\ [Next]_vars => DueOK'
  BY DueNext
<1>3. DueOK => ScanComplete
  BY PageSlots DEF DueOK, Pending, Ahead, Finished, ScanComplete
<1> QED BY <1>1, <1>2, <1>3, ChainInvAlways, PTL DEF Spec
=============================================================================
