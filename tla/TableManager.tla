----------------------------- MODULE TableManager -----------------------------
(***************************************************************************)
(* Tables (src/catalog/TableManager.cpp, src/record/PagedTable.cpp) and    *)
(* scans (src/record/TableIterator.cpp).  A table is a chain of slotted    *)
(* pages; the catalog knows its first and last page and is written to      *)
(* tables.meta whenever it changes.  Pages are those of the buffer pool,   *)
(* a CachedStore: written in memory, durable at some later time.           *)
(*                                                                         *)
(* The rows of a table have one size, so a page has room for Capacity      *)
(* slots, deleted ones included, and none if a row is larger than a page.  *)
(* An operation is split where a failure or a crash can separate its       *)
(* effects: after the work on a new page, after linking it, and at the     *)
(* save.  No page is given back, so new ids only grow.                     *)
(***************************************************************************)
EXTENDS Integers, Sequences

CONSTANTS
  Names,            \* the names of tables
  Capacity,         \* slots per page, for each name
  Values,           \* encoded rows
  MaxPages,         \* bound on page ids
  Absent,           \* a page the file has not
  Tombstone,        \* a deleted row
  Nil,              \* no cached entry, no table
  Torn,             \* a tables.meta that was cut short, see TablesMeta
  DiskFaults,       \* may fetchPage and newPage fail?
  SaveFaults,       \* how may a save fail, see SaveFaultKinds
  Crashes,          \* may the process die at any moment?
  Scanned           \* the tables that clients scan

(***************************************************************************)
(* "unopened": save cannot open the file and reports it                    *)
(* "torn":     save has emptied the file, and reports that writing failed  *)
(***************************************************************************)
SaveFaultKinds == {"unopened", "torn"}

PageIds == 1 .. MaxPages
INVALID_PAGE_ID == MaxPages + 1
Page == [next : 0 .. INVALID_PAGE_ID, initialized : BOOLEAN,
         rows : Seq(Values \cup {Tombstone})]
Rid == [page : PageIds, slot : Nat \ {0}]

ASSUME TableManagerAssumption ==
  /\ Capacity \in [Names -> Nat]
  /\ MaxPages \in Nat
  /\ Nil \notin Names /\ Nil \notin Rid /\ Tombstone \notin Values /\ Absent \notin Page
  /\ SaveFaults \subseteq SaveFaultKinds
  /\ DiskFaults \in BOOLEAN /\ Crashes \in BOOLEAN
  /\ Scanned \subseteq Names

ZeroPage == [next |-> 0, initialized |-> FALSE, rows |-> <<>>]
TablePage(rs) == [next |-> INVALID_PAGE_ID, initialized |-> TRUE, rows |-> rs]

VARIABLES
  store, durable,   \* the buffer pool, see CachedStore
  tablesMetadata_, nextTableId_,
  metaFile,         \* tables.meta
  open,             \* has TableManager::open succeeded?
  op,               \* the operation between two of its steps
  iter,             \* a TableIterator
  rows,             \* the rows whose insertion was reported, not deleted since
  leaked, stray,    \* pages and rows that failed calls have left
  seen, due         \* rows the iterator returned, rows it has to return

pageVars == <<store, durable>>
catalog == <<tablesMetadata_, nextTableId_>>
scan == <<iter, seen, due>>
losses == <<leaked, stray>>
vars == <<pageVars, catalog, metaFile, open, op, scan, rows, losses>>

NoOp == [name |-> "none", table |-> 0, page |-> 0, value |-> Nil]
NoScan == [table |-> Nil, nextPageId |-> INVALID_PAGE_ID, nextSlotId |-> 1, cached |-> Nil]
Row == [table : Names, rid : Rid, value : Values]

TypeOK ==
  /\ store \in [PageIds -> Page \cup {Absent}]
  /\ durable \in [PageIds -> Page \cup {Absent}]
  /\ tablesMetadata_ \in Seq([tableId : Nat, name : Names,
                              firstPageId : PageIds, lastPageId : PageIds])
  /\ nextTableId_ \in Nat
  /\ open \in BOOLEAN
  /\ op \in [name : {"none", "create", "link", "grow", "load"},
             table : 0 .. Len(tablesMetadata_), page : 0 .. MaxPages, value : Values \cup {Nil}]
  /\ iter.table \in Names \cup {Nil} /\ iter.nextPageId \in 0 .. INVALID_PAGE_ID
  /\ rows \subseteq Row /\ seen \in Seq(Rid) /\ due \subseteq Rid
  /\ leaked \subseteq PageIds /\ stray \subseteq Rid

Idle == open /\ op = NoOp
Tables == DOMAIN tablesMetadata_
TableNames == {tablesMetadata_[t].name : t \in Tables}
Serialized == [next |-> nextTableId_, tables |-> tablesMetadata_]

Init ==
  /\ store = [p \in PageIds |-> Absent] /\ durable = store
  /\ tablesMetadata_ = <<>> /\ nextTableId_ = 1
  /\ metaFile = Serialized
  /\ open = TRUE /\ op = NoOp
  /\ iter = NoScan /\ rows = {} /\ seen = <<>> /\ due = {}
  /\ leaked = {} /\ stray = {}
-----------------------------------------------------------------------------
(***************************************************************************)
(* bpm_.newPage extends the file with a zero page at once; what the caller *)
(* then writes to it is in the pool.                                       *)
(***************************************************************************)
NeverFlushed ==                                \* mutant: allocation is not durable
  {p \in PageIds : durable[p] \in {Absent, ZeroPage}
                   /\ \A q \in 1 .. p - 1 : durable[q] \notin {Absent, ZeroPage}}
FreshPages == {p \in PageIds : store[p] = Absent /\ \A q \in 1 .. p - 1 : store[q] # Absent}

NotExtended(p) == durable                      \* mutant: the file is extended by the flush
Extended(p) == [durable EXCEPT ![p] = ZeroPage]

NewPage(p, page) == /\ p \in FreshPages
                    /\ store' = [store EXCEPT ![p] = page]
                    /\ durable' = Extended(p)

(***************************************************************************)
(* The pages of the chain that starts at page p: the smallest set that has *)
(* p and, with a page, the one that its link names.                        *)
(***************************************************************************)
LinkClosed(f, S) ==
  \A q \in S : f[q] # Absent /\ f[q].next \in PageIds => f[q].next \in S
Chain(f, p) == LET closed == {S \in SUBSET PageIds : p \in S /\ LinkClosed(f, S)}
               IN  {q \in PageIds : \A S \in closed : q \in S}
ChainOf(t) == Chain(store, tablesMetadata_[t].firstPageId)

Allocated == {p \in PageIds : store[p] # Absent}
LastPage(t) == tablesMetadata_[t].lastPageId

(***************************************************************************)
(* What a failed call leaves behind.  It is recorded as long as no process *)
(* dies, which may lose or bring back links.                               *)
(***************************************************************************)
Leaks(S) == leaked' = IF Crashes THEN leaked ELSE leaked \cup S
Strays(p, s) == stray' = IF Crashes THEN stray ELSE stray \cup {[page |-> p, slot |-> s]}

(***************************************************************************)
(* save: the whole catalog, or a failure.                                  *)
(***************************************************************************)
SaveSucceeds == metaFile' = Serialized
SaveFails == metaFile' \in {metaFile : x \in SaveFaults \cap {"unopened"}}
                             \cup {Torn : x \in SaveFaults \cap {"torn"}}

(***************************************************************************)
(* createTable: a new first page and a catalog entry, which is taken back  *)
(* when the save fails.                                                    *)
(***************************************************************************)
IdNotAdvanced == nextTableId_                  \* mutant: an id is used again
IdAfterCreate == nextTableId_ + 1

CreateTable(n) ==
  /\ Idle
  /\ n \notin TableNames
  /\ \E p \in FreshPages :
       /\ NewPage(p, TablePage(<<>>))
       /\ tablesMetadata_' = Append(tablesMetadata_,
            [tableId |-> nextTableId_, name |-> n, firstPageId |-> p, lastPageId |-> p])
  /\ nextTableId_' = IdAfterCreate
  /\ op' = [NoOp EXCEPT !.name = "create"]
  /\ UNCHANGED <<metaFile, open, scan, rows, losses>>

IdNotRestored == nextTableId_                  \* mutant: a failed create keeps the id
IdRestoredTwice == nextTableId_ - 2            \* mutant: undone by caller and callee
IdBeforeCreate == nextTableId_ - 1

FinishCreate ==
  /\ op.name = "create"
  /\ \/ SaveSucceeds /\ UNCHANGED <<catalog, leaked>>
     \/ /\ SaveFails
        /\ nextTableId_' = IdBeforeCreate
        /\ tablesMetadata_' = SubSeq(tablesMetadata_, 1, Len(tablesMetadata_) - 1)
        /\ Leaks({LastPage(Len(tablesMetadata_))})
  /\ op' = NoOp
  /\ UNCHANGED <<pageVars, open, scan, rows, stray>>
-----------------------------------------------------------------------------
(***************************************************************************)
(* insertRow.  A row that fits goes to the last page.  Otherwise it goes   *)
(* to a new page; then the last page is linked to that one, and then the   *)
(* catalog learns the new last page.  What was done stays done when a      *)
(* later step fails, but for the catalog's last page.                      *)
(***************************************************************************)
Room(t) == Capacity[tablesMetadata_[t].name]
Fits(t) == /\ store[LastPage(t)].initialized
           /\ Len(store[LastPage(t)].rows) < Room(t)

PushedInFront(rs, v) == <<v>> \o rs            \* mutant: rows get new slots
WithRow(rs, v) == Append(rs, v)

Reported(t, p, s, v) ==
  rows' = rows \cup {[table |-> tablesMetadata_[t].name, rid |-> [page |-> p, slot |-> s], value |-> v]}

InsertInLastPage(t, v) ==
  /\ Idle
  /\ Fits(t)
  /\ store' = [store EXCEPT ![LastPage(t)].rows = WithRow(@, v)]
  /\ Reported(t, LastPage(t), Len(store[LastPage(t)].rows) + 1, v)
  /\ UNCHANGED <<durable, catalog, metaFile, open, op, scan, losses>>

(* A row that no page can hold leaves its new page behind. *)
InsertInNewPage(t, v) ==
  /\ Idle
  /\ ~Fits(t)
  /\ \E p \in FreshPages :
       IF Room(t) = 0
         THEN NewPage(p, TablePage(<<>>)) /\ Leaks({p}) /\ UNCHANGED op
         ELSE /\ NewPage(p, TablePage(<<v>>))
              /\ op' = [name |-> "link", table |-> t, page |-> p, value |-> v]
              /\ UNCHANGED leaked
  /\ UNCHANGED <<catalog, metaFile, open, scan, rows, stray>>

Unlinked(page, p) == page                      \* mutant: the link is not written
Linked(page, p) == [page EXCEPT !.next = p]

(* The link may replace that to the page of an insertion whose save failed. *)
BrokenOff(t) ==
  IF store[LastPage(t)].next \in PageIds THEN Chain(store, store[LastPage(t)].next) ELSE {}

LinkNewPage ==
  /\ op.name = "link"
  /\ \/ /\ store' = [store EXCEPT ![LastPage(op.table)] = Linked(@, op.page)]
        /\ tablesMetadata_' = [tablesMetadata_ EXCEPT ![op.table].lastPageId = op.page]
        /\ op' = [op EXCEPT !.name = "grow", !.page = LastPage(op.table)]
        /\ Leaks(BrokenOff(op.table))
     \/ /\ DiskFaults
        /\ op' = NoOp
        /\ Leaks({op.page})
        /\ UNCHANGED <<store, tablesMetadata_>>
  /\ UNCHANGED <<durable, nextTableId_, metaFile, open, scan, rows, stray>>

FinishInsert ==
  /\ op.name = "grow"
  /\ \/ /\ SaveSucceeds
        /\ Reported(op.table, LastPage(op.table), 1, op.value)
        /\ UNCHANGED <<tablesMetadata_, stray>>
     \/ /\ SaveFails
        /\ tablesMetadata_' = [tablesMetadata_ EXCEPT ![op.table].lastPageId = op.page]
        /\ Strays(LastPage(op.table), 1)
        /\ UNCHANGED rows
  /\ op' = NoOp
  /\ UNCHANGED <<pageVars, nextTableId_, open, scan, leaked>>

(***************************************************************************)
(* updateRow and deleteRow take a row id that a client was given; neither  *)
(* touches a deleted row.                                                  *)
(***************************************************************************)
LiveAt(p, s) == /\ store[p] # Absent
                /\ s \in DOMAIN store[p].rows
                /\ store[p].rows[s] # Tombstone

UpdateRow(r, v) ==
  /\ Idle
  /\ LiveAt(r.rid.page, r.rid.slot)
  /\ store' = [store EXCEPT ![r.rid.page].rows[r.rid.slot] = v]
  /\ rows' = (rows \ {r}) \cup {[r EXCEPT !.value = v]}
  /\ UNCHANGED <<durable, catalog, metaFile, open, op, scan, losses>>

NotDeleted(page, s) == page                    \* mutant: the slot keeps its size
WithTombstone(page, s) == [page EXCEPT !.rows[s] = Tombstone]

DeleteRow(r) ==
  /\ Idle
  /\ LiveAt(r.rid.page, r.rid.slot)
  /\ store' = [store EXCEPT ![r.rid.page] = WithTombstone(@, r.rid.slot)]
  /\ rows' = rows \ {r}
  /\ due' = due \ {r.rid}
  /\ UNCHANGED <<durable, catalog, metaFile, open, op, iter, seen, losses>>
-----------------------------------------------------------------------------
(***************************************************************************)
(* A scan, one iteration of loadNext at a time.  No other call runs before *)
(* loadNext is done.                                                       *)
(***************************************************************************)
Scan(t) ==
  /\ Idle
  /\ tablesMetadata_[t].name \in Scanned
  /\ iter' = [NoScan EXCEPT !.table = tablesMetadata_[t].name,
                            !.nextPageId = tablesMetadata_[t].firstPageId]
  /\ seen' = <<>>
  /\ due' = {r.rid : r \in {x \in rows : x.table = tablesMetadata_[t].name}}
  /\ UNCHANGED <<pageVars, catalog, metaFile, open, op, rows, losses>>

HasNext == /\ Idle
           /\ iter.cached = Nil
           /\ iter.nextPageId # INVALID_PAGE_ID
           /\ op' = [NoOp EXCEPT !.name = "load"]
           /\ UNCHANGED <<pageVars, catalog, metaFile, open, scan, rows, losses>>

Loading == op.name = "load"
Loads(page) == Loading /\ iter.nextPageId \in PageIds /\ store[iter.nextPageId] = page
Read(page) == page.rows[iter.nextSlotId]

LastSlotSkipped(page) == iter.nextSlotId >= Len(page.rows)   \* mutant: off by one
PastLastSlot(page) == iter.nextSlotId > Len(page.rows)

TurnPage == \E page \in {store[p] : p \in PageIds} \ {Absent} :
  /\ Loads(page)
  /\ PastLastSlot(page)
  /\ iter' = [iter EXCEPT !.nextPageId = page.next, !.nextSlotId = 1]
  /\ op' = IF page.next = INVALID_PAGE_ID THEN NoOp ELSE op
  /\ UNCHANGED <<pageVars, catalog, metaFile, open, rows, seen, due, losses>>

SameSlotAgain == iter.nextSlotId               \* mutant: the loop reads the slot again
SlotAfterTombstone == iter.nextSlotId + 1

SkipTombstone == \E page \in {store[p] : p \in PageIds} \ {Absent} :
  /\ Loads(page)
  /\ ~PastLastSlot(page)
  /\ Read(page) = Tombstone
  /\ iter' = [iter EXCEPT !.nextSlotId = SlotAfterTombstone]
  /\ UNCHANGED <<pageVars, catalog, metaFile, open, op, rows, seen, due, losses>>

SlotNotAdvanced == iter.nextSlotId             \* mutant: next starts at the same slot
SlotAfterRow == iter.nextSlotId + 1

LoadRow == \E page \in {store[p] : p \in PageIds} \ {Absent} :
  /\ Loads(page)
  /\ ~PastLastSlot(page)
  /\ Read(page) # Tombstone
  /\ iter' = [iter EXCEPT !.cached = [page |-> iter.nextPageId, slot |-> iter.nextSlotId],
                          !.nextSlotId = SlotAfterRow]
  /\ op' = NoOp
  /\ UNCHANGED <<pageVars, catalog, metaFile, open, rows, seen, due, losses>>

LoadFails ==
  /\ Loading
  /\ DiskFaults \/ iter.nextPageId \notin Allocated
  /\ op' = NoOp
  /\ UNCHANGED <<pageVars, catalog, metaFile, open, scan, rows, losses>>

(* next returns the cached entry, after a call of hasNext if there is none. *)
TakeNext == /\ Idle
            /\ iter.cached # Nil
            /\ seen' = Append(seen, iter.cached)
            /\ iter' = [iter EXCEPT !.cached = Nil]
            /\ UNCHANGED <<pageVars, catalog, metaFile, open, op, rows, due, losses>>
-----------------------------------------------------------------------------
(***************************************************************************)
(* Between two calls the pool may write any page to the file.              *)
(***************************************************************************)
FlushPage(p) == /\ Crashes
                /\ open
                /\ durable[p] # store[p]
                /\ durable' = [durable EXCEPT ![p] = store[p]]
                /\ UNCHANGED <<store, catalog, metaFile, open, op, scan, rows, losses>>

(***************************************************************************)
(* load does not get past a file that was cut short and refuses one that   *)
(* its own rules exclude.                                                  *)
(***************************************************************************)
Accepts(f) ==
  /\ f # Torn
  /\ \A i, j \in DOMAIN f.tables : f.tables[i].tableId = f.tables[j].tableId
                                   \/ f.tables[i].name = f.tables[j].name => i = j
  /\ \A i \in DOMAIN f.tables : /\ f.tables[i].tableId < f.next
                                /\ f.tables[i].firstPageId \in PageIds
                                /\ f.tables[i].lastPageId \in PageIds

(* What a process that dies in the middle of a save leaves behind. *)
MidSave == IF op.name \in {"create", "grow"} THEN {Torn, Serialized} ELSE {}

(***************************************************************************)
(* The manager and the pool are destroyed and made again: in order, when   *)
(* the pool writes every page to the file, or because the process died.    *)
(***************************************************************************)
Restart ==
  /\ \/ op = NoOp /\ durable' = store /\ UNCHANGED metaFile
     \/ Crashes /\ UNCHANGED durable /\ metaFile' \in MidSave \cup {metaFile}
  /\ store' = durable'
  /\ open' = Accepts(metaFile')
  /\ IF open' THEN tablesMetadata_' = metaFile'.tables /\ nextTableId_' = metaFile'.next
              ELSE UNCHANGED catalog
  /\ op' = NoOp
  /\ iter' = NoScan /\ seen' = <<>> /\ due' = {}
  /\ rows' = {r \in rows : /\ store'[r.rid.page] # Absent
                           /\ r.rid.slot \in DOMAIN store'[r.rid.page].rows
                           /\ store'[r.rid.page].rows[r.rid.slot] = r.value}
  /\ UNCHANGED losses

Next ==
  \/ \E n \in Names : CreateTable(n)
  \/ FinishCreate
  \/ \E t \in Tables, v \in Values : InsertInLastPage(t, v) \/ InsertInNewPage(t, v)
  \/ LinkNewPage \/ FinishInsert
  \/ \E r \in rows : DeleteRow(r) \/ \E v \in Values : UpdateRow(r, v)
  \/ \E t \in Tables : Scan(t)
  \/ HasNext \/ TurnPage \/ SkipTombstone \/ LoadRow \/ LoadFails \/ TakeNext
  \/ \E p \in PageIds : FlushPage(p)
  \/ Restart

Spec == Init /\ [][Next]_vars

(***************************************************************************)
(* A call that runs takes its next step: it is the only thread, and waits  *)
(* for nobody.  A read is not assumed to fail, so that no failure has to   *)
(* end a loop, nor are clients assumed to make further calls.              *)
(***************************************************************************)
Continue == /\ op # NoOp
            /\ \/ FinishCreate \/ LinkNewPage \/ FinishInsert
               \/ TurnPage \/ SkipTombstone \/ LoadRow
               \/ iter.nextPageId \notin Allocated /\ LoadFails
FairSpec == Spec /\ WF_vars(Continue)
-----------------------------------------------------------------------------
(***************************************************************************)
(* A row whose insertion was reported is in its slot with its last value.  *)
(***************************************************************************)
RowsReadable == \A r \in rows : /\ LiveAt(r.rid.page, r.rid.slot)
                                /\ store[r.rid.page].rows[r.rid.slot] = r.value

(***************************************************************************)
(* A row whose insertion was reported is on its table's chain, where a     *)
(* scan finds it, although failed insertions break off pages of the chain. *)
(***************************************************************************)
RowsReachable ==
  open => \A r \in rows : \E t \in Tables : /\ tablesMetadata_[t].name = r.table
                                            /\ r.rid.page \in ChainOf(t)

(***************************************************************************)
(* Between operations tables.meta holds the catalog: what a failed save    *)
(* was to record has been taken back in memory too.                        *)
(***************************************************************************)
CatalogSaved == Idle => metaFile = Serialized

(***************************************************************************)
(* No iterator returns a row twice.                                        *)
(***************************************************************************)
ScanOnce == \A i, j \in DOMAIN seen : seen[i] = seen[j] => i = j

(***************************************************************************)
(* An iterator that has come to its end has returned every row that was    *)
(* there when the scan began and was not deleted, whatever was inserted,   *)
(* updated or deleted and whichever reads failed in between.               *)
(***************************************************************************)
Finished == /\ Idle
            /\ iter.table # Nil
            /\ iter.nextPageId = INVALID_PAGE_ID
            /\ iter.cached = Nil
ScanComplete == Finished => due \subseteq {seen[i] : i \in DOMAIN seen}

(***************************************************************************)
(* Every call comes to its end: the loop of loadNext leaves every chain,   *)
(* whichever pages failed insertions have linked to it, and whichever of   *)
(* its rows are deleted.                                                   *)
(***************************************************************************)
CallsReturn == (op # NoOp) ~> (op = NoOp)

(***************************************************************************)
(* Between calls, a page that is on no chain is one that a failed call has *)
(* left, and no such page is on a chain.                                   *)
(***************************************************************************)
OnChains == UNION {ChainOf(t) : t \in Tables}
PagesOwned == Idle => leaked = Allocated \ OnChains

(***************************************************************************)
(* A row that a scan can come to, and whose insertion was not reported, is *)
(* that of an insertion which failed at its very last step, the save.      *)
(***************************************************************************)
NoPhantomRows ==
  Idle => \A p \in OnChains : \A s \in DOMAIN store[p].rows :
            LiveAt(p, s) => \/ [page |-> p, slot |-> s] \in stray
                            \/ \E r \in rows : r.rid = [page |-> p, slot |-> s]

(***************************************************************************)
(* Wherever the process dies and whichever save fails, a tables.meta that  *)
(* is not cut short is one that load accepts.                              *)
(***************************************************************************)
CatalogLoads == metaFile # Torn => Accepts(metaFile)

(***************************************************************************)
(* It never names a page that the page file has not: a page is in the file *)
(* before the catalog that names it is.                                    *)
(***************************************************************************)
CatalogPagesExist ==
  metaFile # Torn => \A i \in DOMAIN metaFile.tables :
                       /\ durable[metaFile.tables[i].firstPageId] # Absent
                       /\ durable[metaFile.tables[i].lastPageId] # Absent

(***************************************************************************)
(* No page is on the chains of two tables, neither in memory nor in what a *)
(* crash would leave, where links may be missing.                          *)
(***************************************************************************)
ChainsDisjoint ==
  \A f \in {store, durable} : \A t, u \in Tables : t # u =>
    LET pages(x) == Chain(f, tablesMetadata_[x].firstPageId)
                      \cup Chain(f, tablesMetadata_[x].lastPageId)
    IN  pages(t) \cap pages(u) = {}
=============================================================================
