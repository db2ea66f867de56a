# A model of the DanDB storage engine

DanDB (`src/`, C++) is the storage layer of a relational database: tables of
typed rows in pages of 4096 bytes, a buffer pool, and one page file.  It is a
single-threaded library without transactions or a log.  This directory holds
TLA+ modules that model it, configurations that model-check them with TLC,
and proofs for TLAPS.  Paths below are relative to the repository, whose own
sources are in `src/` and `include/dandb/`.

Contents: [the system](#the-system) · [what is hard](#what-is-hard) ·
[modules](#modules) · [runs](#runs) · [finding](#finding) ·
[proofs](#proofs) · [assumptions](#assumptions) ·
[not modelled](#not-modelled) · [plan](#plan) · [how to run](#how-to-run)

## The system

```
 client
   | createTable, insertRow, readRow, updateRow, deleteRow, scan
 TableManager ------------------------------> tables.meta  (rewritten by save)
   | one PagedTable or TableIterator per call
 PagedTable, TableIterator   (a chain of table pages)
   | SlottedPage, Codec on the bytes of a pinned page
 BufferPoolManager           (frames, LRU list)
   | allocatePage, readPage, writePage
 DiskManager -------------------------------> page file
```

| Component | State | Operations | What makes it correct |
|---|---|---|---|
| `DiskManager` (`storage/DiskManager.cpp`) | the file; `pageCount_`, `firstFreePageId_`, `freePageCount_` in memory and in page 0 | open or create, `allocatePage`, `freePage`, `readPage`, `writePage` | a page has at most one holder and none is leaked; the free list is a list; memory and header agree; contents stay |
| `BufferPoolManager`, `LRUReplacer`, `Page` (`buffer/`) | frames with page id, bytes, pin count and dirty flag; `freeSlots_`, `pageSlot_`, `lruList_` | `newPage`, `fetchPage`, `unpinPage`, `savePageToDisk`, `saveAllPagesToDisk`, destructor | no frame is lost or used twice, a pinned page stays, no write is lost between file and frame |
| `SlottedPage` (`record/SlottedPage.cpp`) | the bytes of a page: header, slot entries upwards, rows downwards | `initialize`, `insertRow`, `readRow`, `updateRow`, `deleteRow`, `setNextPageId` | the three areas never overlap; a row reads back until it is deleted |
| `PagedTable` (`record/PagedTable.cpp`) | first and last page id of a chain | insert (in the last page, or in a new one that is then linked), read, update, delete by row id | a row whose insertion was reported is readable and on the chain |
| `TableIterator` (`record/TableIterator.cpp`) | next page, next slot, one cached entry | `hasNext`, `next` | every row that stays is returned once |
| `TableManager` (`catalog/TableManager.cpp`) | `tablesMetadata_`, `nextTableId_`, the name index, `tables.meta` | open (`load`), `createTable`, row operations, `scan`, `save` | the file equals memory between calls; what is loaded names pages that exist; tables share no page |
| `Codec`, `Layout`, `Schema`, `Value`, `Row` (`record/`) | none | size, encode, decode and validate rows | decode undoes encode, with the size that was computed |
| `Status`, `Result`, byte helpers, version, `main.cpp` (`core/`) | none | | |

Components interact by calls only.  A `Page*` from the pool is shared state: a
caller may change its bytes until it unpins the page.  `tables.meta` and the
page file are written independently of one another.  `serializationMap.txt`
describes the file formats, some of which (indexes) no code implements.

## What is hard

There are no threads, locks, messages or timeouts.  What tests hardly reach is:

* **one step of several failing.**  An allocation is two file writes, an
  insertion into a full page is a new page, a link and a save; eviction takes
  a frame, saves it and reads another page.  Each has code that undoes the
  first steps, and that code must restore memory, file and lists together;
* **crashes.**  The process may die between any two writes, with any set of
  dirty pages not yet written;
* **long sequences of legal calls**: pages allocated, released, reopened;
  frames pinned twice, changed by one holder, saved while pinned, evicted;
* **iterators** that stay valid while rows are inserted, deleted and updated
  and reads fail;
* **boundaries**: the last page id is also the end mark of the free list, a
  row may fit without its slot entry, offsets have 16 bits, names have 16-bit
  lengths;
* **the same thing computed twice**: `encodedSize`, `encode` and `decode` each
  walk the layout of a row, `serializedSize`, `save` and `load` that of
  `tables.meta`.

`PROJECT.json` lists these hazards at their lines with the properties that
would catch them, or a note why none does.

## Modules

| Module | Models | Lines |
|---|---|---|
| `PageStore` | what a page file promises: pages are allocated blank, written and released by one holder | abstract |
| `PageFile` | `DiskManager` | detailed, implements `PageStore` |
| `CachedStore` | what the pool promises: a page store in memory, and a durable one that follows page by page | abstract |
| `BufferPool` | `BufferPoolManager`, `LRUReplacer`, `Page`, over a `PageStore` | detailed, implements `CachedStore` |
| `RowSlots` | what a table page promises: numbered rows | abstract |
| `SlottedPage` | `SlottedPage`, down to bytes | detailed, implements `RowSlots` |
| `TableManager` | `TableManager`, `PagedTable`, `TableIterator`, over pages of row slots in a cached store | composes the abstract ones |
| `TableCalls` | the pool calls of `PagedTable`, `TableIterator` and `createTable`, one at a time | composes with `BufferPool`, whose client contract it implements |
| `RowLayout` | `Layout` | functions |
| `RowCodec` | `Codec` with the byte helpers, and rows read with a schema of another table | functions, and a client |
| `TablesMeta` | the bytes of `tables.meta`: `save`, `load`, `initMetaFile`, `Schema::create` | detailed |
| `MC*` | instances for TLC | |
| `SlottedPage_proofs`, `PageFile_proofs`, `BufferPool_proofs`, `TableCalls_proofs`, `TableManager_proofs`, `TableChains_proofs`, `RowCodec_proofs`, `TablesMeta_proofs` | proofs for TLAPS | |

The layers are joined by refinement: each detailed module is shown to
implement the abstract one, and the module above it is written over that
abstract one.  So `TableManager` need not carry frames and pins, nor
`BufferPool` a free list.  `TableCalls` closes the other direction: what
`BufferPool` requires of its clients is what the table code does.

### PageFile

`file` maps each page id to an image that keeps what the manager reads of a
page: its kind, the word at byte 8 (`next`: the successor of a free page, the
page count of the header), and the header's two other fields.  `next` being
one word for two meanings matters when page 0 is taken for a free page or the
reverse.  `pageCount_`, `firstFreePageId_` and `freePageCount_` are the fields
of the object.  An operation of two writes is two actions with `op` between
them: `ReuseFreePage`/`FinishReuse` and `ExtendFile`/`FinishExtend` are
`allocatePage`, `ReleasePage`/`FinishRelease` are `freePage`.  A failing write
leaves the file as it was, or changed although it reported failure, and a
rollback may be lost (`WriteFaults`).  `Crash` ends an operation between its
writes.  `Reopen` is the constructor on an existing file.  `held` is what
clients were given; it exists for the properties, and no guard reads it.

### BufferPool

One action per call and outcome.  `NewPage`, `FetchFromDisk` share `Slot`,
`DiskAcquired` and so on, which are the pieces of `getAvailableSlot`.
`EvictionFails` is a victim that cannot be saved; `RestoreAvailableSlot` is
`newPage` or `fetchPage` undoing an eviction because the file refused.
`Modify` is a client that changes a page it has pinned.  The client's side of
the contract is in `Next`: it changes only what it has pinned, and gives back
the last pin of a page that was changed with `dirty` (`OwesDirty`).
`touched` holds the pages changed and not yet reported.  `Restart` is the
destructor, which saves what it can, or the death of the process.

### SlottedPage

`slots` are the slot entries, `freeStart` and `freeEnd` the header's two
offsets, and `bytes` the page itself, in which a byte of header or entry is
`Meta`: this shows what overwrites what.  Offsets are computed modulo 2^16 as
in the code.  `Initialize` runs on a zeroed page.

### TableManager

`store` and `durable` are the two halves of a `CachedStore`; a page is its
`next` link, whether it was initialized, and its row slots.  An operation is
split where a failure or crash can separate its effects: `CreateTable` and
`FinishCreate` (the save), `InsertInNewPage`, `LinkNewPage` and `FinishInsert`
(the save).  `SaveFails` leaves `tables.meta` as it was, or cut short
(`Torn`), since `save` truncates the file before it writes.  A scan is
`Scan`, then `HasNext` starts `loadNext`, whose loop is `TurnPage`,
`SkipTombstone`, `LoadRow`, `LoadFails`, then `TakeNext`.  Other operations
run between two calls of the iterator, never inside one.  `rows`, `seen` and
`due` record what was promised to clients and what an iterator has returned;
no guard but the choice of a row id reads them.  `leaked` and `stray` record
the pages and rows that failed calls leave: a new page that was never linked,
the pages that a later link breaks off a chain, a row whose call failed at the
save.  They are kept only where no process dies, since a crash loses links
and may bring others back.  `Chain` of a page is the least set that holds the
page and, with a page, the one its link names (`LinkClosed`).

### TableCalls

The module extends `BufferPool` with one running call: the page it holds or
is about to get, what it does with it, whether the page is then dirty, and
what comes next.  `Fetch` and `GetNewPage` succeed or end the call; the work on
a page is an action of its own (`InsertInLast`, `InsertInNew`, `SetNextPageId`
for `insertRow`; `WriteRow` for an update or a deletion; `ReadRow`; `LoadRow` for
an iteration of `loadNext`; `InitializeFirst` for `createTable`); `Unpin` gives
the page back.  Which page a chain leads to, and whether a row fits, is a free
choice, so that the calls of this module include those of `TableManager`.
`KeepsContract` is the specification of `BufferPool`, checked as a property.

### RowLayout and RowCodec

The layout functions are translated one by one.  The loops of `encodedSize`,
`encode` and `decode` are recursive functions of the number of columns done
(`offset`, `put`, `take`), with the offset as state; each computes its own
offsets, as in the code.  A byte is a number, a row of bytes a function from
offsets, so that a write past the end shows as a larger domain.  A number is a
sequence of signed 32-bit words, one for `Byte` and `Int32`, two for `Int64`
and for the bits of a `Double`.  A client inserts a row, reads it with the
schema of any table, and may write back what it read, which is what a row id
that is not tied to a table permits.

### TablesMeta

A file is its size and its fields by offset.  `save` carries the fields written
so far and the offset it has come to (`Put`, `PutName`, `PutColumn`, `PutTable`);
`serializedSize` is computed apart, by its own loops, as in the code.
`load` is a machine that reads the header, then a table, then each column, as
`readTable` and `readColumn` do: a read past the end of the file is the outcome
`overrun`, since the code has no check and the rest is undefined.  A process
may die during `save` or `initMetaFile` and leave a part of the file.  The
initial files include those of the tests of `load` (`tableManagerTests.cpp`).
Because `TablesMeta` shows what becomes of a file, `TableManager` may treat it
as a whole catalog or as `Torn`.

## Runs

| Run | Configuration | Bounds | What it shows |
|---|---|---|---|
| `page_file_releases` | `PageFileFree.cfg` | 5 page ids (header and 4), 2 images, lost writes | free list well formed, no page leaked or given out twice, memory equals header, implements `PageStore` |
| `page_file_faults` | `PageFileFaults.cfg` | 4 page ids, 1 image, all faults, crashes | no counted page is past the end of the file |
| `page_file_crash` | `PageFileCrash.cfg` | 5 page ids, 2 images, all faults, crashes, no release | the engine, which never calls `freePage`, gets a sound page store whatever fails |
| `page_file_torn_list` | `PageFileTornList.cfg` | as above with releases, crashes only | the finding below |
| `buffer_pool` | `BufferPool.cfg` | 3 frames, 4 pages, 2 pins of a page, failing disk | frames partitioned, page table right, no write lost, implements `CachedStore` |
| `slotted_page` | `SlottedPage.cfg` | a page of 45 bytes, rows of 1, 4, 9 bytes of two values | areas apart, rows read back, implements `RowSlots` |
| `table_faults` | `TableFaults.cfg` | tables with pages of 1 and 2 rows, 2 values, 3 pages, failing fetches and saves | reported rows readable and on the chain, `tables.meta` equals memory; pages off the chains and rows not reported are those that failed calls left |
| `table_scan` | `TableScan.cfg` | a table of 2-row pages and one whose rows fit no page, 1 value, 3 pages, both scanned | a scan returns every row that stays, once, and every call ends |
| `table_crash` | `TableCrash.cfg` | a table of 1-row pages and one whose rows fit no page, 4 pages, crashes, all save failures | a whole `tables.meta` loads and names pages that exist; tables share no page |
| `table_calls` | `TableCalls.cfg` | 2 frames, 3 pages, failing disk | one pin at a time, given back on every way out, with the right flag |
| `row_codec` | `RowCodec.cfg` | 10 schemas of 1 to 9 columns, 609 rows | layout computed alike three times, decode undoes encode, a row read by another table fits its slot |
| `tables_meta` | `TablesMeta.cfg` | 2 tables, 11 column lists, names of 0, 1, 4, 65535 and 65536 bytes, 12 initial files, cuts of up to 24 and of 32 bytes from either end | load accepts exactly the sound whole files; fields lie apart; no cut file loads as another catalog |

Why the bounds are enough to be worth running.  A free list of four pages can
be longer than two, so that its head, middle and tail differ.  Three frames
and four pages make the pool evict with one, two or no pinned frames, and two
pins let one page have two holders who disagree about `dirty`.  45 bytes leave
21 for rows and entries: one row of 9 and one of 4 fill it exactly (9+4+4+4),
other sequences leave gaps smaller than an entry.  Three table pages allow a chain of
two links, a page that was broken off a chain by a failed insertion, and two
tables that grow in turns; pages of one and two slots make rows share a page
or not.  The actions that no passing run of `page_file_*` fires alone are
fired by the others together.  Two frames and three pages let the old last
page of a table be evicted by the new page, or stay.  The schemas of
`row_codec` have every type, gaps of 3 and 7 bytes, a null bitmap of exactly one
byte and one of two, and pairs of equal size and column count, which alone can
be taken for one another.  Names of 1 and 4 bytes need and need no padding.
The limit of 255 columns is in `ValidColumns`, but no list of the instance
reaches it.

`SlottedPage.cfg` turns deadlock checking off: a page that is full and whose
rows are deleted allows no further operation.  In all other runs there is
always a next step, if only a restart.

Each property of each passing run has a mutant in `PROJECT.json`: a variant
of one definition, defined next to it with a comment `mutant:`, that a
plausible bug would amount to and under which TLC finds the property violated.

**Liveness.**  `CallsReturn` says that every call ends.  The fairness is
`WF_vars(Continue)`: the next step of a call that runs is eventually taken.
The code justifies it, since the engine has one thread and waits for nothing.
`Continue` leaves out reads that fail though they could succeed, so a loop of
`loadNext` may not rely on a failure to end; and it leaves out new calls, which
clients need not make.  The only loops are those of `loadNext` along a chain
and over deleted rows.

## Finding

`page_file_torn_list`: `allocatePage` zeroes the head of the free list
(`DiskManager.cpp:106`) before it writes the header that drops it from the
list (`:119`).  If the process dies in between, the header still names the
zeroed page as the head of a list.  With two or more free pages, the next
allocation takes that page again and reads 0 as its successor; the one after
it takes page 0, zeroes the header and returns 0, although
`serializationMap.txt:10` has "first allocatable page id" 1 and `Constants.h`
defines `FIRST_ALLOCATABLE_PAGE_ID`.  The engine itself calls `freePage`
nowhere, so only direct users of `DiskManager` meet this.

## Proofs

TLAPS proves, for all values of the constants that satisfy the named
assumptions:

| Theorem | Says | Under |
|---|---|---|
| `LayoutAlwaysOK`, `MetaAlwaysIntact`, `BoundsNeverCorrupt` | the areas of a table page stay apart; `updateRow`'s corruption check never fires | `SlottedPageAssumption` |
| `PageTypeCorrect`, `PageIsRowSlots` | types; `SlottedPage` implements `RowSlots` | `SlottedPageAssumption` |
| `TypeAlwaysOK`, `FileAlwaysCovers` | the page count stays in range and every counted page is in the file | `PageFileAssumption`; all faults and crashes |
| `FreeListAlwaysOK`, `NeverDoubleAllocation`, `PagesAlwaysAccountedFor`, `ReopenAlwaysKeepsMemory` | the free list is the pages marked free; no page is leaked or has two holders; nothing is lost by reopening | and `CleanFaults`: a failing write has no effect, no crash within an operation |
| `PageFileIsPageStore` | `PageFile` implements `PageStore` | and `CleanFaults` |
| `GrowingNeverAllocatesTwice`, `GrowingFileIsPageStore` | no page is given out twice; `PageFile` implements `PageStore` | `PageFileAssumption`, `NothingReleased` (the engine's case); all faults and crashes |
| `PoolTypeCorrect`, `SlotsAlwaysPartitioned`, `PageTableAlwaysConsistent`, `CleanAlwaysMatchesDisk` | no frame is lost or used twice, pages are found in their frames, a frame dropped without a save equals the file | `BufferPoolAssumption`; a failing disk and restarts |
| `PinnedAlwaysStay`, `SaveAllAlwaysDurable` | a pinned page stays where it is; what `saveAllPagesToDisk` reported is in the file | the same |
| `PoolIsCachedStore` | `BufferPool` implements `CachedStore` | the same |
| `NeverTwoPins`, `CallsAlwaysKeepContract` | the table code holds one pin at most, and is a client the pool allows | the same |
| `TablesTypeCorrect`, `RowsAlwaysReadable`, `CatalogAlwaysLoads`, `CatalogPagesAlwaysExist` | reported rows read back; `tables.meta` loads and names pages that exist | `TableManagerAssumption`; all failures and crashes |
| `ScanNeverRepeats` | an iterator returns no row twice | the same |
| `ChainsAlwaysDisjoint` | no page is on the chains of two tables | the same |
| `CatalogAlwaysSaved` | `tables.meta` equals the catalog between calls | and `CleanSaves`: a failing save leaves the old file, no crash |
| `RowsAlwaysReachable`, `ScansAlwaysComplete` | a reported row is on its table's chain; a scan that has ended has returned every row that stayed | `TableManagerAssumption` and `~Crashes`: fetches and saves fail in every way, no process dies |
| `PagesAlwaysOwned`, `PhantomsOnlyFromSaves` | the pages on no chain are exactly those that failed calls have left; an unreported row that a scan comes to is of an insertion that failed at the save | the same |
| `WholeFilesAlwaysLoad`, `FieldsAlwaysApart`, `CutNeverMisleads` | `load` accepts a whole file exactly if its catalog is sound; `save` writes no field over another nor past `serializedSize`; what a cut save left never loads as another catalog | `TablesMetaAssumption` and `OwnFiles`: a start finds no file or one that `save` wrote; any names, columns and number of tables, cuts anywhere |
| `NeverOverruns`, `AlwaysRoundTrip`, `AcceptedRowsAlwaysFit` | `encode` fills exactly the bytes that `encodedSize` asks for; `decode` undoes it; a row that another table's schema accepts can be written back to its slot | `RowCodecAssumption`: schemas of 1 to 255 columns of any type and capacity, any rows |

**SlottedPage.**  The invariant `Inv` is `TypeOK /\ LayoutOK /\ MetaIntact`.
`LayoutOK` is needed for the types: it bounds the offsets so that the 16-bit
arithmetic is exact (`InsertOffsets`).  `LayoutOK` orders the rows, each below
the ones before it, which is what makes two rows disjoint (`ReadUnchanged`)
and gives the refinement: an insertion appends to the numbered rows, a
deletion or an update changes one of them.

**PageFile, all faults.**  `FileCoversPages` is not inductive, because an
undone operation writes old bytes back and a restart believes the header it
finds.  `CoverInv` adds that every header image, in the file or remembered by
the operation in progress, counts pages that are in the file.  Writes never
make a page disappear (`WriteKeeps`), so such an image stays right.

**PageFile, clean faults.**  `FreeListOK` says that some listing of the free
pages follows the links from the tail to the head.  The four changes of the
list push or pop its head: lemmas `Push`, `Pop` and `Aside` (any other write)
do the work once.  `ListInv` adds the header on disk as a function of the
operation in progress, what that operation has remembered (so that undoing a
push pops the same page), and the partition of the pages into held, free,
being allocated and being released.  Without `CleanFaults` it is false, as the
finding shows.

**PageFile without releases.**  The engine never calls `freePage`, and then no
fault or crash can hurt.  `GrowInv` says that the free count is 0 in memory and
on disk, and that what is held is counted by both, so that the page past the
last counted one is nobody's.  Pages may be counted and held by nobody (a header
write that failed after it took effect), which `PageStore` permits.

**BufferPool.**  The two lists of frames matter only by the frames in them:
`Lists(l, S)` says that `l` lists the set `S` without repetition, and a lemma per
list operation says what becomes of `S`.  `CleanMatchesDisk` is not inductive:
`Inv` adds that a cached page is one the file has (`CachedOnDisk`) and that a
page changed and not yet reported is pinned (`TouchedPinned`), so that no
eviction meets it.  This is where the client's contract is used.
`PageTableConsistent` is stated for every frame outside the free list, pinned
or not, and not only for cached pages, since the proof needs both directions.
For `PoolIsCachedStore` memory is `View`, the frame of a cached page and else the
file; an acquired frame, an eviction and an undone eviction leave it alone but
for the page that is created, and the disk changes one page at a time or, in a
restart, all at once.

**TableCalls.**  `CallsInv` is the pool's `Inv` with four facts about the call
that runs: its types, that what it pins is a page, that the pins in
the pool are exactly its own, and that it will report the change it has made.
The last two give the pool's contract, whatever the page and the outcome.

**TableManager.**  `Inv` says of pages that memory and file have the same ones,
because a new page is in the file at once; so no crash takes a page away that a
catalog names.  Of an operation that has changed the catalog it says that the
catalog is good as it is and as it would be if the save were undone, which
covers a save that succeeds, fails or is cut by a crash.  A reported row reads
back because row ids are not given out twice (`RidsUnique`), and because the
row of an insertion in progress is alone on its page (`NewRowOK`).
`CatalogAlwaysSaved` follows from `FileBehind`, which gives the file's content
within an operation.

**Scans.**  A chain cannot lead back: a page is linked right after it was
allocated, ids only grow, and a link that a crash brings back or loses is still
one to a larger id or none (`Forward`, for memory and file).  So the iterator's
position only grows, and what it has returned lies before it (`PositionOK`).

**Chains.**  Because a chain is a least set, an induction along it is an
argument about sets: to show that all its pages have a property, show that the
first page has it and that links preserve it (`ChainLeast`).  The properties
about chains are therefore proved without walking one.  For `ChainsDisjoint`
each page has an owner, the first page of a table, and links do not change
owners, in memory, in the file, and in any catalog that an undone save or a
restart brings back (`OwnersOK`).

`RowsReachable` is not inductive.  A link is replaced when an insertion that
failed after it had linked a new page is followed by another that needs one: the
pages behind the replaced link leave the chain.  `RowsOnChain` adds how far on
the chain reported rows may lie: at most on the table's last page, or, while an
insertion is growing the table, on the last page as it was.  So no reported
row is behind a link that is replaced.  `PagesOwned` needs that what leaves the
chain is counted as leaked in the same step (`LeakedOK`), `NoPhantomRows` that
every row in a page of a chain is reported, or known to be stray, or that of
the insertion in progress (`SlotsOK`).  `ScanComplete` needs that what an
iterator still owes is ahead of it on the chain on which it stands (`DueOK`),
even where a link was replaced behind it.  A crash breaks all four, since it may
lose a link whose insertion was reported: the hazard at `PagedTable.cpp:93`.

**RowCodec.**  The provers cannot instantiate the library's induction
theorems, which take an operator.  `Induction` is proved here for a set of
numbers instead: if a set holds 0 and, with k, also k + 1, there is no least
number it lacks (`Least`, from the well-founded order on the naturals).  With
it, `Layout` shows that the offsets of the columns grow, that cells do not
overlap, and that the last one ends within `EncodedSize`.  `EncodeWrites` says
what the loop of `encode` leaves: the header, each cell at its place, and zeros
elsewhere.  `DecodedFits` needs nothing of `encode`: of any bytes, `decode` makes
a row that the schema describes, or refuses them.  `DecodeUndoesEncode` puts the
two together, with a lemma for each part of the format: the null bitmap is a
sum of eight bits (`Bits`, `NullBitIs`), a word is four bytes of which the
last has the sign (`WordIsRead`), a string ends before its first zero byte or
at its capacity (`PaddedText`).  `CodecInv` then says what `encoded` and `read`
are.

**TablesMeta.**  The difficulty is two loops within each other, written three
times: in `save`, in `serializedSize` and in `load`.  `Induction` is proved for
this module as for `RowCodec`.  `Neat` says of what `save` has written so far
that its fields lie apart and before its offset; each `Put` keeps it
(`PutIs`, `PutNameIs`), so columns, tables and the catalog do
(`ColumnsLieThere`, `TablesLieThere`, `CatalogLies`), and along the way every
offset is the one that `serializedSize` adds up (`TableSizeAgrees`).  Of the files
that can be found, only the length matters: `PartOf(file, c)` says that a file
has exactly the fields of `c` that end within it, so a number or a name read at
its offset is the one written, unless it lies past the end (`ReadAt`,
`ReadName`).  `MetaInv` adds how far `load` has come: the tables it has finished
are those of the catalog that was saved, and acceptable, and its offset is that of
`save` at the same place (`Progress`).  `CutIsNoCatalog` and `SoundLoads` need one
more fact, that each way to end `load` decides about that catalog: open only
if it is sound, refused only if it is not, overrun only if the file is short.
A cut file is thus refused only for a reason that the whole file gives as well.
`OwnFiles` includes catalogs that are not sound; the run
also starts from three files that no `save` has written, which only TLC checks.

Only model-checked: liveness (`CallsReturn`), which the provers do not do, and
the run with a finding.

## Assumptions

* A page write that fails leaves the page old or new for `BufferPool`; for
  `PageFile` the kinds of failure are `FaultKinds`.  A torn write has written
  the leading bytes, with every field the manager reads.  A write that is
  reported to have succeeded is in the file in program order: the model has no
  reordering of writes by the operating system.
* A save of `tables.meta` that reports Ok has been written.  (`save` does not
  check the flush in the stream's destructor.)
* In `TableManager` a row id is used with the table that returned it; what
  follows otherwise is in `RowCodec`.
* `TableCalls` runs one call at a time, as a single-threaded client does; an
  iterator holds no pin between its calls.
* Page ids and table ids stay below 2^31 (TLC's integers); in `TablesMeta` 2^31 - 1
  stands for `INVALID_PAGE_ID`.
* The rows of one table have one size, so a page has a fixed number of slots.
* Client images are not mistaken for free pages by their bytes 4 and 5; table
  pages hold their kind there.
* Ids of new pages are the smallest never allocated, since the engine
  releases no page.

## Not modelled

* What happens after `load` has read past the end of a file that was cut
  short: the model stops at `overrun`.
* `Status` and `Result`: the models keep whether a call failed, not its code.
  (`hasNext` takes the code `NotFound` for the end of the table; nothing else
  that `loadNext` calls returns it but a deleted row.)
* `LRUReplacer`'s own range checks: the pool passes its own slots only.
* The row in an iterator's cached entry, as against its id.
* The flush in the destructor of the stream that `save` writes to.
* Indexes and the other planned formats of `serializationMap.txt`, version,
  `main.cpp`, Catch2, CMake.

## Plan

Done: every component with state or with a layout of its own, the abstract
specifications and refinements, and the proofs above.  What is left:

1. Which rows a crash can make unreachable (`PagedTable.cpp:93`), as a property
   of the runs with crashes: it needs a statement of what the engine, which
   has no log, means to promise.
2. `TableManager` composed with `TablesMeta` and `TableCalls` in one instance;
   least recently used as an action property of eviction.

Liveness stays with TLC.

## How to run

```
tlasany PageFile.tla
tlc -workers 2 -config PageFileFree.cfg MCPageFile.tla
tlapm PageFile_proofs.tla
```

The longest runs take about two minutes, the longest proof, `RowCodec_proofs`,
some six.
