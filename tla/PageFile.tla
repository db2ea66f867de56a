------------------------------- MODULE PageFile -------------------------------
(***************************************************************************)
(* The disk manager (src/storage/DiskManager.cpp): one file of fixed-size  *)
(* pages.  Page 0 is the header; released pages form a linked list through *)
(* the file whose head and length the header records.  Each object keeps a *)
(* copy of the header in memory and writes it back after every change.     *)
(*                                                                         *)
(* An operation is split at its file writes, because the process may die   *)
(* between two of them.  A write may also fail and be reported: WriteFaults*)
(* says how a failing write may leave the file.                            *)
(***************************************************************************)
EXTENDS Integers

CONSTANTS
  InvalidPageId,     \* INVALID_PAGE_ID, also the limit of pageCount_
  Data,              \* the images clients write to the pages they hold
  NoData,            \* the client data of a page that holds none
  Absent,            \* the contents of a page that nobody holds
  ClientsRelease,    \* do the clients call freePage?  (The engine does not.)
  WriteFaults,       \* how a failing write may behave, see FaultKinds
  CrashMidOperation  \* may the process die between two writes?

(***************************************************************************)
(* "lost":     a write reports failure, the file is as it was              *)
(* "torn":     a write reports failure after overwriting the leading bytes *)
(*             of the page, which hold every field the manager reads       *)
(* "rollback": the write that should undo a half-done operation is lost    *)
(***************************************************************************)
FaultKinds == {"lost", "torn", "rollback"}

ASSUME PageFileAssumption == /\ InvalidPageId \in Nat \ {0}
                             /\ NoData \notin Data
                             /\ Absent \notin Data \cup {NoData}
                             /\ ClientsRelease \in BOOLEAN
                             /\ WriteFaults \subseteq FaultKinds
                             /\ CrashMidOperation \in BOOLEAN

PageIds == 0 .. InvalidPageId - 1
HeaderId == 0
Allocatable == 1 .. InvalidPageId - 1

(***************************************************************************)
(* A page image, by what the manager can read of it.  `next' is the word   *)
(* at byte 8: the next free page of a free page, and the page count of the *)
(* header; `first' and `count' are the words at bytes 12 and 16.           *)
(***************************************************************************)
Image == [kind : {"none", "blank", "header", "free", "used"},
          next : 0 .. InvalidPageId,
          first : 0 .. InvalidPageId,
          count : Nat,
          data : Data \cup {NoData}]

Plain(k, n, d) == [kind |-> k, next |-> n, first |-> 0, count |-> 0, data |-> d]
NoPage == Plain("none", 0, NoData)                  \* past the end of the file
BlankPage == Plain("blank", 0, NoData)             \* 4096 zero bytes
FreePage(n) == Plain("free", n, NoData)
UsedPage(d) == Plain("used", InvalidPageId, d)
Header(n, f, c) == [kind |-> "header", next |-> n, first |-> f, count |-> c, data |-> NoData]

VARIABLES
  file,              \* the file, page by page
  pageCount_, firstFreePageId_, freePageCount_,
  open_,             \* has the constructor succeeded?
  op,                \* the operation between its first and its last write
  held               \* the pages clients were given and have not given back

memory == <<pageCount_, firstFreePageId_, freePageCount_>>
vars == <<file, memory, open_, op, held>>

None == [name |-> "none", page |-> 0, before |-> NoPage]
InProgress(n, p) == [name |-> n, page |-> p, before |-> file[p]]
Idle == open_ /\ op = None

(***************************************************************************)
(* The file after a write of image c to page p.                            *)
(***************************************************************************)
Written(f, p, c) == [f EXCEPT ![p] = c]
Failed(f, p, c) == {f : x \in WriteFaults \cap {"lost"}}
                     \cup {Written(f, p, c) : x \in WriteFaults \cap {"torn"}}
NotRolledBack(f) == {f}                        \* mutant: the old bytes are not written
RolledBack(f) == {Written(f, op.page, op.before)}
                   \cup {f : x \in WriteFaults \cap {"rollback"}}

StaleHeader == Header(pageCount_ - 1, firstFreePageId_, freePageCount_) \* mutant: the last page is not counted
MemoryHeader == Header(pageCount_, firstFreePageId_, freePageCount_)

Operation == [name : {"none", "create", "reuse", "extend", "free"},
              page : PageIds, before : Image]

TypeOK == /\ file \in [PageIds -> Image]
          /\ pageCount_ \in 1 .. InvalidPageId
          /\ firstFreePageId_ \in 0 .. InvalidPageId
          /\ freePageCount_ \in Nat
          /\ open_ \in BOOLEAN
          /\ op \in Operation
          /\ held \subseteq PageIds
-----------------------------------------------------------------------------
(***************************************************************************)
(* The constructor on a path where no file exists: it creates an empty     *)
(* file, then writes the header.  On failure it throws.                    *)
(***************************************************************************)
Init == /\ file = [p \in PageIds |-> NoPage]
        /\ pageCount_ = 1
        /\ firstFreePageId_ = InvalidPageId
        /\ freePageCount_ = 0
        /\ open_ = FALSE
        /\ op = [None EXCEPT !.name = "create"]
        /\ held = {}

FinishCreate ==
  /\ op.name = "create"
  /\ \/ file' = Written(file, HeaderId, MemoryHeader) /\ open_' = TRUE
     \/ file' \in Failed(file, HeaderId, MemoryHeader) /\ open_' = FALSE
  /\ op' = None
  /\ UNCHANGED <<memory, held>>

FirstFromCount == file[HeaderId].next          \* mutant: the field of a free page is read
FirstFreeOnDisk == file[HeaderId].first

(***************************************************************************)
(* The constructor on an existing file: memory is what the header says.    *)
(* Without a readable header it throws and there is no manager.            *)
(***************************************************************************)
LoadHeader ==
  /\ op' = None
  /\ open_' = (file[HeaderId].kind = "header")
  /\ IF open_'
       THEN /\ pageCount_' = file[HeaderId].next
            /\ firstFreePageId_' = FirstFreeOnDisk
            /\ freePageCount_' = file[HeaderId].count
       ELSE UNCHANGED memory
  /\ UNCHANGED file

Reopen == op = None /\ LoadHeader /\ UNCHANGED held

(***************************************************************************)
(* The process dies between two writes and the file is opened again.  The  *)
(* client of an interrupted release does not use the page any more.        *)
(***************************************************************************)
Crash == /\ CrashMidOperation
         /\ op.name # "none"
         /\ held' = IF op.name = "free" THEN held \ {op.page} ELSE held
         /\ LoadHeader
-----------------------------------------------------------------------------
(***************************************************************************)
(* allocatePage.  If there are free pages, the head of the list is read    *)
(* and zeroed; otherwise a zero page is written past the last one.  Then   *)
(* the header is written.  A failure restores memory, and where a free     *)
(* page was zeroed its old bytes if the header write is what failed.       *)
(* (A failing read, and the page limit, leave everything as it was.)       *)
(***************************************************************************)
HeadKept == firstFreePageId_                   \* mutant: the head does not move
HeadAfterReuse == file[firstFreePageId_].next

HeadBeforeReuse == op.page

ReuseFreePage ==
  /\ Idle
  /\ freePageCount_ > 0
  /\ firstFreePageId_ \in PageIds
  /\ file[firstFreePageId_].kind # "none"
  /\ \/ /\ file' = Written(file, firstFreePageId_, BlankPage)
        /\ firstFreePageId_' = HeadAfterReuse
        /\ freePageCount_' = freePageCount_ - 1
        /\ op' = InProgress("reuse", firstFreePageId_)
     \/ /\ file' \in Failed(file, firstFreePageId_, BlankPage)
        /\ UNCHANGED <<firstFreePageId_, freePageCount_, op>>
  /\ UNCHANGED <<pageCount_, open_, held>>

FinishReuse ==
  /\ op.name = "reuse"
  /\ \/ /\ file' = Written(file, HeaderId, MemoryHeader)
        /\ held' = held \cup {op.page}
        /\ UNCHANGED memory
     \/ /\ \E f \in Failed(file, HeaderId, MemoryHeader) : file' \in RolledBack(f)
        /\ firstFreePageId_' = HeadBeforeReuse
        /\ freePageCount_' = freePageCount_ + 1
        /\ UNCHANGED <<pageCount_, held>>
  /\ op' = None
  /\ UNCHANGED open_

ExtensionOverwrites == pageCount_ - 1          \* mutant: off by one
ExtensionSkips == pageCount_ + 1               \* mutant: counts before it writes
ExtensionPage == pageCount_

CountUndoneTwice == pageCount_ - 2             \* mutant: both error paths undo
CountBeforeExtend == pageCount_ - 1

ExtendFile ==
  /\ Idle
  /\ freePageCount_ = 0
  /\ pageCount_ # InvalidPageId
  /\ \/ /\ file' = Written(file, ExtensionPage, BlankPage)
        /\ pageCount_' = pageCount_ + 1
        /\ op' = InProgress("extend", ExtensionPage)
     \/ /\ file' \in Failed(file, ExtensionPage, BlankPage)
        /\ UNCHANGED <<pageCount_, op>>
  /\ UNCHANGED <<firstFreePageId_, freePageCount_, open_, held>>

FinishExtend ==
  /\ op.name = "extend"
  /\ \/ /\ file' = Written(file, HeaderId, MemoryHeader)
        /\ held' = held \cup {op.page}
        /\ UNCHANGED pageCount_
     \/ /\ file' \in Failed(file, HeaderId, MemoryHeader)
        /\ pageCount_' = CountBeforeExtend
        /\ UNCHANGED held
  /\ op' = None
  /\ UNCHANGED <<firstFreePageId_, freePageCount_, open_>>
-----------------------------------------------------------------------------
(***************************************************************************)
(* freePage refuses the header, a page past the end, and a page that is    *)
(* already marked free; otherwise it links the page in front of the list   *)
(* and then writes the header.  InvalidPageId bounds the free page count,  *)
(* which has the width of a page id.                                       *)
(***************************************************************************)
Exists(p) == p # HeaderId /\ p < pageCount_ /\ file[p].kind # "none"

HeadStillReleased == op.page                   \* mutant: a failed release keeps the page linked
HeadBeforeRelease == file[op.page].next

ReleasePage(p) ==
  /\ ClientsRelease
  /\ Idle
  /\ Exists(p)
  /\ freePageCount_ < InvalidPageId
  /\ file[p].kind # "free"
  /\ \/ /\ file' = Written(file, p, FreePage(firstFreePageId_))
        /\ firstFreePageId_' = p
        /\ freePageCount_' = freePageCount_ + 1
        /\ op' = InProgress("free", p)
     \/ /\ file' \in Failed(file, p, FreePage(firstFreePageId_))
        /\ UNCHANGED <<firstFreePageId_, freePageCount_, op>>
  /\ UNCHANGED <<pageCount_, open_, held>>

FinishRelease ==
  /\ op.name = "free"
  /\ \/ /\ file' = Written(file, HeaderId, MemoryHeader)
        /\ held' = held \ {op.page}
        /\ UNCHANGED memory
     \/ /\ \E f \in Failed(file, HeaderId, MemoryHeader) : file' \in RolledBack(f)
        /\ firstFreePageId_' = HeadBeforeRelease
        /\ freePageCount_' = freePageCount_ - 1
        /\ UNCHANGED <<pageCount_, held>>
  /\ op' = None
  /\ UNCHANGED open_

(***************************************************************************)
(* writePage refuses the header, a page past the end and a free page.      *)
(***************************************************************************)
WritePage(p, d) ==
  /\ Idle
  /\ Exists(p)
  /\ file[p].kind # "free"
  /\ \/ file' = Written(file, p, UsedPage(d))
     \/ file' \in Failed(file, p, UsedPage(d))
  /\ UNCHANGED <<memory, open_, op, held>>

Next == \/ FinishCreate \/ Reopen \/ Crash
        \/ ReuseFreePage \/ FinishReuse
        \/ ExtendFile \/ FinishExtend
        \/ \E p \in PageIds : ReleasePage(p)
        \/ FinishRelease
        \/ \E p \in PageIds, d \in Data : WritePage(p, d)

Spec == Init /\ [][Next]_vars
-----------------------------------------------------------------------------
FreePages == {p \in PageIds : file[p].kind = "free"}

(***************************************************************************)
(* Every page the manager counts is in the file, whatever fails and        *)
(* wherever the process dies: a page is written before the header that     *)
(* counts it, so no read of a counted page hits the end of the file.       *)
(***************************************************************************)
Covers(n) == \A p \in 0 .. n - 1 : file[p].kind # "none"

FileCoversPages ==
  open_ => /\ Covers(pageCount_)
           /\ file[HeaderId].kind = "header" => Covers(file[HeaderId].next)

(***************************************************************************)
(* s lists the free pages from the tail of the linked list to its head.    *)
(***************************************************************************)
ListsFreePages(s, n) ==
  /\ \A i \in 1 .. n : file[s[i]] = FreePage(IF i = 1 THEN InvalidPageId ELSE s[i - 1])
  /\ \A i, j \in 1 .. n : s[i] = s[j] => i = j
  /\ FreePages = {s[i] : i \in 1 .. n}
  /\ firstFreePageId_ = IF n = 0 THEN InvalidPageId ELSE s[n]

(***************************************************************************)
(* The free list is exactly the pages marked free: it starts at            *)
(* firstFreePageId_, has freePageCount_ members, repeats none and ends.    *)
(***************************************************************************)
FreeListOK == \E s \in [1 .. freePageCount_ -> Allocatable] :
                 ListsFreePages(s, freePageCount_)

(***************************************************************************)
(* The page an allocation is about to return is not the header and is held *)
(* by no one: two clients never get the same page.                         *)
(***************************************************************************)
NoDoubleAllocation ==
  op.name \in {"reuse", "extend"} => op.page # HeaderId /\ op.page \notin held

(***************************************************************************)
(* Between operations every page is either held or on the free list, never *)
(* both: no operation, failed or not, leaks a page.                        *)
(***************************************************************************)
PagesAccountedFor ==
  Idle => /\ held \cap FreePages = {}
          /\ held \cup FreePages = 1 .. pageCount_ - 1

(***************************************************************************)
(* Closing the file between two operations and opening it again changes    *)
(* nothing the manager knows: the header on disk is never behind.          *)
(***************************************************************************)
ReopenKeepsMemory == [][Reopen /\ open_ => UNCHANGED memory /\ open_']_vars

(***************************************************************************)
(* The constant FIRST_ALLOCATABLE_PAGE_ID: no allocation returns page 0.   *)
(***************************************************************************)
FirstAllocatablePageId == op.name \in {"reuse", "extend"} => op.page # HeaderId

(***************************************************************************)
(* The pages as their holders see them; a release that has not been        *)
(* completed may yet be undone.                                            *)
(***************************************************************************)
Seen == [p \in Allocatable |->
           IF p \notin held THEN Absent
           ELSE IF op.name = "free" /\ op.page = p THEN op.before.data
           ELSE file[p].data]

Store == INSTANCE PageStore WITH PageIds <- Allocatable, Contents <- Data,
                                 Blank <- NoData, store <- Seen

(***************************************************************************)
(* The page file is a page store: what a holder wrote stays until it       *)
(* writes again, across allocations and releases of other pages, failed    *)
(* operations and restarts.                                                *)
(***************************************************************************)
IsPageStore == Store!StoreSpec
=============================================================================
