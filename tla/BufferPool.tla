------------------------------ MODULE BufferPool ------------------------------
(***************************************************************************)
(* The buffer pool (src/buffer/BufferPoolManager.cpp, LRUReplacer.cpp,     *)
(* Page.cpp): PoolSize frames that hold pages of the disk manager's file.  *)
(* A page in use is pinned; an unpinned one waits in the LRU list to be    *)
(* evicted.  The file is the PageStore that PageFile implements.           *)
(*                                                                         *)
(* Clients are the record code: they change a page only while they hold a  *)
(* pin, and whoever changed one says so when unpinning.                    *)
(***************************************************************************)
EXTENDS Integers, SequencesExt

CONSTANTS
  PoolSize,         \* poolSize
  PageIds,          \* the ids the disk manager may hand out
  InvalidPage,      \* INVALID_PAGE_ID: an empty frame
  Data, Blank,      \* contents of pages; Blank is what a new page holds
  Absent,           \* what the file has for a page it has not
  MaxPins,          \* bound on the pins of one page
  DiskFaults        \* may disk operations fail?

ASSUME BufferPoolAssumption ==
  /\ PoolSize \in Nat /\ MaxPins \in Nat \ {0}
  /\ InvalidPage \notin PageIds
  /\ Absent \notin Data \cup {Blank}
  /\ DiskFaults \in BOOLEAN

Slots == 0 .. PoolSize - 1
NoSlot == PoolSize
Contents == Data \cup {Blank}

VARIABLES
  disk,             \* the page file, as a PageStore
  pages,            \* pages_: the frames
  freeSlots,        \* freeSlots_: frames never used, taken from the back
  pageSlot,         \* pageSlot_: the frame of each cached page
  lru,              \* lruList_: evictable frames, the victim first
  touched           \* pages changed by a pin holder that has not said so yet

pool == <<pages, freeSlots, pageSlot, lru, touched>>
vars == <<disk, pool>>

Disk == INSTANCE PageStore WITH store <- disk

Frame == [id : PageIds \cup {InvalidPage}, data : Contents,
          pinCount : 0 .. MaxPins, dirty : BOOLEAN]
EmptyFrame == [id |-> InvalidPage, data |-> Blank, pinCount |-> 0, dirty |-> FALSE]
PinnedFrame(p, d) == [id |-> p, data |-> d, pinCount |-> 1, dirty |-> FALSE]

TypeOK == /\ disk \in [PageIds -> Contents \cup {Absent}]
          /\ pages \in [Slots -> Frame]
          /\ freeSlots \in Seq(Slots)
          /\ pageSlot \in [PageIds -> Slots \cup {NoSlot}]
          /\ lru \in Seq(Slots)
          /\ touched \subseteq PageIds

EmptyFrames == [s \in Slots |-> EmptyFrame]
AllFree == [i \in 1 .. PoolSize |-> i - 1]
NothingCached == [p \in PageIds |-> NoSlot]

Init == /\ Disk!StoreInit
        /\ pages = EmptyFrames /\ freeSlots = AllFree /\ pageSlot = NothingCached
        /\ lru = <<>> /\ touched = {}

Cached(p) == pageSlot[p] # NoSlot
FrameOf(p) == pages[pageSlot[p]]
Pinned(s) == pages[s].pinCount > 0
-----------------------------------------------------------------------------
(***************************************************************************)
(* What the client reads, and the file after a write that may have failed. *)
(***************************************************************************)
View == [p \in PageIds |-> IF Cached(p) THEN FrameOf(p).data ELSE disk[p]]

FailedWrite(p, d) == {f \in {disk, [disk EXCEPT ![p] = d]} : DiskFaults}

(***************************************************************************)
(* LRUReplacer: pin takes a slot out, unpin appends it unless it is there, *)
(* the victim is the first.                                                *)
(***************************************************************************)
LruPinFirst(l, s) == IF l = <<>> THEN l ELSE Tail(l)  \* mutant: erases the first
LruPin(l, s) == IF Contains(l, s) THEN RemoveFirst(l, s) ELSE l
LruUnpin(l, s) == IF Contains(l, s) THEN l ELSE Append(l, s)
LruVictim == Head(lru)

(***************************************************************************)
(* getAvailableSlot: a free slot if there is one, or the LRU victim, which *)
(* is saved first if it is dirty and then loses its entry in pageSlot.     *)
(***************************************************************************)
CanAcquire == freeSlots # <<>> \/ lru # <<>>
Evicts == freeSlots = <<>>
Slot == IF Evicts THEN LruVictim ELSE Last(freeSlots)
Victim == pages[Slot].id
SavesVictim == Evicts /\ pages[Slot].dirty

VictimNotSaved == disk                         \* mutant: evicts without saving
DiskAcquired == IF SavesVictim THEN [disk EXCEPT ![Victim] = pages[Slot].data] ELSE disk
VictimStillMapped == pageSlot                  \* mutant: the entry stays
PageSlotAcquired == IF Evicts THEN [pageSlot EXCEPT ![Victim] = NoSlot] ELSE pageSlot
FreeSlotsAcquired == IF Evicts THEN freeSlots ELSE Front(freeSlots)
LruAcquired == IF Evicts THEN Tail(lru) ELSE lru

Load(p, d) == /\ pages' = [pages EXCEPT ![Slot] = PinnedFrame(p, d)]
              /\ pageSlot' = [PageSlotAcquired EXCEPT ![p] = Slot]
              /\ freeSlots' = FreeSlotsAcquired
              /\ lru' = LruAcquired
              /\ UNCHANGED touched

(***************************************************************************)
(* newPage                                                                 *)
(***************************************************************************)
NewPage(p) == /\ CanAcquire
              /\ disk[p] = Absent
              /\ disk' = [DiskAcquired EXCEPT ![p] = Blank]
              /\ Load(p, Blank)

(***************************************************************************)
(* fetchPage of a cached and of an uncached page                           *)
(***************************************************************************)
FetchCached(p) ==
  /\ Cached(p)
  /\ FrameOf(p).pinCount < MaxPins
  /\ pages' = [pages EXCEPT ![pageSlot[p]].pinCount = @ + 1]
  /\ lru' = LruPin(lru, pageSlot[p])
  /\ UNCHANGED <<disk, freeSlots, pageSlot, touched>>

FetchFromDisk(p) == /\ ~Cached(p)
                    /\ CanAcquire
                    /\ disk[p] # Absent
                    /\ disk' = DiskAcquired
                    /\ Load(p, DiskAcquired[p])

(***************************************************************************)
(* getAvailableSlot fails if the dirty victim cannot be saved; the victim  *)
(* goes to the back of the list.                                           *)
(***************************************************************************)
EvictionFails ==
  /\ CanAcquire
  /\ SavesVictim
  /\ disk' \in FailedWrite(Victim, pages[Slot].data)
  /\ lru' = LruUnpin(LruAcquired, Slot)
  /\ UNCHANGED <<pages, freeSlots, pageSlot, touched>>

(***************************************************************************)
(* newPage and fetchPage when the disk manager refuses: a free slot goes   *)
(* back where it was; a victim, saved meanwhile, is mapped again and goes  *)
(* to the back of the list.  The file refuses to allocate when it is full, *)
(* to read a page it has not, and anything when it fails.                  *)
(***************************************************************************)
NewPageRefused == DiskFaults \/ \A p \in PageIds : disk[p] # Absent
FetchRefused == \E p \in PageIds : ~Cached(p) /\ (DiskFaults \/ disk[p] = Absent)

MappingLost == PageSlotAcquired                \* mutant: the victim is not mapped again
PageSlotRestored == [PageSlotAcquired EXCEPT ![Victim] = Slot]

RestoreAvailableSlot ==
  /\ Evicts /\ CanAcquire
  /\ NewPageRefused \/ FetchRefused
  /\ disk' = DiskAcquired
  /\ pages' = [pages EXCEPT ![Slot].dirty = FALSE]
  /\ pageSlot' = PageSlotRestored
  /\ lru' = LruUnpin(LruAcquired, Slot)
  /\ UNCHANGED <<freeSlots, touched>>
-----------------------------------------------------------------------------
(***************************************************************************)
(* A client changes a page it has pinned.                                  *)
(***************************************************************************)
Modify(p, d) == /\ Cached(p)
                /\ Pinned(pageSlot[p])
                /\ pages' = [pages EXCEPT ![pageSlot[p]].data = d]
                /\ touched' = touched \cup {p}
                /\ UNCHANGED <<disk, freeSlots, pageSlot, lru>>

(***************************************************************************)
(* unpinPage, and what its callers owe it: the last pin of a changed page  *)
(* is given back with dirty.                                               *)
(***************************************************************************)
LastDirtyWins(f, dirty) ==                     \* mutant: a clean unpin clears the flag
  [f EXCEPT !.pinCount = @ - 1, !.dirty = dirty]
UnpinnedTwice(f, dirty) ==                     \* mutant: both layers count the pin down
  [f EXCEPT !.pinCount = @ - 2, !.dirty = @ \/ dirty]
Unpinned(f, dirty) == [f EXCEPT !.pinCount = @ - 1, !.dirty = @ \/ dirty]

LruAnyUnpin(f, s) == LruUnpin(lru, s)          \* mutant: evictable while pinned
LruAfterUnpin(f, s) == IF f.pinCount = 0 THEN LruUnpin(lru, s) ELSE lru

UnpinPage(p, dirty) ==
  /\ Cached(p)
  /\ Pinned(pageSlot[p])
  /\ pages' = [pages EXCEPT ![pageSlot[p]] = Unpinned(@, dirty)]
  /\ lru' = LruAfterUnpin(pages'[pageSlot[p]], pageSlot[p])
  /\ touched' = IF dirty THEN touched \ {p} ELSE touched
  /\ UNCHANGED <<disk, freeSlots, pageSlot>>

OwesDirty(p) == p \in touched /\ FrameOf(p).pinCount = 1

(***************************************************************************)
(* savePageToDisk writes a cached page that is flagged dirty and clears    *)
(* the flag.                                                               *)
(***************************************************************************)
Saves(p) == Cached(p) /\ FrameOf(p).dirty

SavePageToDisk(p) ==
  /\ Saves(p)
  /\ \/ /\ disk' = [disk EXCEPT ![p] = FrameOf(p).data]
        /\ pages' = [pages EXCEPT ![pageSlot[p]].dirty = FALSE]
     \/ disk' \in FailedWrite(p, FrameOf(p).data) /\ UNCHANGED pages
  /\ UNCHANGED <<freeSlots, pageSlot, lru, touched>>

(***************************************************************************)
(* saveAllPagesToDisk goes through the frames in order and stops at the    *)
(* first failure: Saved(n) is the file when the first n frames are done.   *)
(***************************************************************************)
SavedPagesButLast(n) ==                        \* mutant: off by one
  {p \in PageIds : Saves(p) /\ \E s \in Slots : s + 1 < n /\ pages[s].id = p}
SavedPages(n) ==
  {p \in PageIds : Saves(p) /\ \E s \in Slots : s < n /\ pages[s].id = p}

Saved(n) == [p \in PageIds |-> IF p \in SavedPages(n) THEN FrameOf(p).data ELSE disk[p]]
StoppedAt(n) == {f \in {Saved(n), Saved(n + 1)} :
                   DiskFaults /\ \E p \in PageIds : Saves(p) /\ pages[n].id = p}

SaveAll == /\ disk' = Saved(PoolSize)
           /\ pages' = [s \in Slots |-> [pages[s] EXCEPT !.dirty = FALSE]]
           /\ UNCHANGED <<freeSlots, pageSlot, lru, touched>>

SaveAllStops == \E n \in Slots :
  /\ disk' \in StoppedAt(n)
  /\ pages' = [s \in Slots |-> IF s < n THEN [pages[s] EXCEPT !.dirty = FALSE] ELSE pages[s]]
  /\ UNCHANGED <<freeSlots, pageSlot, lru, touched>>

(***************************************************************************)
(* The pool is destroyed, saving what it can and ignoring the status, or   *)
(* the process dies; then a new pool is made over the same file.           *)
(***************************************************************************)
Restart ==
  /\ \/ disk' = Saved(PoolSize)
     \/ \E n \in Slots : disk' \in StoppedAt(n)
     \/ disk' = disk
  /\ pages' = EmptyFrames /\ freeSlots' = AllFree /\ pageSlot' = NothingCached
  /\ lru' = <<>> /\ touched' = {}

Next == \/ \E p \in PageIds : \/ NewPage(p) \/ FetchCached(p) \/ FetchFromDisk(p)
                              \/ \E d \in Data : Modify(p, d)
                              \/ \E dirty \in BOOLEAN : (OwesDirty(p) => dirty) /\ UnpinPage(p, dirty)
                              \/ SavePageToDisk(p)
        \/ EvictionFails \/ RestoreAvailableSlot
        \/ SaveAll \/ SaveAllStops
        \/ Restart

Spec == Init /\ [][Next]_vars
-----------------------------------------------------------------------------
PinnedSlots == {s \in Slots : Pinned(s)}

(***************************************************************************)
(* Every frame is free, pinned or evictable and never two of them, and the *)
(* free list and the LRU list repeat no frame: a frame is neither lost nor *)
(* given to two pages, whichever calls failed.                             *)
(***************************************************************************)
SlotsPartitioned ==
  /\ ToSet(freeSlots) \cup ToSet(lru) \cup PinnedSlots = Slots
  /\ ToSet(freeSlots) \cap ToSet(lru) = {}
  /\ (ToSet(freeSlots) \cup ToSet(lru)) \cap PinnedSlots = {}
  /\ IsInjective(freeSlots) /\ IsInjective(lru)

(***************************************************************************)
(* pageSlot maps exactly the pages that the used frames hold, so no page   *)
(* is ever cached twice and no lookup finds another page's frame.          *)
(***************************************************************************)
PageTableConsistent ==
  /\ \A p \in PageIds : Cached(p) => FrameOf(p).id = p
  /\ \A s \in ToSet(freeSlots) : pages[s].id = InvalidPage
  /\ \A s \in Slots \ ToSet(freeSlots) : /\ pages[s].id \in PageIds
                                         /\ pageSlot[pages[s].id] = s

(***************************************************************************)
(* A frame may skip the save on eviction only because it equals the file:  *)
(* if it is not dirty, and no pin holder has changed it, they agree.       *)
(***************************************************************************)
CleanMatchesDisk ==
  \A p \in PageIds : Cached(p) /\ ~FrameOf(p).dirty /\ p \notin touched
                       => FrameOf(p).data = disk[p]

(***************************************************************************)
(* The Page* that newPage and fetchPage return stays good while the page   *)
(* is pinned: no other call moves the page or changes what it holds.       *)
(***************************************************************************)
PinnedStay ==
  [][\A s \in Slots : Pinned(s) /\ pages' # EmptyFrames
        => /\ pages'[s].id = pages[s].id
           /\ \/ pages'[s].data = pages[s].data
              \/ \E d \in Data : Modify(pages[s].id, d)]_vars

(***************************************************************************)
(* When saveAllPagesToDisk returns Ok the file holds what clients see,     *)
(* save for pages that a pin holder has changed and not yet reported.      *)
(***************************************************************************)
SaveAllIsDurable ==
  [][SaveAll => \A p \in PageIds \ touched : disk'[p] = View[p]]_vars

Cache == INSTANCE CachedStore WITH store <- View, durable <- disk

(***************************************************************************)
(* Through evictions, reloads, failures and restarts the pool shows its    *)
(* clients one store, and a restart shows what was last made durable.      *)
(***************************************************************************)
IsCachedStore == Cache!CachedSpec
=============================================================================
