------------------------------ MODULE TableCalls ------------------------------
(***************************************************************************)
(* The calls of the table code, one buffer pool call at a time             *)
(* (src/record/PagedTable.cpp, TableIterator.cpp, createTable): which page *)
(* each of them pins, changes and unpins, with which dirty flag, on its    *)
(* way to success and on every way out.  BufferPool lets its clients do    *)
(* anything that their contract allows; this module is what they do.       *)
(*                                                                         *)
(* Which page a chain leads to is any page, and whether a row fits or is   *)
(* there is a choice: TableManager knows them.                             *)
(***************************************************************************)
EXTENDS BufferPool

VARIABLE call       \* the running call: what it does, at which step, with which pages

callVars == <<vars, call>>

(***************************************************************************)
(* job is what the call does with the page it holds or is about to get,    *)
(* then what it does when it has unpinned that page, last the last page of *)
(* the table that a row is inserted in.                                    *)
(***************************************************************************)
NoCall == [job |-> "none", at |-> "done", then |-> "none",
           page |-> InvalidPage, last |-> InvalidPage, dirty |-> FALSE]

CallsInit == Init /\ call = NoCall

Begin(job, p) ==
  /\ call = NoCall
  /\ call' = [NoCall EXCEPT !.job = job, !.at = "fetch", !.page = p, !.last = p]
  /\ UNCHANGED vars

insertRow(p) == Begin("insert", p)
readRow(p) == Begin("read", p)
updateOrDeleteRow(p) == Begin("write", p)
loadNext(p) == Begin("scan", p)
createTable == /\ call = NoCall
               /\ call' = [NoCall EXCEPT !.job = "create", !.at = "new"]
               /\ UNCHANGED vars
-----------------------------------------------------------------------------
(***************************************************************************)
(* fetchPage and newPage.  A failure ends the call.                        *)
(***************************************************************************)
AcquireFails(refused) ==
  \/ ~CanAcquire /\ UNCHANGED vars
  \/ EvictionFails
  \/ refused /\ CanAcquire /\ ~Evicts /\ UNCHANGED vars
  \/ refused /\ RestoreAvailableSlot

Fetch == /\ call.at = "fetch"
         /\ \/ /\ FetchCached(call.page) \/ FetchFromDisk(call.page)
               /\ call' = [call EXCEPT !.at = "work"]
            \/ /\ ~Cached(call.page)
               /\ AcquireFails(DiskFaults \/ disk[call.page] = Absent)
               /\ call' = NoCall

GetNewPage == /\ call.at = "new"
              /\ \/ \E p \in PageIds : NewPage(p) /\ call' = [call EXCEPT !.at = "work", !.page = p]
                 \/ AcquireFails(NewPageRefused) /\ call' = NoCall
-----------------------------------------------------------------------------
(***************************************************************************)
(* The work on a pinned page.  It changes the page, or leaves it alone:    *)
(* there is no room for the row, or no row, or a row of another size.      *)
(***************************************************************************)
ChangesNewOnly(then) ==                        \* mutant: dirty only where a page is new
  /\ \E d \in Data : Modify(call.page, d)
  /\ call' = [call EXCEPT !.at = "unpin", !.then = then, !.dirty = call.page # call.last]
Changes(then) ==
  /\ \E d \in Data : Modify(call.page, d)
  /\ call' = [call EXCEPT !.at = "unpin", !.then = then, !.dirty = TRUE]

Leaves(then) ==
  /\ call' = [call EXCEPT !.at = "unpin", !.then = then, !.dirty = FALSE]
  /\ UNCHANGED vars

Works(job) == call.at = "work" /\ call.job = job

InsertInLast == Works("insert") /\ (Changes("none") \/ Leaves("grow"))

(* initialize writes the new page even if the row is too large for it. *)
InsertInNew == Works("grow") /\ (Changes("link") \/ Changes("none"))

SetNextPageId == Works("link") /\ Changes("none")
InitializeFirst == Works("create") /\ Changes("none")
WriteRow == Works("write") /\ (Changes("none") \/ Leaves("none"))
ReadRow == Works("read") /\ Leaves("none")

(* loadNext goes on if the slots of the page are used up or a row is deleted. *)
LoadRow == Works("scan") /\ (Leaves("none") \/ Leaves("scan"))

KeptUnlessDirty ==                             \* mutant: a way out that does not unpin
  IF call.dirty THEN UnpinPage(call.page, TRUE) ELSE UNCHANGED vars
GivesBack == UnpinPage(call.page, call.dirty)

Unpin == /\ call.at = "unpin"
         /\ GivesBack
         /\ \/ call.then = "none" /\ call' = NoCall
            \/ call.then = "grow" /\ call' = [call EXCEPT !.job = "grow", !.at = "new"]
            \/ call.then = "link" /\ call' = [call EXCEPT !.job = "link", !.at = "fetch",
                                                         !.page = call.last]
            \/ /\ call.then = "scan"
               /\ \E p \in PageIds : call' = [call EXCEPT !.at = "fetch", !.page = p]

(* Between two calls the pool may be destroyed; the process may die at any time. *)
RestartAll == /\ Restart
              /\ call = NoCall \/ disk' = disk
              /\ call' = NoCall

CallsNext ==
  \/ \E p \in PageIds : insertRow(p) \/ readRow(p) \/ updateOrDeleteRow(p) \/ loadNext(p)
  \/ createTable
  \/ Fetch \/ GetNewPage
  \/ InsertInLast \/ InsertInNew \/ SetNextPageId \/ InitializeFirst
  \/ WriteRow \/ ReadRow \/ LoadRow
  \/ Unpin
  \/ RestartAll

CallsSpec == CallsInit /\ [][CallsNext]_callVars
-----------------------------------------------------------------------------
(***************************************************************************)
(* A call holds one pin while it works on a page and none otherwise, on    *)
(* every way out: no call leaks a frame, and a pool of one frame is enough *)
(* for all of them.                                                        *)
(***************************************************************************)
OnePinAtMost ==
  /\ call.at \notin {"work", "unpin"} => PinnedSlots = {}
  /\ call.at \in {"work", "unpin"} => /\ PinnedSlots = {pageSlot[call.page]}
                                     /\ FrameOf(call.page).pinCount = 1

(***************************************************************************)
(* The table code is a client that BufferPool allows: it touches only what *)
(* it has pinned, and reports each change when it gives up the last pin,   *)
(* so that the pool never drops it.                                        *)
(***************************************************************************)
KeepsContract == Spec
=============================================================================
