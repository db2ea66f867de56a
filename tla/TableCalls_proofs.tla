-------------------------- MODULE TableCalls_proofs --------------------------
(***************************************************************************)
(* Proofs that the calls of the table code keep the contract of the pool,  *)
(* for every pool size and every number of pages.                          *)
(***************************************************************************)
EXTENDS TableCalls, BufferPool_proofs

(***************************************************************************)
(* Holds says which pin a call has at each step, and Reports that a        *)
(* changed page is the one that the call is about to unpin with dirty.     *)
(***************************************************************************)
AnyPage == PageIds \cup {InvalidPage}
Jobs == {"none", "insert", "grow", "link", "read", "write", "scan", "create"}
Steps == {"done", "fetch", "new", "work", "unpin"}
Calls == [job : Jobs, at : Steps, then : Jobs, page : AnyPage, last : AnyPage, dirty : BOOLEAN]

CallTyped == call \in Calls

Holding == call.at \in {"work", "unpin"}

Targets == /\ call.at \in {"fetch", "work", "unpin"} => call.page \in PageIds
           /\ call.at = "done" \/ call.job = "create" \/ call.last \in PageIds
           /\ call.job = "create" => call.then = "none"
           /\ call.at = "done" => call = NoCall

Holds == /\ ~Holding => PinnedSlots = {}
         /\ Holding => /\ Cached(call.page)
                       /\ PinnedSlots = {pageSlot[call.page]}
                       /\ FrameOf(call.page).pinCount = 1

Reports == touched = IF call.at = "unpin" /\ call.dirty THEN {call.page} ELSE {}

CallsInv == Inv /\ CallTyped /\ Targets /\ Holds /\ Reports

(***************************************************************************)
(* What the pool's calls do to the pins.                                   *)
(***************************************************************************)
LEMMA LoadPins ==
  ASSUME Inv, CanAcquire, NEW p \in PageIds, NEW d, Load(p, d), PinnedSlots = {}
  PROVE  /\ Cached(p)' /\ PinnedSlots' = {pageSlot[p]}' /\ FrameOf(p)'.pinCount = 1
         /\ touched' = touched
<1>1. Slot \in Slots /\ pages \in [Slots -> Frame]
  BY Acquired DEF Inv, TypeOK
<1>2. pageSlot'[p] = Slot
  BY AcquiredTable DEF Load
<1>3. pages'[Slot].pinCount = 1 /\ \A s \in Slots \ {Slot} : pages'[s] = pages[s]
  BY <1>1 DEF Load, PinnedFrame
<1>4. PinnedSlots' = {Slot}
  BY <1>1, <1>3 DEF PinnedSlots, Pinned
<1> QED BY <1>1, <1>2, <1>3, <1>4, NoSlotIsNone DEF Cached, FrameOf, Load

LEMMA FetchCachedPins ==
  ASSUME Inv, NEW p \in PageIds, FetchCached(p), PinnedSlots = {}
  PROVE  /\ Cached(p)' /\ PinnedSlots' = {pageSlot[p]}' /\ FrameOf(p)'.pinCount = 1
         /\ touched' = touched
<1>1. /\ pageSlot[p] \in Slots /\ pages \in [Slots -> Frame] /\ pages[pageSlot[p]] \in Frame
      /\ Cached(p) /\ pageSlot' = pageSlot /\ touched' = touched
  BY FrameOfPage DEF FetchCached, Inv, TypeOK
<1>2. pages[pageSlot[p]].pinCount = 0
  BY <1>1 DEF PinnedSlots, Pinned, Frame
<1>3. /\ pages'[pageSlot[p]].pinCount = 1
      /\ \A s \in Slots \ {pageSlot[p]} : pages'[s] = pages[s]
  BY <1>1, <1>2 DEF FetchCached, Frame
<1>4. PinnedSlots' = {pageSlot[p]}
  BY <1>1, <1>3 DEF PinnedSlots, Pinned
<1> QED BY <1>1, <1>3, <1>4 DEF Cached, FrameOf

LEMMA AcquireFailsPins ==
  ASSUME Inv, NEW refused, AcquireFails(refused)
  PROVE  PinnedSlots' = PinnedSlots /\ touched' = touched
<1>1. CASE UNCHANGED vars
  BY <1>1 DEF vars, pool, PinnedSlots, Pinned
<1>2. CASE EvictionFails
  BY <1>2 DEF EvictionFails, PinnedSlots, Pinned
<1>3. CASE RestoreAvailableSlot
  <2>1. \A s \in Slots : pages'[s].pinCount = pages[s].pinCount
    BY <1>3, Acquired DEF RestoreAvailableSlot, Inv, TypeOK, Frame
  <2> QED BY <1>3, <2>1 DEF RestoreAvailableSlot, PinnedSlots, Pinned
<1> QED BY <1>1, <1>2, <1>3 DEF AcquireFails

LEMMA ModifyPins ==
  ASSUME Inv, NEW p \in PageIds, NEW d \in Data, Modify(p, d)
  PROVE  /\ PinnedSlots' = PinnedSlots /\ pageSlot' = pageSlot /\ touched' = touched \cup {p}
         /\ FrameOf(p)'.pinCount = FrameOf(p).pinCount
<1>1. pageSlot[p] \in Slots /\ pages \in [Slots -> Frame] /\ pageSlot' = pageSlot
  BY FrameOfPage DEF Modify, Inv, TypeOK
<1>2. \A s \in Slots : pages'[s].pinCount = pages[s].pinCount
  BY <1>1 DEF Modify, Frame
<1> QED BY <1>1, <1>2 DEF PinnedSlots, Pinned, FrameOf, Modify

LEMMA UnpinPins ==
  ASSUME Inv, NEW p \in PageIds, NEW dirty, UnpinPage(p, dirty),
         PinnedSlots = {pageSlot[p]}, FrameOf(p).pinCount = 1
  PROVE  PinnedSlots' = {} /\ touched' = IF dirty THEN touched \ {p} ELSE touched
<1>1. pageSlot[p] \in Slots /\ pages \in [Slots -> Frame] /\ pages[pageSlot[p]].pinCount = 1
  BY FrameOfPage DEF UnpinPage, Inv, TypeOK, FrameOf
<1>2. Unpinned(pages[pageSlot[p]], dirty).pinCount = 0
  BY <1>1 DEF Unpinned, Frame
<1>3. pages' = [pages EXCEPT ![pageSlot[p]] = Unpinned(pages[pageSlot[p]], dirty)]
  BY <1>1 DEF UnpinPage
<1>4. \A s \in Slots : ~(pages'[s].pinCount > 0)
  BY <1>1, <1>2, <1>3 DEF PinnedSlots, Pinned
<1> QED BY <1>4 DEF PinnedSlots, Pinned, UnpinPage
-----------------------------------------------------------------------------
(***************************************************************************)
(* A step of a call is a step that the pool allows, or leaves it alone.    *)
(***************************************************************************)
LEMMA CallsKeepContract ==
  ASSUME CallsInv, CallsNext
  PROVE  [Next]_vars
<1> USE DEF CallsInv
<1>1. ASSUME NEW refused, AcquireFails(refused) PROVE [Next]_vars
  BY <1>1 DEF AcquireFails, Next
<1>2. CASE Fetch
  <2>1. call.page \in PageIds
    BY <1>2 DEF Fetch, Targets
  <2> QED BY <1>1, <1>2, <2>1 DEF Fetch, Next
<1>3. CASE GetNewPage
  BY <1>1, <1>3 DEF GetNewPage, Next
<1>4. ASSUME NEW t, call.at = "work", Changes(t) PROVE Next
  BY <1>4 DEF Changes, Targets, Next
<1>5. ASSUME NEW t, Leaves(t) PROVE UNCHANGED vars
  BY <1>5 DEF Leaves
<1>6. CASE InsertInLast \/ InsertInNew \/ SetNextPageId \/ InitializeFirst
             \/ WriteRow \/ ReadRow \/ LoadRow
  BY <1>4, <1>5, <1>6
     DEF Works, InsertInLast, InsertInNew, SetNextPageId, InitializeFirst, WriteRow, ReadRow, LoadRow
<1>7. CASE Unpin
  <2>1. call.page \in PageIds /\ call.dirty \in BOOLEAN /\ UnpinPage(call.page, call.dirty)
    BY <1>7 DEF Unpin, GivesBack, Targets, CallTyped, Calls
  <2>2. OwesDirty(call.page) => call.dirty
    BY DEF Reports, OwesDirty
  <2> QED BY <2>1, <2>2 DEF Next
<1>8. CASE RestartAll
  BY <1>8 DEF RestartAll, Next
<1>9. CASE createTable \/ \E p \in PageIds : insertRow(p) \/ readRow(p) \/ updateOrDeleteRow(p) \/ loadNext(p)
  BY <1>9 DEF createTable, insertRow, readRow, updateOrDeleteRow, loadNext, Begin
<1> QED BY <1>2, <1>3, <1>6, <1>7, <1>8, <1>9 DEF CallsNext
-----------------------------------------------------------------------------
(***************************************************************************)
(* The rest of the invariant, action by action.                            *)
(***************************************************************************)
Rest == CallTyped /\ Targets /\ Holds /\ Reports

LEMMA NoCallFacts ==
  NoCall.at = "done" /\ NoCall.then = "none" /\ NoCall \in Calls
BY DEF NoCall, AnyPage, Calls, Jobs, Steps

(* A call is over, or none begins, and nothing is pinned. *)
LEMMA EndsRest ==
  ASSUME call' = NoCall, PinnedSlots' = {}, touched' = {}
  PROVE  Rest'
<1>1. CallTyped'
  BY NoCallFacts DEF CallTyped
<1>2. Targets'
  BY NoCallFacts DEF Targets
<1>3. Holds' /\ Reports'
  BY NoCallFacts DEF Holds, Holding, Reports
<1> QED BY <1>1, <1>2, <1>3 DEF Rest

LEMMA BeginRest ==
  ASSUME CallsInv, NEW p \in PageIds, NEW job \in Jobs, job # "create", Begin(job, p)
  PROVE  Rest'
<1>1. /\ call'.at = "fetch" /\ call'.page = p /\ call'.last = p /\ call'.job = job
      /\ call' \in Calls
  BY DEF Begin, NoCall, AnyPage, Calls, Jobs, Steps
<1>2. PinnedSlots' = {} /\ touched' = {}
  BY NoCallFacts DEF Begin, CallsInv, Holds, Holding, Reports, vars, pool, PinnedSlots, Pinned
<1> QED BY <1>1, <1>2 DEF Rest, CallTyped, Targets, Holds, Holding, Reports

LEMMA CreateRest == ASSUME CallsInv, createTable PROVE Rest'
<1>1. /\ call'.at = "new" /\ call'.job = "create" /\ call'.then = "none"
      /\ call' \in Calls
  BY DEF createTable, NoCall, AnyPage, Calls, Jobs, Steps
<1>2. PinnedSlots' = {} /\ touched' = {}
  BY NoCallFacts DEF createTable, CallsInv, Holds, Holding, Reports, vars, pool, PinnedSlots, Pinned
<1> QED BY <1>1, <1>2 DEF Rest, CallTyped, Targets, Holds, Holding, Reports

LEMMA FetchRest == ASSUME CallsInv, Fetch PROVE Rest'
<1>1. call.page \in PageIds /\ PinnedSlots = {} /\ touched = {}
  BY DEF CallsInv, Fetch, Targets, Holds, Holding, Reports
<1>2. CASE /\ FetchCached(call.page) \/ FetchFromDisk(call.page)
           /\ call' = [call EXCEPT !.at = "work"]
  <2>1. /\ call'.at = "work" /\ call'.page = call.page /\ CallTyped'
        /\ call'.last = call.last /\ call'.job = call.job /\ call'.then = call.then
    BY <1>2 DEF CallsInv, CallTyped, Calls, AnyPage, Jobs, Steps
  <2>2. /\ Cached(call.page)' /\ PinnedSlots' = {pageSlot[call.page]}'
        /\ FrameOf(call.page)'.pinCount = 1 /\ touched' = {}
    <3>1. PICK p \in PageIds : p = call.page
      BY <1>1
    <3>2. Cached(p)' /\ PinnedSlots' = {pageSlot'[p]} /\ FrameOf(p)'.pinCount = 1 /\ touched' = {}
      BY <1>1, <1>2, <3>1, FetchCachedPins, LoadPins DEF CallsInv, FetchFromDisk
    <3>3. call'.page = p
      BY <2>1, <3>1
    <3> QED BY <3>2, <3>3 DEF Cached, FrameOf
  <2>3. Targets'
    BY <1>1, <2>1 DEF CallsInv, Targets, Fetch
  <2> QED BY <2>1, <2>2, <2>3 DEF Rest, Holds, Holding, Reports
<1>3. CASE AcquireFails(DiskFaults \/ disk[call.page] = Absent) /\ call' = NoCall
  BY <1>1, <1>3, AcquireFailsPins, EndsRest DEF CallsInv
<1> QED BY <1>2, <1>3 DEF Fetch

LEMMA GetNewPageRest == ASSUME CallsInv, GetNewPage PROVE Rest'
<1>1. PinnedSlots = {} /\ touched = {}
  BY DEF CallsInv, GetNewPage, Holds, Holding, Reports
<1>2. ASSUME NEW p \in PageIds, NewPage(p), call' = [call EXCEPT !.at = "work", !.page = p]
      PROVE  Rest'
  <2>1. /\ call'.at = "work" /\ call'.page = p /\ CallTyped'
        /\ call'.last = call.last /\ call'.job = call.job /\ call'.then = call.then
    BY <1>2 DEF CallsInv, CallTyped, Calls, AnyPage, Jobs, Steps
  <2>2. Cached(p)' /\ PinnedSlots' = {pageSlot'[p]} /\ FrameOf(p)'.pinCount = 1 /\ touched' = {}
    BY <1>1, <1>2, LoadPins DEF CallsInv, NewPage
  <2>3. Targets'
    BY <2>1 DEF CallsInv, Targets, GetNewPage
  <2>4. Holds' /\ Reports'
    BY <2>1, <2>2 DEF Holds, Holding, Reports, Cached, FrameOf
  <2> QED BY <2>1, <2>3, <2>4 DEF Rest
<1>3. CASE AcquireFails(NewPageRefused) /\ call' = NoCall
  BY <1>1, <1>3, AcquireFailsPins, EndsRest DEF CallsInv
<1> QED BY <1>2, <1>3 DEF GetNewPage

(* What the work may be followed by. *)
Follows(t) == t \in Jobs /\ (call.job = "create" => t = "none")

LEMMA ChangesRest ==
  ASSUME CallsInv, call.at = "work", NEW t, Follows(t), Changes(t)
  PROVE  Rest'
<1>1. PICK d \in Data : Modify(call.page, d)
  BY DEF Changes
<1>2. PICK p \in PageIds : p = call.page
  BY DEF CallsInv, Targets
<1>3. /\ call'.at = "unpin" /\ call'.page = p /\ call'.dirty = TRUE /\ CallTyped'
      /\ call'.last = call.last /\ call'.job = call.job /\ call'.then = t
  BY <1>2 DEF CallsInv, CallTyped, Calls, AnyPage, Jobs, Steps, Changes, Follows
<1>4. /\ PinnedSlots' = PinnedSlots /\ pageSlot' = pageSlot /\ touched' = touched \cup {p}
      /\ FrameOf(p)'.pinCount = FrameOf(p).pinCount
  BY <1>1, <1>2, ModifyPins DEF CallsInv
<1>5. /\ Cached(p) /\ PinnedSlots = {pageSlot[p]} /\ FrameOf(p).pinCount = 1 /\ touched = {}
  BY <1>2 DEF CallsInv, Holds, Holding, Reports
<1>6. Targets'
  BY <1>3 DEF CallsInv, Targets, Follows
<1>7. Holds' /\ Reports'
  BY <1>3, <1>4, <1>5 DEF Holds, Holding, Reports, Cached, FrameOf
<1> QED BY <1>3, <1>6, <1>7 DEF Rest

LEMMA LeavesRest ==
  ASSUME CallsInv, call.at = "work", NEW t, Follows(t), Leaves(t)
  PROVE  Rest'
<1>1. /\ call'.at = "unpin" /\ call'.page = call.page /\ call'.dirty = FALSE /\ CallTyped'
      /\ call'.last = call.last /\ call'.job = call.job /\ call'.then = t
  BY DEF CallsInv, CallTyped, Calls, AnyPage, Jobs, Steps, Leaves, Follows
<1>2. Targets'
  BY <1>1 DEF CallsInv, Targets, Follows
<1>3. UNCHANGED vars
  BY DEF Leaves
<1>4. Holds'
  BY <1>1, <1>3 DEF CallsInv, Holds, Holding, vars, pool, PinnedSlots, Pinned, Cached, FrameOf
<1>5. Reports'
  BY <1>1, <1>3 DEF CallsInv, Reports, vars, pool
<1> QED BY <1>1, <1>2, <1>4, <1>5 DEF Rest

LEMMA UnpinRest == ASSUME CallsInv, Unpin PROVE Rest'
<1>1. /\ call.page \in PageIds /\ call.at = "unpin" /\ UnpinPage(call.page, call.dirty)
      /\ PinnedSlots = {pageSlot[call.page]} /\ FrameOf(call.page).pinCount = 1
      /\ touched = IF call.dirty THEN {call.page} ELSE {}
  BY DEF CallsInv, Unpin, GivesBack, Targets, Holds, Holding, Reports
<1>2. PinnedSlots' = {} /\ touched' = {}
  BY <1>1, UnpinPins DEF CallsInv
<1>3. CASE call' = NoCall
  BY <1>2, <1>3, EndsRest
<1>4. CASE call.then = "grow" /\ call' = [call EXCEPT !.job = "grow", !.at = "new"]
  <2>1. /\ call'.at = "new" /\ call'.job = "grow" /\ CallTyped' /\ call'.last = call.last
    BY <1>4 DEF CallsInv, CallTyped, Calls, AnyPage, Jobs, Steps
  <2>2. Targets'
    BY <1>1, <1>4, <2>1 DEF CallsInv, Targets
  <2> QED BY <1>2, <2>1, <2>2 DEF Rest, Holds, Holding, Reports
<1>5. ASSUME NEW job \in {"link", call.job}, NEW p \in PageIds, call.then # "none",
             \/ job = "link" /\ call' = [call EXCEPT !.job = "link", !.at = "fetch", !.page = p]
             \/ job = call.job /\ call' = [call EXCEPT !.at = "fetch", !.page = p]
      PROVE  Rest'
  <2>1. /\ call'.at = "fetch" /\ call'.job = job /\ CallTyped' /\ call'.last = call.last
        /\ call'.page = p
    BY <1>5 DEF CallsInv, CallTyped, Calls, AnyPage, Jobs, Steps
  <2>2. Targets'
    BY <1>1, <1>5, <2>1 DEF CallsInv, Targets
  <2> QED BY <1>2, <2>1, <2>2 DEF Rest, Holds, Holding, Reports
<1>6. call.then = "link" => call.last \in PageIds
  BY <1>1 DEF CallsInv, Targets
<1> QED BY <1>3, <1>4, <1>5, <1>6 DEF Unpin

LEMMA RestartRest == ASSUME RestartAll PROVE Rest'
<1>1. PinnedSlots' = {}
  BY DEF RestartAll, Restart, PinnedSlots, Pinned, EmptyFrames, EmptyFrame
<1> QED BY <1>1, EndsRest DEF RestartAll, Restart

LEMMA CallsInvNext == CallsInv /\ [CallsNext]_callVars => CallsInv'
<1> SUFFICES ASSUME CallsInv, [CallsNext]_callVars PROVE CallsInv'
  OBVIOUS
<1>1. CASE CallsNext
  <2>1. Inv'
    BY <1>1, CallsKeepContract, InvNext DEF CallsInv
  <2>2. ASSUME Rest' PROVE CallsInv'
    BY <2>1, <2>2 DEF CallsInv, Rest
  <2>3. CASE Fetch \/ GetNewPage \/ Unpin \/ RestartAll \/ createTable
    BY <2>2, <2>3, FetchRest, GetNewPageRest, UnpinRest, RestartRest, CreateRest
  <2>4. CASE InsertInLast \/ InsertInNew \/ SetNextPageId \/ InitializeFirst
               \/ WriteRow \/ ReadRow \/ LoadRow
    BY <2>2, <2>4, ChangesRest, LeavesRest
       DEF Works, InsertInLast, InsertInNew, SetNextPageId, InitializeFirst, WriteRow, ReadRow,
           LoadRow, Follows, Jobs
  <2>5. CASE \E p \in PageIds : insertRow(p) \/ readRow(p) \/ updateOrDeleteRow(p) \/ loadNext(p)
    BY <2>2, <2>5, BeginRest DEF insertRow, readRow, updateOrDeleteRow, loadNext, Jobs
  <2> QED BY <1>1, <2>3, <2>4, <2>5 DEF CallsNext
<1>2. CASE UNCHANGED callVars
  <2>1. Inv'
    BY <1>2, InvNext DEF callVars, CallsInv
  <2>2. CallTyped' /\ Targets' /\ Reports'
    BY <1>2 DEF callVars, vars, pool, CallsInv, CallTyped, Targets, Reports
  <2>3. Holds'
    BY <1>2 DEF callVars, vars, pool, CallsInv, Holds, Holding, PinnedSlots, Pinned, Cached, FrameOf
  <2> QED BY <2>1, <2>2, <2>3 DEF CallsInv
<1> QED BY <1>1, <1>2

LEMMA CallsInvInit == CallsInit => CallsInv
<1> SUFFICES ASSUME CallsInit PROVE CallsInv
  OBVIOUS
<1>1. Inv
  BY InitInv DEF CallsInit
<1>2. PinnedSlots = {} /\ touched = {} /\ call = NoCall
  BY DEF CallsInit, Init, PinnedSlots, Pinned, EmptyFrames, EmptyFrame
<1> QED BY <1>1, <1>2, NoCallFacts DEF CallsInv, CallTyped, Targets, Holds, Holding, Reports

LEMMA CallsInvAlways == CallsSpec => []CallsInv
BY CallsInvInit, CallsInvNext, PTL DEF CallsSpec

(***************************************************************************)
(* insertRow, readRow, updateRow, deleteRow, the iterator and createTable  *)
(* hold at most one pin, and none when they are done, on every way out.    *)
(***************************************************************************)
THEOREM NeverTwoPins == CallsSpec => []OnePinAtMost
<1>1. CallsInv => OnePinAtMost
  BY DEF CallsInv, OnePinAtMost, Holds, Holding
<1> QED BY <1>1, CallsInvAlways, PTL

(***************************************************************************)
(* The table code drives the buffer pool only in ways that it allows, so   *)
(* all that is proved of the pool holds under the table code.              *)
(***************************************************************************)
THEOREM CallsAlwaysKeepContract == CallsSpec => KeepsContract
<1>1. CallsInit => Init
  BY DEF CallsInit
<1>2. CallsInv /\ [CallsNext]_callVars => [Next]_vars
  BY CallsKeepContract DEF callVars
<1> QED BY <1>1, <1>2, CallsInvAlways, PTL DEF CallsSpec, KeepsContract, Spec
=============================================================================
