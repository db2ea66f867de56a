-------------------------- MODULE BufferPool_proofs --------------------------
(***************************************************************************)
(* Proofs about pools of every size over any set of pages.  The two lists  *)
(* matter only by the frames in them: the first lemmas say what the list   *)
(* operations do to these sets, and that no frame is repeated.             *)
(***************************************************************************)
EXTENDS BufferPool, TLAPS, SequenceTheorems

(***************************************************************************)
(* A list of frames that repeats none, and the frames in it.               *)
(***************************************************************************)
Lists(l, S) == l \in Seq(Slots) /\ IsInjective(l) /\ ToSet(l) = S

LEMMA ListEmpty == Lists(<<>>, {})
BY DEF Lists, IsInjective, ToSet

LEMMA ListIsEmpty ==
  ASSUME NEW l, NEW S, Lists(l, S)
  PROVE  (l = <<>>) <=> (S = {})
BY DEF Lists, ToSet

LEMMA ListAppend ==
  ASSUME NEW l, NEW S, Lists(l, S), NEW s \in Slots, s \notin S
  PROVE  Lists(Append(l, s), S \cup {s})
<1> DEFINE m == Append(l, s)
<1>1. /\ m \in Seq(Slots) /\ DOMAIN m = 1 .. Len(l) + 1 /\ Len(l) \in Nat /\ DOMAIN l = 1 .. Len(l)
      /\ \A i \in 1 .. Len(l) : m[i] = l[i]
      /\ m[Len(l) + 1] = s
  BY DEF Lists
<1>2. \A i \in 1 .. Len(l) : l[i] \in S
  BY <1>1 DEF Lists, ToSet
<1> HIDE DEF m
<1>3. ToSet(m) = S \cup {s}
  <2>1. \A x \in S : \E i \in 1 .. Len(l) : l[i] = x
    BY <1>1 DEF Lists, ToSet
  <2> QED BY <1>1, <1>2, <2>1 DEF ToSet
<1>4. IsInjective(m)
  BY <1>1, <1>2 DEF IsInjective, Lists
<1> QED BY <1>1, <1>3, <1>4 DEF Lists, m

(***************************************************************************)
(* A list whose k-th frame is taken out.                                   *)
(***************************************************************************)
LEMMA ListWithout ==
  ASSUME NEW l, NEW S, Lists(l, S), NEW k \in 1 .. Len(l), NEW m \in Seq(Slots),
         Len(m) = Len(l) - 1,
         \A i \in 1 .. Len(m) : m[i] = IF i < k THEN l[i] ELSE l[i + 1]
  PROVE  Lists(m, S \ {l[k]}) /\ l[k] \in S
<1>1. /\ Len(l) \in Nat /\ Len(m) \in Nat
      /\ DOMAIN l = 1 .. Len(l) /\ DOMAIN m = 1 .. Len(m)
  BY DEF Lists
<1>2. \A i, j \in 1 .. Len(l) : l[i] = l[j] => i = j
  BY <1>1 DEF Lists, IsInjective
<1>3. S = {l[i] : i \in 1 .. Len(l)}
  BY <1>1 DEF Lists, ToSet
<1>4. IsInjective(m)
  BY <1>1, <1>2 DEF IsInjective
<1>5. ASSUME NEW i \in 1 .. Len(m) PROVE m[i] \in S \ {l[k]}
  BY <1>1, <1>2, <1>3
<1>6. ASSUME NEW x \in S \ {l[k]} PROVE \E i \in 1 .. Len(m) : m[i] = x
  <2>1. PICK j \in 1 .. Len(l) : l[j] = x
    BY <1>3
  <2>2. CASE j < k
    BY <1>1, <2>1, <2>2
  <2>3. CASE j > k
    <3>1. j - 1 \in 1 .. Len(m) /\ m[j - 1] = l[j - 1 + 1] /\ j - 1 + 1 = j
      BY <1>1, <2>3
    <3> QED BY <2>1, <3>1
  <2> QED BY <1>1, <2>1, <2>2, <2>3
<1>7. ToSet(m) = S \ {l[k]}
  <2>1. ToSet(m) = {m[i] : i \in 1 .. Len(m)}
    BY <1>1 DEF ToSet
  <2>2. \A x : x \in {m[i] : i \in 1 .. Len(m)} <=> x \in S \ {l[k]}
    BY <1>5, <1>6, Zenon
  <2> QED BY <2>1, <2>2, Zenon
<1> QED BY <1>3, <1>4, <1>7 DEF Lists

LEMMA ListTail ==
  ASSUME NEW l, NEW S, Lists(l, S), l # <<>>
  PROVE  Head(l) \in S /\ Lists(Tail(l), S \ {Head(l)})
<1>1. /\ l \in Seq(Slots) /\ 1 \in 1 .. Len(l) /\ Head(l) = l[1]
      /\ Tail(l) \in Seq(Slots) /\ Len(Tail(l)) = Len(l) - 1
      /\ \A i \in 1 .. Len(Tail(l)) : Tail(l)[i] = l[i + 1]
  BY DEF Lists
<1>2. \A i \in 1 .. Len(Tail(l)) : Tail(l)[i] = IF i < 1 THEN l[i] ELSE l[i + 1]
  BY <1>1
<1>3. Lists(Tail(l), S \ {l[1]}) /\ l[1] \in S
  BY <1>1, <1>2, ListWithout
<1> QED BY <1>1, <1>3

LEMMA ListFront ==
  ASSUME NEW l, NEW S, Lists(l, S), l # <<>>
  PROVE  Last(l) \in S /\ Lists(Front(l), S \ {Last(l)})
<1> DEFINE n == Len(l)
<1>1. l \in Seq(Slots) /\ n \in Nat /\ n \in 1 .. n
  BY DEF Lists
<1>2. /\ Front(l) \in Seq(Slots) /\ Len(Front(l)) = n - 1
      /\ \A i \in 1 .. Len(Front(l)) : Front(l)[i] = l[i] /\ i < n
  <2>1. 1 \in Int /\ n - 1 \in Int /\ \A i \in 1 .. n - 1 : l[i] \in Slots
    BY <1>1
  <2>2. /\ SubSeq(l, 1, n - 1) \in Seq(Slots)
        /\ Len(SubSeq(l, 1, n - 1)) = IF 1 <= n - 1 THEN n - 1 - 1 + 1 ELSE 0
        /\ \A i \in 1 .. n - 1 - 1 + 1 : SubSeq(l, 1, n - 1)[i] = l[1 + i - 1]
    BY <2>1, SubSeqProperties
  <2>3. Front(l) = SubSeq(l, 1, n - 1)
    BY DEF Front
  <2> HIDE DEF n
  <2>4. (IF 1 <= n - 1 THEN n - 1 - 1 + 1 ELSE 0) = n - 1 /\ n - 1 - 1 + 1 = n - 1
    BY <1>1
  <2>5. \A i \in 1 .. n - 1 : 1 + i - 1 = i /\ i < n
    BY <1>1
  <2> QED BY <2>2, <2>3, <2>4, <2>5
<1>3. \A i \in 1 .. Len(Front(l)) : Front(l)[i] = IF i < n THEN l[i] ELSE l[i + 1]
  BY <1>2
<1>4. Lists(Front(l), S \ {l[n]}) /\ l[n] \in S
  BY <1>1, <1>2, <1>3, ListWithout
<1> QED BY <1>4 DEF Last

LEMMA ListAllFree == Lists(AllFree, Slots)
<1>1. PoolSize \in Nat BY BufferPoolAssumption
<1>2. AllFree \in Seq(Slots) /\ DOMAIN AllFree = 1 .. PoolSize
      /\ \A i \in 1 .. PoolSize : AllFree[i] = i - 1
  BY <1>1 DEF AllFree, Slots
<1>3. IsInjective(AllFree)
  BY <1>1, <1>2 DEF IsInjective
<1>4. \A s \in Slots : s + 1 \in 1 .. PoolSize /\ AllFree[s + 1] = s
  BY <1>1, <1>2 DEF Slots
<1>5. ToSet(AllFree) = Slots
  <2>1. \A i \in 1 .. PoolSize : AllFree[i] \in Slots
    BY <1>1, <1>2 DEF Slots
  <2>2. \A s : s \in {AllFree[i] : i \in 1 .. PoolSize} <=> s \in Slots
    BY <2>1, <1>4, Zenon
  <2> QED BY <1>2, <2>2, Zenon DEF ToSet
<1> QED BY <1>2, <1>3, <1>5 DEF Lists

(***************************************************************************)
(* The operations of LRUReplacer.                                          *)
(***************************************************************************)
LEMMA ListUnpin ==
  ASSUME NEW l, NEW S, Lists(l, S), NEW s \in Slots
  PROVE  Lists(LruUnpin(l, s), S \cup {s})
<1>1. Contains(l, s) <=> s \in S
  BY DEF Lists, Contains, ToSet
<1>2. s \in S => S \cup {s} = S
  OBVIOUS
<1> QED BY <1>1, <1>2, ListAppend DEF LruUnpin

LEMMA ListPin ==
  ASSUME NEW l, NEW S, Lists(l, S), NEW s \in Slots
  PROVE  Lists(LruPin(l, s), S \ {s})
<1>1. Contains(l, s) <=> s \in S
  BY DEF Lists, Contains, ToSet
<1>2. CASE s \notin S
  <2>1. S \ {s} = S
    BY <1>2
  <2> QED BY <1>1, <1>2, <2>1 DEF LruPin
<1>3. CASE s \in S
  <2> DEFINE I == {i \in 1 .. Len(l) : l[i] = s}
             k == Min(I)
  <2>1. \E i \in 1 .. Len(l) : l[i] = s
    BY <1>1, <1>3 DEF Contains
  <2>2. Len(l) \in Nat
    BY DEF Lists
  <2>3. \E i \in I : \A j \in I : i <= j
    BY <2>1, <2>2 DEF Lists, IsInjective
  <2>4. k \in I
    BY <2>3 DEF Min
  <2>5. SelectInSeq(l, LAMBDA v : v = s) = k
    BY <2>1 DEF SelectInSeq
  <2>6. RemoveFirst(l, s) = RemoveAt(l, k)
    BY <2>1, <2>5 DEF RemoveFirst
  <2> HIDE DEF k
  <2> DEFINE m == RemoveAt(l, k)
             n == Len(l)
  <2>7. k \in 1 .. n /\ l[k] = s /\ n \in Nat /\ l \in Seq(Slots)
    BY <2>2, <2>4 DEF Lists
  <2>8. /\ SubSeq(l, 1, k - 1) \in Seq(Slots) /\ Len(SubSeq(l, 1, k - 1)) = k - 1
        /\ \A i \in 1 .. k - 1 : SubSeq(l, 1, k - 1)[i] = l[i]
    BY <2>7
  <2>9. /\ SubSeq(l, k + 1, n) \in Seq(Slots) /\ Len(SubSeq(l, k + 1, n)) = n - k
        /\ \A i \in 1 .. n - k : SubSeq(l, k + 1, n)[i] = l[k + i]
    BY <2>7
  <2>10. m \in Seq(Slots) /\ Len(m) = n - 1
         /\ \A i \in 1 .. n - 1 : m[i] = IF i < k THEN l[i] ELSE l[i + 1]
    <3> DEFINE a == SubSeq(l, 1, k - 1)
               b == SubSeq(l, k + 1, n)
    <3>1. m = a \o b
      BY DEF RemoveAt
    <3>2. a \in Seq(Slots) /\ Len(a) = k - 1 /\ \A i \in 1 .. k - 1 : a[i] = l[i]
      BY <2>8
    <3>3. b \in Seq(Slots) /\ Len(b) = n - k /\ \A i \in 1 .. n - k : b[i] = l[k + i]
      BY <2>9
    <3> HIDE DEF a, b, n, m
    <3>4. /\ m \in Seq(Slots) /\ Len(m) = Len(a) + Len(b)
          /\ \A i \in 1 .. Len(a) : m[i] = a[i]
          /\ \A i \in 1 .. Len(b) : m[Len(a) + i] = b[i]
      <4>1. /\ a \o b \in Seq(Slots) /\ Len(a \o b) = Len(a) + Len(b)
            /\ \A i \in 1 .. Len(a) + Len(b) : (a \o b)[i] = IF i <= Len(a) THEN a[i] ELSE b[i - Len(a)]
        BY <3>2, <3>3, ConcatProperties
      <4>2. Len(a) \in Nat /\ Len(b) \in Nat
        BY <3>2, <3>3
      <4>3. \A i \in 1 .. Len(b) : Len(a) + i \in 1 .. Len(a) + Len(b) /\ ~(Len(a) + i <= Len(a)) /\ Len(a) + i - Len(a) = i
        BY <4>2
      <4>4. \A i \in 1 .. Len(a) : i \in 1 .. Len(a) + Len(b) /\ i <= Len(a)
        BY <4>2
      <4> QED BY <3>1, <4>1, <4>3, <4>4
    <3>5. Len(m) = n - 1
      BY <2>7, <3>2, <3>3, <3>4
    <3>6. ASSUME NEW i \in 1 .. n - 1, i < k PROVE m[i] = l[i]
      BY <2>7, <3>2, <3>4, <3>6
    <3>7. ASSUME NEW i \in 1 .. n - 1, ~(i < k) PROVE m[i] = l[i + 1]
      <4>1. /\ i - (k - 1) \in 1 .. n - k
            /\ k - 1 + (i - (k - 1)) = i /\ k + (i - (k - 1)) = i + 1
        BY <2>7, <3>7
      <4>2. m[k - 1 + (i - (k - 1))] = b[i - (k - 1)]
        BY <3>2, <3>3, <3>4, <4>1
      <4> QED BY <3>3, <4>1, <4>2
    <3> QED BY <3>4, <3>5, <3>6, <3>7
  <2>11. Lists(m, S \ {l[k]})
    BY <2>7, <2>10, ListWithout
  <2> QED BY <1>1, <1>3, <2>6, <2>7, <2>11 DEF LruPin
<1> QED BY <1>2, <1>3
-----------------------------------------------------------------------------
(***************************************************************************)
(* The inductive invariant.  The four invariants are not inductive: a      *)
(* fetch is right only if every cached page is in the file, and giving     *)
(* back a pin only if no page waits to be reported without a pin.          *)
(***************************************************************************)
CachedOnDisk == \A p \in PageIds : Cached(p) => disk[p] # Absent
TouchedPinned == \A p \in touched : Cached(p) /\ Pinned(pageSlot[p])

Inv == /\ TypeOK /\ SlotsPartitioned /\ PageTableConsistent
       /\ CleanMatchesDisk /\ CachedOnDisk /\ TouchedPinned

LEMMA NoSlotIsNone == NoSlot \notin Slots
BY BufferPoolAssumption DEF NoSlot, Slots

LEMMA TheLists ==
  ASSUME Inv
  PROVE  Lists(freeSlots, ToSet(freeSlots)) /\ Lists(lru, ToSet(lru))
BY DEF Inv, TypeOK, SlotsPartitioned, Lists

(***************************************************************************)
(* Two cached pages have two frames, and each frame its page.              *)
(***************************************************************************)
LEMMA FrameOfPage ==
  ASSUME Inv, NEW p \in PageIds, Cached(p)
  PROVE  /\ pageSlot[p] \in Slots /\ pages[pageSlot[p]] \in Frame
         /\ pages[pageSlot[p]].id = p
         /\ pageSlot[p] \notin ToSet(freeSlots)
<1>1. pageSlot[p] \in Slots
  BY DEF Inv, TypeOK, Cached
<1>2. pages[pageSlot[p]].id = p /\ pages[pageSlot[p]] \in Frame
  BY <1>1 DEF Inv, TypeOK, PageTableConsistent, FrameOf
<1>3. p # InvalidPage
  BY BufferPoolAssumption
<1> QED BY <1>1, <1>2, <1>3 DEF Inv, PageTableConsistent

(***************************************************************************)
(* What getAvailableSlot leaves: the slot is in neither list, no page maps *)
(* to it, and the file holds what a dirty victim held.                     *)
(***************************************************************************)
LEMMA Acquired ==
  ASSUME Inv, CanAcquire
  PROVE  /\ Slot \in Slots /\ ~Pinned(Slot)
         /\ Slot \in ToSet(freeSlots) \cup ToSet(lru)
         /\ Evicts => Slot \in ToSet(lru) /\ Victim \in PageIds /\ pageSlot[Victim] = Slot
         /\ Lists(FreeSlotsAcquired, ToSet(freeSlots) \ {Slot})
         /\ Lists(LruAcquired, ToSet(lru) \ {Slot})
<1>1. CASE Evicts
  <2>1. lru # <<>>
    BY <1>1 DEF Evicts, CanAcquire
  <2>2. Slot \in ToSet(lru) /\ Lists(LruAcquired, ToSet(lru) \ {Slot})
    BY <1>1, <2>1, TheLists, ListTail DEF Slot, LruVictim, LruAcquired
  <2>3. Slot \in Slots /\ Slot \notin ToSet(freeSlots) /\ ~Pinned(Slot)
    BY <2>2 DEF Inv, SlotsPartitioned, PinnedSlots
  <2>4. Victim \in PageIds /\ pageSlot[Victim] = Slot
    BY <2>3 DEF Inv, PageTableConsistent, Victim
  <2>5. ToSet(freeSlots) \ {Slot} = ToSet(freeSlots)
    BY <2>3
  <2>6. Lists(FreeSlotsAcquired, ToSet(freeSlots) \ {Slot})
    BY <1>1, <2>5, TheLists DEF FreeSlotsAcquired
  <2> QED BY <2>2, <2>3, <2>4, <2>6
<1>2. CASE ~Evicts
  <2>1. freeSlots # <<>>
    BY <1>2 DEF Evicts
  <2>2. Slot \in ToSet(freeSlots) /\ Lists(FreeSlotsAcquired, ToSet(freeSlots) \ {Slot})
    BY <1>2, <2>1, TheLists, ListFront DEF Slot, FreeSlotsAcquired
  <2>3. Slot \in Slots /\ Slot \notin ToSet(lru) /\ ~Pinned(Slot)
    BY <2>2 DEF Inv, SlotsPartitioned, PinnedSlots
  <2>4. ToSet(lru) \ {Slot} = ToSet(lru)
    BY <2>3
  <2>5. Lists(LruAcquired, ToSet(lru) \ {Slot})
    BY <1>2, <2>4, TheLists DEF LruAcquired
  <2> QED BY <1>2, <2>2, <2>3, <2>5
<1> QED BY <1>1, <1>2

LEMMA OnlyVictimMapped ==
  ASSUME Inv, CanAcquire, NEW p \in PageIds, pageSlot[p] = Slot
  PROVE  Evicts /\ Victim = p
<1>1. Cached(p)
  BY Acquired, NoSlotIsNone DEF Cached
<1>2. Slot \notin ToSet(freeSlots) /\ pages[Slot].id = p
  BY <1>1, FrameOfPage
<1>3. ~Evicts => Slot \in ToSet(freeSlots)
  BY TheLists, ListFront DEF Slot, Evicts
<1> QED BY <1>2, <1>3 DEF Victim

LEMMA AcquiredTable ==
  ASSUME Inv, CanAcquire
  PROVE  /\ PageSlotAcquired \in [PageIds -> Slots \cup {NoSlot}]
         /\ \A p \in PageIds : PageSlotAcquired[p] =
                                 IF pageSlot[p] = Slot THEN NoSlot ELSE pageSlot[p]
<1>1. \A p \in PageIds : pageSlot[p] = Slot => Evicts /\ Victim = p
  BY OnlyVictimMapped
<1>2. pageSlot \in [PageIds -> Slots \cup {NoSlot}]
  BY DEF Inv, TypeOK
<1> QED BY <1>1, <1>2, Acquired DEF PageSlotAcquired

LEMMA AcquiredDisk ==
  ASSUME Inv, CanAcquire
  PROVE  /\ DiskAcquired \in [PageIds -> Contents \cup {Absent}]
         /\ \A p \in PageIds : DiskAcquired[p] =
                                 IF pageSlot[p] = Slot /\ pages[Slot].dirty
                                 THEN pages[Slot].data ELSE disk[p]
<1>1. \A p \in PageIds : pageSlot[p] = Slot => Evicts /\ Victim = p
  BY OnlyVictimMapped
<1>2. disk \in [PageIds -> Contents \cup {Absent}] /\ pages[Slot].data \in Contents
  BY Acquired DEF Inv, TypeOK, Frame
<1> QED BY <1>1, <1>2, Acquired DEF DiskAcquired, SavesVictim
-----------------------------------------------------------------------------
(***************************************************************************)
(* A page is loaded into the acquired slot.                                *)
(***************************************************************************)
LEMMA LoadInv ==
  ASSUME Inv, CanAcquire, NEW p \in PageIds, ~Cached(p), NEW d \in Contents, Load(p, d),
         disk' = [DiskAcquired EXCEPT ![p] = d]
  PROVE  Inv'
<1> USE DEF Load
<1>1. /\ Slot \in Slots /\ ~Pinned(Slot)
      /\ Slot \in ToSet(freeSlots) \cup ToSet(lru)
      /\ Lists(freeSlots', ToSet(freeSlots) \ {Slot})
      /\ Lists(lru', ToSet(lru) \ {Slot})
  BY Acquired
<1>2. /\ pageSlot' \in [PageIds -> Slots \cup {NoSlot}]
      /\ pageSlot'[p] = Slot
      /\ \A q \in PageIds \ {p} :
           pageSlot'[q] = IF pageSlot[q] = Slot THEN NoSlot ELSE pageSlot[q]
  BY <1>1, AcquiredTable
<1>3. /\ disk' \in [PageIds -> Contents \cup {Absent}]
      /\ disk'[p] = d
      /\ \A q \in PageIds \ {p} : pageSlot[q] # Slot => disk'[q] = disk[q]
  BY AcquiredDisk
<1>4. PinnedFrame(p, d) \in Frame /\ PinnedFrame(p, d).id = p
      /\ PinnedFrame(p, d).pinCount = 1 /\ PinnedFrame(p, d).data = d
  BY BufferPoolAssumption DEF PinnedFrame, Frame
<1>5. /\ pages' \in [Slots -> Frame] /\ pages \in [Slots -> Frame]
      /\ pages'[Slot] = PinnedFrame(p, d)
      /\ \A s \in Slots \ {Slot} : pages'[s] = pages[s]
  BY <1>1, <1>4 DEF Inv, TypeOK
<1>6. \A q \in PageIds \ {p} : Cached(q)' => /\ Cached(q) /\ pageSlot'[q] = pageSlot[q]
                                            /\ pageSlot[q] # Slot
                                            /\ FrameOf(q)' = FrameOf(q)
  BY <1>2, <1>5, FrameOfPage DEF Cached, FrameOf
<1> HIDE DEF Load
<1>7. TypeOK'
  BY <1>1, <1>2, <1>3, <1>5 DEF Inv, TypeOK, Lists, Load
<1>8. SlotsPartitioned'
  <2>1. PinnedSlots' = PinnedSlots \cup {Slot}
    BY <1>1, <1>4, <1>5 DEF PinnedSlots, Pinned
  <2> QED BY <1>1, <2>1 DEF Inv, SlotsPartitioned, PinnedSlots, Lists
<1>9. PageTableConsistent'
  <2>1. \A q \in PageIds : Cached(q)' => FrameOf(q)'.id = q
    BY <1>2, <1>4, <1>5, <1>6 DEF Inv, PageTableConsistent, FrameOf
  <2>2. \A s \in ToSet(freeSlots') : pages'[s].id = InvalidPage
    BY <1>1, <1>5 DEF Inv, PageTableConsistent, Lists, SlotsPartitioned
  <2>3. ASSUME NEW s \in Slots \ ToSet(freeSlots')
        PROVE  pages'[s].id \in PageIds /\ pageSlot'[pages'[s].id] = s
    <3>1. CASE s = Slot
      BY <1>2, <1>4, <1>5, <3>1
    <3>2. CASE s # Slot
      <4>1. s \notin ToSet(freeSlots) /\ pages'[s] = pages[s]
        BY <1>1, <1>5, <2>3, <3>2 DEF Lists
      <4>2. pages[s].id \in PageIds /\ pageSlot[pages[s].id] = s
        BY <4>1 DEF Inv, PageTableConsistent
      <4>3. pages[s].id # p
        BY <4>2, NoSlotIsNone DEF Cached
      <4> QED BY <1>2, <3>2, <4>1, <4>2, <4>3
    <3> QED BY <3>1, <3>2
  <2> QED BY <2>1, <2>2, <2>3 DEF PageTableConsistent
<1>10. CleanMatchesDisk'
  <2>1. FrameOf(p)'.data = disk'[p]
    BY <1>2, <1>3, <1>4, <1>5 DEF FrameOf
  <2>2. \A q \in PageIds \ {p} : Cached(q)' => disk'[q] = disk[q]
    BY <1>3, <1>6
  <2> QED BY <1>6, <2>1, <2>2 DEF Inv, CleanMatchesDisk, Load
<1>11. CachedOnDisk'
  <2>1. d # Absent
    BY BufferPoolAssumption DEF Contents
  <2> QED BY <1>3, <1>6, <2>1 DEF Inv, CachedOnDisk
<1>12. TouchedPinned'
  <2>1. \A q \in touched : q \in PageIds \ {p} /\ Pinned(pageSlot[q]) /\ Cached(q)
    BY DEF Inv, TypeOK, TouchedPinned
  <2>2. \A q \in touched : pageSlot'[q] = pageSlot[q] /\ pages'[pageSlot[q]] = pages[pageSlot[q]]
    BY <1>1, <1>2, <1>5, <2>1, FrameOfPage
  <2> QED BY <2>1, <2>2 DEF TouchedPinned, Load, Cached, Pinned
<1> QED BY <1>7, <1>8, <1>9, <1>10, <1>11, <1>12 DEF Inv

LEMMA NewPageInv == ASSUME Inv, NEW p \in PageIds, NewPage(p) PROVE Inv'
<1>1. ~Cached(p) /\ Blank \in Contents
  BY DEF NewPage, Inv, CachedOnDisk, Contents
<1> QED BY <1>1, LoadInv DEF NewPage

LEMMA FetchFromDiskInv == ASSUME Inv, NEW p \in PageIds, FetchFromDisk(p) PROVE Inv'
<1>1. CanAcquire /\ ~Cached(p) /\ pageSlot[p] # Slot
  BY Acquired, NoSlotIsNone DEF FetchFromDisk, Cached
<1>2. DiskAcquired[p] \in Contents
  BY <1>1, AcquiredDisk DEF FetchFromDisk
<1>3. DiskAcquired = [DiskAcquired EXCEPT ![p] = DiskAcquired[p]]
  BY <1>1, AcquiredDisk
<1> QED BY <1>1, <1>2, <1>3, LoadInv DEF FetchFromDisk
-----------------------------------------------------------------------------
(***************************************************************************)
(* The other steps leave every page in its frame.  If the lists and the    *)
(* pinned frames still share out the slots, both tables are right.         *)
(***************************************************************************)
SameFrames == /\ pageSlot' = pageSlot
              /\ pages' \in [Slots -> Frame]
              /\ \A s \in Slots : pages'[s].id = pages[s].id

LEMMA FramesStay ==
  ASSUME Inv, SameFrames, Lists(freeSlots', ToSet(freeSlots)),
         Lists(lru', ToSet(lru)'), ToSet(freeSlots) \cup ToSet(lru)' \cup PinnedSlots' = Slots,
         (ToSet(freeSlots) \cup ToSet(lru)') \cap PinnedSlots' = {},
         ToSet(freeSlots) \cap ToSet(lru)' = {}
  PROVE  /\ SlotsPartitioned' /\ PageTableConsistent'
         /\ \A p \in PageIds : Cached(p)' <=> Cached(p)
<1>1. SlotsPartitioned'
  BY DEF SlotsPartitioned, Lists
<1>2. \A p \in PageIds : Cached(p)' <=> Cached(p)
  BY DEF SameFrames, Cached
<1>3. \A p \in PageIds : Cached(p)' => FrameOf(p)'.id = p
  BY <1>2, FrameOfPage DEF SameFrames, FrameOf
<1>4. PageTableConsistent'
  <2>1. ToSet(freeSlots)' = ToSet(freeSlots) /\ ToSet(freeSlots) \subseteq Slots
    BY DEF Lists, Inv, SlotsPartitioned
  <2> QED BY <1>3, <2>1 DEF Inv, PageTableConsistent, SameFrames
<1> QED BY <1>1, <1>2, <1>4

(***************************************************************************)
(* A step that writes pages in place: neither the lists nor the pins       *)
(* change.                                                                 *)
(***************************************************************************)
LEMMA ListsStay ==
  ASSUME Inv, SameFrames, Lists(freeSlots', ToSet(freeSlots)), Lists(lru', ToSet(lru)),
         \A s \in Slots : pages'[s].pinCount = pages[s].pinCount
  PROVE  /\ SlotsPartitioned' /\ PageTableConsistent'
         /\ \A p \in PageIds : Cached(p)' <=> Cached(p)
         /\ \A s \in Slots : Pinned(s)' <=> Pinned(s)
<1>1. \A s \in Slots : Pinned(s)' <=> Pinned(s)
  BY DEF Pinned
<1>2. PinnedSlots' = PinnedSlots
  BY <1>1 DEF PinnedSlots
<1>3. ToSet(lru)' = ToSet(lru)
  BY DEF Lists
<1> QED BY <1>1, <1>2, <1>3, FramesStay DEF Inv, SlotsPartitioned

LEMMA FetchCachedInv == ASSUME Inv, NEW p \in PageIds, FetchCached(p) PROVE Inv'
<1> DEFINE s == pageSlot[p]
<1>1. /\ s \in Slots /\ pages[s] \in Frame /\ pages[s].id = p /\ s \notin ToSet(freeSlots)
      /\ pages[s].pinCount < MaxPins
  BY FrameOfPage DEF FetchCached, FrameOf
<1>2. /\ pages' \in [Slots -> Frame] /\ pages \in [Slots -> Frame]
      /\ pages'[s] = [pages[s] EXCEPT !.pinCount = @ + 1]
      /\ \A t \in Slots \ {s} : pages'[t] = pages[t]
      /\ UNCHANGED <<disk, freeSlots, pageSlot, touched>>
  <2>1. pages \in [Slots -> Frame]
    BY DEF Inv, TypeOK
  <2>2. pages' = [pages EXCEPT ![s] = [pages[s] EXCEPT !.pinCount = @ + 1]]
    BY <1>1, <2>1 DEF FetchCached
  <2>3. [pages[s] EXCEPT !.pinCount = @ + 1] \in Frame
    BY <1>1, BufferPoolAssumption DEF Frame
  <2> HIDE DEF s
  <2> QED BY <1>1, <2>1, <2>2, <2>3 DEF FetchCached
<1>3. /\ SameFrames
      /\ \A t \in Slots : pages'[t].data = pages[t].data /\ pages'[t].dirty = pages[t].dirty
  BY <1>1, <1>2 DEF SameFrames, Frame
<1>4. \A t \in Slots : Pinned(t)' <=> t = s \/ Pinned(t)
  BY <1>1, <1>2 DEF Pinned, Frame
<1>5. Lists(freeSlots', ToSet(freeSlots)) /\ Lists(lru', ToSet(lru) \ {s})
  BY <1>1, <1>2, TheLists, ListPin DEF FetchCached
<1>6. PinnedSlots' = PinnedSlots \cup {s}
  BY <1>1, <1>4 DEF PinnedSlots
<1>7. ToSet(lru)' = ToSet(lru) \ {s} /\ Lists(lru', ToSet(lru)')
  BY <1>5 DEF Lists
<1> HIDE DEF s
<1>8. /\ ToSet(freeSlots) \cup ToSet(lru)' \cup PinnedSlots' = Slots
      /\ (ToSet(freeSlots) \cup ToSet(lru)') \cap PinnedSlots' = {}
      /\ ToSet(freeSlots) \cap ToSet(lru)' = {}
  BY <1>1, <1>6, <1>7 DEF Inv, SlotsPartitioned
<1>9. /\ SlotsPartitioned' /\ PageTableConsistent'
      /\ \A q \in PageIds : Cached(q)' <=> Cached(q)
  BY <1>2, <1>3, <1>5, <1>7, <1>8, FramesStay
<1>10. TypeOK'
  BY <1>2, <1>5 DEF Inv, TypeOK, Lists
<1>11. CleanMatchesDisk' /\ CachedOnDisk' /\ TouchedPinned'
  BY <1>2, <1>3, <1>4, <1>9, FrameOfPage
     DEF Inv, TypeOK, CleanMatchesDisk, CachedOnDisk, TouchedPinned, FrameOf
<1> QED BY <1>9, <1>10, <1>11 DEF Inv

LEMMA UnpinPageInv ==
  ASSUME Inv, NEW p \in PageIds, NEW dirty \in BOOLEAN, OwesDirty(p) => dirty, UnpinPage(p, dirty)
  PROVE  Inv'
<1> DEFINE s == pageSlot[p]
           f == Unpinned(pages[s], dirty)
<1>1. /\ s \in Slots /\ pages[s] \in Frame /\ pages[s].id = p /\ s \notin ToSet(freeSlots)
      /\ pages[s].pinCount > 0 /\ Cached(p) /\ s \in PinnedSlots
  BY FrameOfPage DEF UnpinPage, Pinned, PinnedSlots
<1>2. /\ f \in Frame /\ f.id = p /\ f.data = pages[s].data /\ f.pinCount = pages[s].pinCount - 1
      /\ f.dirty = (pages[s].dirty \/ dirty)
  <2> DEFINE b == pages[s].dirty \/ dirty
             n == pages[s].pinCount - 1
  <2>1. f = [pages[s] EXCEPT !.pinCount = n, !.dirty = b]
    BY DEF Unpinned
  <2>2. b \in BOOLEAN
    BY Zenon
  <2>3. n \in 0 .. MaxPins
    BY <1>1, BufferPoolAssumption DEF Frame
  <2> HIDE DEF b, n, f, s
  <2>4. f \in Frame /\ f.id = p /\ f.data = pages[s].data /\ f.pinCount = n /\ f.dirty = b
    BY <1>1, <2>1, <2>2, <2>3 DEF Frame
  <2> QED BY <2>4 DEF b, n
<1>3. /\ pages' \in [Slots -> Frame] /\ pages \in [Slots -> Frame] /\ pages'[s] = f
      /\ \A t \in Slots \ {s} : pages'[t] = pages[t]
      /\ UNCHANGED <<disk, freeSlots, pageSlot>>
      /\ touched' = IF dirty THEN touched \ {p} ELSE touched
      /\ lru' = LruAfterUnpin(f, s)
  <2>1. pages \in [Slots -> Frame]
    BY DEF Inv, TypeOK
  <2>2. pages' = [pages EXCEPT ![s] = f]
    BY <1>1, <2>1 DEF UnpinPage
  <2>3. lru' = LruAfterUnpin(pages'[s], s)
    BY DEF UnpinPage
  <2> HIDE DEF f, s
  <2>4. pages' \in [Slots -> Frame] /\ pages'[s] = f /\ \A t \in Slots \ {s} : pages'[t] = pages[t]
    BY <1>1, <1>2, <2>1, <2>2
  <2> QED BY <2>1, <2>3, <2>4 DEF UnpinPage
<1> HIDE DEF f
<1>4. SameFrames
  BY <1>1, <1>2, <1>3 DEF SameFrames
<1>5. \A t \in Slots : Pinned(t)' <=> Pinned(t) /\ (t = s => f.pinCount # 0)
  <2>1. f.pinCount \in Nat
    BY <1>2 DEF Frame
  <2>2. pages'[s].pinCount > 0 <=> f.pinCount # 0
    BY <1>3, <2>1
  <2> HIDE DEF s
  <2> QED BY <1>1, <1>3, <2>2 DEF Pinned
<1>6. /\ Lists(freeSlots', ToSet(freeSlots))
      /\ Lists(lru', IF f.pinCount = 0 THEN ToSet(lru) \cup {s} ELSE ToSet(lru))
  BY <1>1, <1>3, TheLists, ListUnpin DEF LruAfterUnpin
<1>7. /\ ToSet(lru)' = IF f.pinCount = 0 THEN ToSet(lru) \cup {s} ELSE ToSet(lru)
      /\ Lists(lru', ToSet(lru)')
  BY <1>6 DEF Lists
<1>8. PinnedSlots' = IF f.pinCount = 0 THEN PinnedSlots \ {s} ELSE PinnedSlots
  BY <1>1, <1>5 DEF PinnedSlots
<1> HIDE DEF s
<1>9. /\ ToSet(freeSlots) \cup ToSet(lru)' \cup PinnedSlots' = Slots
      /\ (ToSet(freeSlots) \cup ToSet(lru)') \cap PinnedSlots' = {}
      /\ ToSet(freeSlots) \cap ToSet(lru)' = {}
  BY <1>1, <1>7, <1>8 DEF Inv, SlotsPartitioned
<1>10. /\ SlotsPartitioned' /\ PageTableConsistent'
       /\ \A q \in PageIds : Cached(q)' <=> Cached(q)
  BY <1>4, <1>6, <1>7, <1>9, FramesStay
<1>11. TypeOK'
  BY <1>3, <1>6 DEF Inv, TypeOK, Lists
<1>12. \A q \in PageIds : Cached(q) /\ q # p => pageSlot[q] \in Slots \ {s}
  BY <1>1, FrameOfPage
<1>13. CleanMatchesDisk'
  <2>1. ASSUME NEW q \in PageIds, Cached(q)', ~FrameOf(q)'.dirty, q \notin touched'
        PROVE  FrameOf(q)'.data = disk'[q]
    <3>1. CASE q = p
      BY <1>1, <1>2, <1>3, <2>1, <3>1 DEF Inv, CleanMatchesDisk, FrameOf, s
    <3>2. CASE q # p
      BY <1>3, <1>10, <1>12, <2>1, <3>2 DEF Inv, CleanMatchesDisk, FrameOf
    <3> QED BY <3>1, <3>2
  <2> QED BY <2>1 DEF CleanMatchesDisk
<1>14. CachedOnDisk'
  BY <1>3, <1>10 DEF Inv, CachedOnDisk
<1>15. TouchedPinned'
  <2>1. ASSUME NEW q \in touched' PROVE Cached(q)' /\ Pinned(pageSlot[q])'
    <3>1. q \in touched /\ q \in PageIds /\ Cached(q) /\ Pinned(pageSlot[q]) /\ (q = p => ~dirty)
      BY <1>3, <2>1 DEF Inv, TypeOK, TouchedPinned
    <3>2. CASE q = p
      <4>1. pages[s].pinCount # 1
        BY <3>1, <3>2 DEF OwesDirty, FrameOf, s
      <4>2. f.pinCount # 0
        BY <1>1, <1>2, <4>1 DEF Frame
      <4> QED BY <1>1, <1>3, <1>5, <1>10, <3>1, <3>2, <4>2 DEF s
    <3>3. CASE q # p
      BY <1>3, <1>5, <1>10, <1>12, <3>1, <3>3
    <3> QED BY <3>2, <3>3
  <2> QED BY <2>1 DEF TouchedPinned
<1> QED BY <1>10, <1>11, <1>13, <1>14, <1>15 DEF Inv

LEMMA EvictionFailsInv == ASSUME Inv, EvictionFails PROVE Inv'
<1> USE DEF EvictionFails
<1>1. /\ Slot \in ToSet(lru) /\ Slot \in Slots /\ Victim \in PageIds /\ pageSlot[Victim] = Slot
      /\ Lists(LruAcquired, ToSet(lru) \ {Slot}) /\ pages[Slot].dirty
  BY Acquired DEF SavesVictim
<1>2. (ToSet(lru) \ {Slot}) \cup {Slot} = ToSet(lru)
  BY <1>1
<1>3. Lists(lru', ToSet(lru)) /\ Lists(freeSlots', ToSet(freeSlots))
  BY <1>1, <1>2, TheLists, ListUnpin
<1>4. /\ disk' \in [PageIds -> Contents \cup {Absent}]
      /\ disk'[Victim] = disk[Victim] \/ disk'[Victim] = pages[Slot].data
      /\ \A p \in PageIds \ {Victim} : disk'[p] = disk[p]
  BY <1>1 DEF Inv, TypeOK, FailedWrite, Frame
<1>5. /\ SlotsPartitioned' /\ PageTableConsistent'
      /\ \A p \in PageIds : Cached(p)' <=> Cached(p)
  BY <1>3, ListsStay DEF SameFrames, Inv, TypeOK
<1>6. TypeOK'
  BY <1>3, <1>4 DEF Inv, TypeOK, Lists
<1>7. CleanMatchesDisk'
  BY <1>1, <1>4, <1>5 DEF Inv, CleanMatchesDisk, FrameOf
<1>8. CachedOnDisk'
  <2>1. pages[Slot].data # Absent
    BY <1>1, BufferPoolAssumption DEF Inv, TypeOK, Frame, Contents
  <2> QED BY <1>4, <1>5, <2>1 DEF Inv, CachedOnDisk
<1>9. TouchedPinned'
  BY DEF Inv, TouchedPinned, Cached, Pinned
<1> QED BY <1>5, <1>6, <1>7, <1>8, <1>9 DEF Inv

LEMMA RestoreInv == ASSUME Inv, RestoreAvailableSlot PROVE Inv'
<1> USE DEF RestoreAvailableSlot
<1>1. /\ Slot \in ToSet(lru) /\ Slot \in Slots /\ Victim \in PageIds /\ pageSlot[Victim] = Slot
      /\ Lists(LruAcquired, ToSet(lru) \ {Slot}) /\ ~Pinned(Slot)
  BY Acquired
<1>2. (ToSet(lru) \ {Slot}) \cup {Slot} = ToSet(lru)
  BY <1>1
<1>3. Lists(lru', ToSet(lru)) /\ Lists(freeSlots', ToSet(freeSlots))
  BY <1>1, <1>2, TheLists, ListUnpin
<1>4. pageSlot' = pageSlot
  BY <1>1, AcquiredTable DEF PageSlotRestored, PageSlotAcquired, Inv, TypeOK
<1>5. /\ disk' \in [PageIds -> Contents \cup {Absent}]
      /\ \A p \in PageIds : disk'[p] = IF pageSlot[p] = Slot /\ pages[Slot].dirty
                                       THEN pages[Slot].data ELSE disk[p]
  BY AcquiredDisk
<1>6. /\ pages' \in [Slots -> Frame] /\ pages \in [Slots -> Frame]
      /\ \A s \in Slots : /\ pages'[s].id = pages[s].id /\ pages'[s].data = pages[s].data
                          /\ pages'[s].pinCount = pages[s].pinCount
                          /\ s # Slot => pages'[s].dirty = pages[s].dirty
  BY <1>1 DEF Inv, TypeOK, Frame
<1> HIDE DEF RestoreAvailableSlot
<1>7. /\ SlotsPartitioned' /\ PageTableConsistent'
      /\ \A p \in PageIds : Cached(p)' <=> Cached(p)
      /\ \A s \in Slots : Pinned(s)' <=> Pinned(s)
  BY <1>3, <1>4, <1>6, ListsStay DEF SameFrames
<1>8. touched' = touched
  BY DEF RestoreAvailableSlot
<1>9. TypeOK'
  BY <1>3, <1>4, <1>5, <1>6, <1>8 DEF Inv, TypeOK, Lists
<1>10. CleanMatchesDisk'
  <2>1. ASSUME NEW p \in PageIds, Cached(p)', ~FrameOf(p)'.dirty, p \notin touched'
        PROVE  FrameOf(p)'.data = disk'[p]
    <3>1. Cached(p) /\ pageSlot[p] \in Slots /\ FrameOf(p)'.data = FrameOf(p).data
      BY <1>4, <1>6, <1>7, <2>1, FrameOfPage DEF FrameOf
    <3> QED BY <1>4, <1>5, <1>6, <1>8, <2>1, <3>1 DEF Inv, CleanMatchesDisk, FrameOf
  <2> QED BY <2>1 DEF CleanMatchesDisk
<1>11. CachedOnDisk'
  <2>1. pages[Slot].data # Absent
    BY <1>1, <1>6, BufferPoolAssumption DEF Frame, Contents
  <2> QED BY <1>5, <1>7, <2>1 DEF Inv, CachedOnDisk
<1>12. TouchedPinned'
  BY <1>4, <1>7, <1>8, FrameOfPage DEF Inv, TypeOK, TouchedPinned
<1> QED BY <1>7, <1>9, <1>10, <1>11, <1>12 DEF Inv
-----------------------------------------------------------------------------
(***************************************************************************)
(* The steps that write pages in place, or save them.                      *)
(***************************************************************************)
LEMMA ModifyInv == ASSUME Inv, NEW p \in PageIds, NEW d \in Data, Modify(p, d) PROVE Inv'
<1> DEFINE s == pageSlot[p]
<1>1. s \in Slots /\ pages[s] \in Frame /\ Cached(p) /\ Pinned(s) /\ pages \in [Slots -> Frame]
  BY FrameOfPage DEF Modify, Inv, TypeOK
<1>2. /\ pages' \in [Slots -> Frame]
      /\ \A t \in Slots : /\ pages'[t].id = pages[t].id /\ pages'[t].dirty = pages[t].dirty
                          /\ pages'[t].pinCount = pages[t].pinCount
                          /\ t # s => pages'[t].data = pages[t].data
      /\ touched' = touched \cup {p}
      /\ UNCHANGED <<disk, freeSlots, pageSlot, lru>>
  BY <1>1 DEF Modify, Frame, Contents
<1>3. Lists(freeSlots', ToSet(freeSlots)) /\ Lists(lru', ToSet(lru))
  BY <1>2, TheLists
<1>4. /\ SlotsPartitioned' /\ PageTableConsistent'
      /\ \A q \in PageIds : Cached(q)' <=> Cached(q)
      /\ \A t \in Slots : Pinned(t)' <=> Pinned(t)
  BY <1>2, <1>3, ListsStay DEF SameFrames
<1>5. TypeOK'
  BY <1>2 DEF Inv, TypeOK
<1>6. \A q \in PageIds : Cached(q) /\ q # p => pageSlot[q] \in Slots \ {s}
  BY <1>1, FrameOfPage
<1>7. CleanMatchesDisk' /\ CachedOnDisk'
  BY <1>1, <1>2, <1>4, <1>6 DEF Inv, CleanMatchesDisk, CachedOnDisk, FrameOf
<1>8. TouchedPinned'
  BY <1>1, <1>2, <1>4, FrameOfPage DEF Inv, TypeOK, TouchedPinned
<1> QED BY <1>4, <1>5, <1>7, <1>8 DEF Inv

(***************************************************************************)
(* saveAllPagesToDisk has saved the dirty pages of the first n frames.     *)
(***************************************************************************)
LEMMA SavedFile ==
  ASSUME Inv, NEW n \in Nat
  PROVE  /\ Saved(n) \in [PageIds -> Contents \cup {Absent}]
         /\ \A p \in PageIds : Saved(n)[p] = IF Saves(p) /\ pageSlot[p] < n
                                             THEN FrameOf(p).data ELSE disk[p]
<1>1. ASSUME NEW p \in PageIds, Saves(p)
      PROVE  (p \in SavedPages(n) <=> pageSlot[p] < n) /\ FrameOf(p).data \in Contents
  <2>1. /\ Cached(p) /\ pageSlot[p] \in Slots /\ pages[pageSlot[p]].id = p
        /\ FrameOf(p).data \in Contents
    BY <1>1, FrameOfPage DEF Saves, FrameOf, Frame
  <2>2. ASSUME NEW s \in Slots, pages[s].id = p PROVE s = pageSlot[p]
    <3>1. p # InvalidPage
      BY BufferPoolAssumption
    <3> QED BY <2>2, <3>1 DEF Inv, PageTableConsistent
  <2> QED BY <1>1, <2>1, <2>2 DEF SavedPages
<1>2. \A p \in SavedPages(n) : Saves(p)
  BY DEF SavedPages
<1> QED BY <1>1, <1>2 DEF Inv, TypeOK, Saved

(***************************************************************************)
(* The frames in front of n have been saved, and perhaps the next one is   *)
(* in the file but still flagged.                                          *)
(***************************************************************************)
LEMMA SavedSoFar ==
  ASSUME Inv, NEW n \in Nat, NEW m \in Nat, n <= m, disk' = Saved(m),
         pages' = [s \in Slots |-> IF s < n THEN [pages[s] EXCEPT !.dirty = FALSE] ELSE pages[s]],
         UNCHANGED <<freeSlots, pageSlot, lru, touched>>
  PROVE  Inv'
<1>1. pages \in [Slots -> Frame]
  BY DEF Inv, TypeOK
<1>2. /\ pages' \in [Slots -> Frame]
      /\ \A s \in Slots : /\ pages'[s].id = pages[s].id /\ pages'[s].data = pages[s].data
                          /\ pages'[s].pinCount = pages[s].pinCount
                          /\ ~(s < n) => pages'[s].dirty = pages[s].dirty
  BY <1>1 DEF Frame
<1>3. /\ disk' \in [PageIds -> Contents \cup {Absent}]
      /\ \A p \in PageIds : disk'[p] = IF Saves(p) /\ pageSlot[p] < m
                                       THEN FrameOf(p).data ELSE disk[p]
  BY SavedFile
<1>4. Lists(freeSlots', ToSet(freeSlots)) /\ Lists(lru', ToSet(lru))
  BY TheLists
<1>5. /\ SlotsPartitioned' /\ PageTableConsistent'
      /\ \A p \in PageIds : Cached(p)' <=> Cached(p)
      /\ \A s \in Slots : Pinned(s)' <=> Pinned(s)
  BY <1>2, <1>4, ListsStay DEF SameFrames
<1>6. TypeOK'
  BY <1>2, <1>3 DEF Inv, TypeOK
<1>7. \A p \in PageIds : Cached(p) => /\ pageSlot[p] \in Slots
                                     /\ FrameOf(p)'.data = FrameOf(p).data
  BY <1>2, FrameOfPage DEF FrameOf
<1>8. CleanMatchesDisk'
  <2>1. ASSUME NEW p \in PageIds, Cached(p)', ~FrameOf(p)'.dirty, p \notin touched'
        PROVE  FrameOf(p)'.data = disk'[p]
    <3>1. Cached(p) /\ p \notin touched /\ pageSlot[p] \in Slots /\ pageSlot[p] \in Nat
      BY <1>5, <1>7, <2>1 DEF Slots
    <3>2. CASE pageSlot[p] < m
      BY <1>3, <1>7, <3>1, <3>2 DEF Inv, CleanMatchesDisk, Saves
    <3>3. CASE ~(pageSlot[p] < m)
      <4>1. ~FrameOf(p).dirty
        BY <1>2, <2>1, <3>1, <3>3 DEF FrameOf
      <4> QED BY <1>3, <1>7, <3>1, <3>3, <4>1 DEF Inv, CleanMatchesDisk
    <3> QED BY <3>2, <3>3
  <2> QED BY <2>1 DEF CleanMatchesDisk
<1>9. CachedOnDisk'
  <2>1. \A p \in PageIds : Cached(p) => FrameOf(p).data # Absent
    BY FrameOfPage, BufferPoolAssumption DEF FrameOf, Frame, Contents
  <2> QED BY <1>3, <1>5, <2>1 DEF Inv, CachedOnDisk, Saves
<1>10. TouchedPinned'
  BY <1>5, FrameOfPage DEF Inv, TypeOK, TouchedPinned
<1> QED BY <1>5, <1>6, <1>8, <1>9, <1>10 DEF Inv

LEMMA SaveAllInv == ASSUME Inv, SaveAll PROVE Inv'
<1>1. PoolSize \in Nat /\ \A s \in Slots : s < PoolSize
  BY BufferPoolAssumption DEF Slots
<1>2. pages' = [s \in Slots |-> IF s < PoolSize THEN [pages[s] EXCEPT !.dirty = FALSE] ELSE pages[s]]
  BY <1>1 DEF SaveAll
<1> QED BY <1>1, <1>2, SavedSoFar DEF SaveAll

LEMMA SaveAllStopsInv == ASSUME Inv, SaveAllStops PROVE Inv'
<1>1. PICK n \in Slots :
        /\ disk' \in StoppedAt(n)
        /\ pages' = [s \in Slots |-> IF s < n THEN [pages[s] EXCEPT !.dirty = FALSE] ELSE pages[s]]
        /\ UNCHANGED <<freeSlots, pageSlot, lru, touched>>
  BY DEF SaveAllStops
<1>2. n \in Nat /\ n + 1 \in Nat /\ n <= n /\ n <= n + 1
  BY DEF Slots
<1>3. disk' = Saved(n) \/ disk' = Saved(n + 1)
  BY <1>1 DEF StoppedAt
<1> QED BY <1>1, <1>2, <1>3, SavedSoFar

LEMMA SavePageToDiskInv == ASSUME Inv, NEW p \in PageIds, SavePageToDisk(p) PROVE Inv'
<1> DEFINE s == pageSlot[p]
<1>1. /\ s \in Slots /\ pages[s] \in Frame /\ Cached(p) /\ pages[s].data \in Contents
      /\ pages \in [Slots -> Frame] /\ disk \in [PageIds -> Contents \cup {Absent}]
  BY FrameOfPage DEF SavePageToDisk, Saves, Inv, TypeOK, Frame
<1>2. /\ pages' \in [Slots -> Frame]
      /\ \A t \in Slots : /\ pages'[t].id = pages[t].id /\ pages'[t].data = pages[t].data
                          /\ pages'[t].pinCount = pages[t].pinCount
                          /\ t # s \/ disk'[p] # pages[s].data => pages'[t].dirty = pages[t].dirty
      /\ UNCHANGED <<freeSlots, pageSlot, lru, touched>>
  <2>1. CASE /\ disk' = [disk EXCEPT ![p] = FrameOf(p).data]
             /\ pages' = [pages EXCEPT ![s].dirty = FALSE]
    <3>1. disk'[p] = pages[s].data
      BY <1>1, <2>1 DEF FrameOf
    <3> HIDE DEF s
    <3> QED BY <1>1, <2>1, <3>1 DEF SavePageToDisk, Frame
  <2>2. CASE UNCHANGED pages
    BY <1>1, <2>2 DEF SavePageToDisk
  <2> QED BY <2>1, <2>2 DEF SavePageToDisk
<1>3. /\ disk' \in [PageIds -> Contents \cup {Absent}]
      /\ disk'[p] \in {disk[p], pages[s].data}
      /\ \A q \in PageIds \ {p} : disk'[q] = disk[q]
  BY <1>1 DEF SavePageToDisk, FailedWrite, FrameOf
<1>4. Lists(freeSlots', ToSet(freeSlots)) /\ Lists(lru', ToSet(lru))
  BY <1>2, TheLists
<1>5. /\ SlotsPartitioned' /\ PageTableConsistent'
      /\ \A q \in PageIds : Cached(q)' <=> Cached(q)
      /\ \A t \in Slots : Pinned(t)' <=> Pinned(t)
  BY <1>2, <1>4, ListsStay DEF SameFrames
<1>6. TypeOK'
  BY <1>2, <1>3 DEF Inv, TypeOK
<1>7. \A q \in PageIds : Cached(q) /\ q # p => pageSlot[q] \in Slots \ {s}
  BY <1>1, FrameOfPage
<1>8. CleanMatchesDisk'
  <2>1. ASSUME NEW q \in PageIds, Cached(q)', ~FrameOf(q)'.dirty, q \notin touched'
        PROVE  FrameOf(q)'.data = disk'[q]
    <3>1. CASE q = p
      BY <1>1, <1>2, <1>3, <2>1, <3>1 DEF Inv, CleanMatchesDisk, FrameOf
    <3>2. CASE q # p
      BY <1>2, <1>3, <1>5, <1>7, <2>1, <3>2 DEF Inv, CleanMatchesDisk, FrameOf
    <3> QED BY <3>1, <3>2
  <2> QED BY <2>1 DEF CleanMatchesDisk
<1>9. CachedOnDisk'
  <2>1. pages[s].data # Absent
    BY <1>1, BufferPoolAssumption DEF Contents
  <2> QED BY <1>3, <1>5, <2>1 DEF Inv, CachedOnDisk
<1>10. TouchedPinned'
  BY <1>2, <1>5, FrameOfPage DEF Inv, TypeOK, TouchedPinned
<1> QED BY <1>5, <1>6, <1>8, <1>9, <1>10 DEF Inv

(***************************************************************************)
(* An empty pool over any file.                                            *)
(***************************************************************************)
EmptyPool == /\ pages = EmptyFrames /\ freeSlots = AllFree /\ pageSlot = NothingCached
             /\ lru = <<>> /\ touched = {}

FileTyped == disk \in [PageIds -> Contents \cup {Absent}]

LEMMA EmptyPoolInv == FileTyped /\ EmptyPool => Inv
<1> SUFFICES ASSUME FileTyped, EmptyPool PROVE Inv
  OBVIOUS
<1>1. Lists(freeSlots, Slots) /\ Lists(lru, {})
  BY ListAllFree, ListEmpty DEF EmptyPool
<1>2. \A s \in Slots : pages[s] = EmptyFrame
  BY DEF EmptyPool, EmptyFrames
<1>3. EmptyFrame \in Frame /\ EmptyFrame.pinCount = 0 /\ EmptyFrame.id = InvalidPage
  BY BufferPoolAssumption DEF EmptyFrame, Frame, Contents
<1>4. PinnedSlots = {}
  BY <1>2, <1>3 DEF PinnedSlots, Pinned
<1>5. \A p \in PageIds : ~Cached(p)
  BY DEF EmptyPool, NothingCached, Cached
<1>6. TypeOK
  BY <1>1, <1>3 DEF TypeOK, FileTyped, EmptyPool, EmptyFrames, NothingCached, Lists
<1>7. SlotsPartitioned /\ PageTableConsistent
  BY <1>1, <1>2, <1>3, <1>4, <1>5 DEF SlotsPartitioned, PageTableConsistent, Lists
<1> QED BY <1>5, <1>6, <1>7
        DEF Inv, CleanMatchesDisk, CachedOnDisk, TouchedPinned, EmptyPool

LEMMA RestartInv == ASSUME Inv, Restart PROVE Inv'
<1>1. \A n \in Nat : Saved(n) \in [PageIds -> Contents \cup {Absent}]
  BY SavedFile
<1>2. PoolSize \in Nat /\ \A n \in Slots : n \in Nat /\ n + 1 \in Nat
  BY BufferPoolAssumption DEF Slots
<1>3. FileTyped'
  BY <1>1, <1>2 DEF Restart, StoppedAt, Inv, TypeOK, FileTyped
<1>4. EmptyPool'
  BY DEF Restart, EmptyPool, EmptyFrames, AllFree, NothingCached
<1> QED BY <1>3, <1>4, EmptyPoolInv, PTL

LEMMA InitInv == Init => Inv
<1>1. Init => FileTyped /\ EmptyPool
  BY DEF Init, Disk!StoreInit, FileTyped, EmptyPool
<1> QED BY <1>1, EmptyPoolInv

LEMMA InvNext == Inv /\ [Next]_vars => Inv'
<1> SUFFICES ASSUME Inv, [Next]_vars PROVE Inv'
  OBVIOUS
<1>1. ASSUME NEW p \in PageIds, NewPage(p) PROVE Inv'
  BY <1>1, NewPageInv
<1>2. ASSUME NEW p \in PageIds, FetchCached(p) PROVE Inv'
  BY <1>2, FetchCachedInv
<1>3. ASSUME NEW p \in PageIds, FetchFromDisk(p) PROVE Inv'
  BY <1>3, FetchFromDiskInv
<1>4. ASSUME NEW p \in PageIds, NEW d \in Data, Modify(p, d) PROVE Inv'
  BY <1>4, ModifyInv
<1>5. ASSUME NEW p \in PageIds, NEW dirty \in BOOLEAN, OwesDirty(p) => dirty, UnpinPage(p, dirty)
      PROVE  Inv'
  BY <1>5, UnpinPageInv
<1>6. ASSUME NEW p \in PageIds, SavePageToDisk(p) PROVE Inv'
  BY <1>6, SavePageToDiskInv
<1>7. CASE EvictionFails
  BY <1>7, EvictionFailsInv
<1>8. CASE RestoreAvailableSlot
  BY <1>8, RestoreInv
<1>9. CASE SaveAll
  BY <1>9, SaveAllInv
<1>10. CASE SaveAllStops
  BY <1>10, SaveAllStopsInv
<1>11. CASE Restart
  BY <1>11, RestartInv
<1>12. CASE UNCHANGED vars
  BY <1>12 DEF vars, pool, Inv, TypeOK, SlotsPartitioned, PinnedSlots, Pinned, PageTableConsistent,
               CleanMatchesDisk, CachedOnDisk, TouchedPinned, Cached, FrameOf
<1> QED BY <1>1, <1>2, <1>3, <1>4, <1>5, <1>6, <1>7, <1>8, <1>9, <1>10, <1>11, <1>12 DEF Next

LEMMA InvAlways == Spec => []Inv
BY InitInv, InvNext, PTL DEF Spec

(***************************************************************************)
(* The pool's variables have their types, and no page has more than        *)
(* MaxPins pins.                                                           *)
(***************************************************************************)
THEOREM PoolTypeCorrect == Spec => []TypeOK
<1>1. Inv => TypeOK
  BY DEF Inv
<1> QED BY <1>1, InvAlways, PTL

(***************************************************************************)
(* BufferPoolManager loses no frame and gives none to two pages, in pools  *)
(* of every size and whichever disk operations fail.                       *)
(***************************************************************************)
THEOREM SlotsAlwaysPartitioned == Spec => []SlotsPartitioned
<1>1. Inv => SlotsPartitioned
  BY DEF Inv
<1> QED BY <1>1, InvAlways, PTL

(***************************************************************************)
(* pageSlot_ finds for each cached page its own frame and no other.        *)
(***************************************************************************)
THEOREM PageTableAlwaysConsistent == Spec => []PageTableConsistent
<1>1. Inv => PageTableConsistent
  BY DEF Inv
<1> QED BY <1>1, InvAlways, PTL

(***************************************************************************)
(* An eviction that skips the save loses nothing: a frame that is not      *)
(* dirty and that nobody has yet to report equals the file.                *)
(***************************************************************************)
THEOREM CleanAlwaysMatchesDisk == Spec => []CleanMatchesDisk
<1>1. Inv => CleanMatchesDisk
  BY DEF Inv
<1> QED BY <1>1, InvAlways, PTL
-----------------------------------------------------------------------------
(***************************************************************************)
(* What a step does to the frame of a pinned page.                         *)
(***************************************************************************)
PinnedStayStep ==
  \A s \in Slots : Pinned(s) /\ pages' # EmptyFrames
    => /\ pages'[s].id = pages[s].id
       /\ \/ pages'[s].data = pages[s].data
          \/ \E d \in Data : Modify(pages[s].id, d)

LEMMA PinnedStayNext == Inv /\ [Next]_vars => [PinnedStayStep]_vars
<1> SUFFICES ASSUME Inv, [Next]_vars,
                    NEW s \in Slots, Pinned(s), pages' # EmptyFrames
             PROVE  /\ pages'[s].id = pages[s].id
                    /\ \/ pages'[s].data = pages[s].data
                       \/ \E d \in Data : Modify(pages[s].id, d)
  BY DEF PinnedStayStep
<1> DEFINE Same == pages'[s].id = pages[s].id /\ pages'[s].data = pages[s].data
<1>0. pages \in [Slots -> Frame] /\ pages[s] \in Frame
  BY DEF Inv, TypeOK
<1>1. ASSUME NEW p \in PageIds, NEW d, CanAcquire, Load(p, d) PROVE Same
  BY <1>0, <1>1, Acquired DEF Load
<1>2. ASSUME NEW p \in PageIds, NewPage(p) PROVE Same
  BY <1>1, <1>2 DEF NewPage
<1>3. ASSUME NEW p \in PageIds, FetchCached(p) PROVE Same
  BY <1>0, <1>3, FrameOfPage DEF FetchCached, Frame
<1>4. ASSUME NEW p \in PageIds, FetchFromDisk(p) PROVE Same
  BY <1>1, <1>4 DEF FetchFromDisk
<1>5. ASSUME NEW p \in PageIds, NEW d \in Data, Modify(p, d)
      PROVE  pages'[s].id = pages[s].id /\ (Same \/ \E e \in Data : Modify(pages[s].id, e))
  <2>1. Cached(p) /\ pages' = [pages EXCEPT ![pageSlot[p]].data = d]
    BY <1>5 DEF Modify
  <2>2. pages'[s].id = pages[s].id
    BY <1>0, <2>1, FrameOfPage DEF Frame
  <2>3. CASE s = pageSlot[p]
    BY <1>5, <2>1, <2>2, <2>3, FrameOfPage
  <2>4. CASE s # pageSlot[p]
    BY <1>0, <2>1, <2>2, <2>4, FrameOfPage
  <2> QED BY <2>3, <2>4
<1>6. ASSUME NEW p \in PageIds, NEW dirty \in BOOLEAN, UnpinPage(p, dirty) PROVE Same
  <2>1. Cached(p) /\ pages' = [pages EXCEPT ![pageSlot[p]] = Unpinned(@, dirty)]
    BY <1>6 DEF UnpinPage
  <2>2. Unpinned(pages[s], dirty).id = pages[s].id /\ Unpinned(pages[s], dirty).data = pages[s].data
    BY <1>0 DEF Unpinned, Frame
  <2> QED BY <1>0, <2>1, <2>2, FrameOfPage
<1>7. ASSUME NEW p \in PageIds, SavePageToDisk(p) PROVE Same
  <2>1. Cached(p) /\ (pages' = [pages EXCEPT ![pageSlot[p]].dirty = FALSE] \/ UNCHANGED pages)
    BY <1>7 DEF SavePageToDisk, Saves
  <2> QED BY <1>0, <2>1, FrameOfPage DEF Frame
<1>8. CASE EvictionFails
  BY <1>8 DEF EvictionFails
<1>9. CASE RestoreAvailableSlot
  BY <1>0, <1>9, Acquired DEF RestoreAvailableSlot, Frame
<1>10. CASE SaveAll
  BY <1>0, <1>10 DEF SaveAll, Frame
<1>11. CASE SaveAllStops
  BY <1>0, <1>11 DEF SaveAllStops, Frame
<1>12. CASE Restart
  BY <1>12 DEF Restart
<1>13. CASE UNCHANGED vars
  BY <1>13 DEF vars, pool
<1> QED
  BY <1>2, <1>3, <1>4, <1>5, <1>6, <1>7, <1>8, <1>9, <1>10, <1>11, <1>12, <1>13 DEF Next

(***************************************************************************)
(* The Page* of a pinned page stays good: no step but a restart moves the  *)
(* page, and only its client's own write changes what it holds.            *)
(***************************************************************************)
THEOREM PinnedAlwaysStay == Spec => PinnedStay
<1>1. Spec => [][PinnedStayStep]_vars
  BY InvAlways, PinnedStayNext, PTL DEF Spec
<1> QED BY <1>1 DEF PinnedStay, PinnedStayStep

(***************************************************************************)
(* What the file holds after a step of SaveAll.                            *)
(***************************************************************************)
SaveAllStep == SaveAll => \A p \in PageIds \ touched : disk'[p] = View[p]

LEMMA SaveAllDurableStep == Inv => SaveAllStep
<1> SUFFICES ASSUME Inv, SaveAll, NEW p \in PageIds \ touched PROVE disk'[p] = View[p]
  BY DEF SaveAllStep
<1>1. disk'[p] = IF Saves(p) /\ pageSlot[p] < PoolSize THEN FrameOf(p).data ELSE disk[p]
  BY SavedFile, BufferPoolAssumption DEF SaveAll
<1>2. Cached(p) => pageSlot[p] < PoolSize
  BY FrameOfPage, BufferPoolAssumption DEF Slots
<1> QED BY <1>1, <1>2 DEF Inv, CleanMatchesDisk, View, Saves

(***************************************************************************)
(* After a saveAllPagesToDisk that returned Ok the file holds what the     *)
(* clients see, but for pages changed and not yet reported.                *)
(***************************************************************************)
THEOREM SaveAllAlwaysDurable == Spec => SaveAllIsDurable
<1>1. Inv /\ [Next]_vars => [SaveAllStep]_vars
  BY SaveAllDurableStep
<1>2. Spec => [][SaveAllStep]_vars
  BY <1>1, InvAlways, PTL DEF Spec
<1> QED BY <1>2 DEF SaveAllIsDurable, SaveAllStep
-----------------------------------------------------------------------------
(***************************************************************************)
(* The buffer pool implements CachedStore: each of its steps is, for what  *)
(* clients see (View) and what the file holds (disk), a step of the store  *)
(* or changes neither.                                                     *)
(***************************************************************************)

(***************************************************************************)
(* What a step leaves as it was, page by page.                             *)
(***************************************************************************)
LEMMA SameView ==
  ASSUME \A p \in PageIds : View'[p] = View[p]
  PROVE  View' = View
BY DEF View

LEMMA ViewOfPage ==
  ASSUME Inv, NEW p \in PageIds
  PROVE  /\ Cached(p) => View[p] = FrameOf(p).data /\ View[p] # Absent
         /\ ~Cached(p) => View[p] = disk[p]
<1>1. Cached(p) => FrameOf(p).data # Absent
  BY FrameOfPage, BufferPoolAssumption DEF FrameOf, Frame, Contents
<1> QED BY <1>1 DEF View

(***************************************************************************)
(* Every page stays in its frame with its data, and the file changes for   *)
(* the pages of F only, to what those hold: the clients see no difference. *)
(***************************************************************************)
LEMMA InPlace ==
  ASSUME Inv, pageSlot' = pageSlot, \A s \in Slots : pages'[s].data = pages[s].data,
         NEW F \in SUBSET PageIds, \A p \in F : Cached(p), disk' = Cache!Flushed(F)
  PROVE  Cache!Flush(F)
<1>1. ASSUME NEW p \in PageIds PROVE View'[p] = View[p]
  <2>1. Cached(p)' <=> Cached(p)
    BY DEF Cached
  <2>2. CASE Cached(p)
    BY <2>1, <2>2, FrameOfPage DEF View, FrameOf
  <2>3. CASE ~Cached(p)
    BY <2>1, <2>3 DEF View, Cache!Flushed
  <2> QED BY <2>2, <2>3
<1> QED BY <1>1, SameView DEF Cache!Flush

(***************************************************************************)
(* Making room flushes the victim if it is dirty.                          *)
(***************************************************************************)
Evicted == {p \in PageIds : pageSlot[p] = Slot /\ pages[Slot].dirty}

LEMMA EvictedFlushed ==
  ASSUME Inv, CanAcquire
  PROVE  /\ Evicted \in SUBSET PageIds
         /\ \A p \in PageIds : pageSlot[p] = Slot => Cached(p) /\ View[p] = pages[Slot].data
         /\ DiskAcquired = Cache!Flushed(Evicted)
<1>1. \A p \in PageIds : pageSlot[p] = Slot => Cached(p) /\ View[p] = pages[Slot].data
  BY Acquired, NoSlotIsNone DEF Cached, View, FrameOf
<1>2. \A p \in PageIds : Cache!Flushed(Evicted)[p] = DiskAcquired[p]
  BY <1>1, AcquiredDisk DEF Cache!Flushed, Evicted
<1> QED BY <1>1, <1>2, AcquiredDisk DEF Cache!Flushed, Evicted

LEMMA LoadView ==
  ASSUME Inv, CanAcquire, NEW p \in PageIds, ~Cached(p), NEW d \in Contents, Load(p, d),
         disk' = [DiskAcquired EXCEPT ![p] = d]
  PROVE  View' = [View EXCEPT ![p] = d]
<1>1. Slot \in Slots /\ ~Pinned(Slot)
  BY Acquired
<1>2. /\ pageSlot'[p] = Slot
      /\ \A q \in PageIds \ {p} :
           pageSlot'[q] = IF pageSlot[q] = Slot THEN NoSlot ELSE pageSlot[q]
  BY <1>1, AcquiredTable DEF Load
<1>3. /\ pages'[Slot].data = d
      /\ \A s \in Slots \ {Slot} : pages'[s] = pages[s]
  BY <1>1 DEF Load, PinnedFrame, Inv, TypeOK
<1>4. View'[p] = d
  BY <1>1, <1>2, <1>3, NoSlotIsNone DEF View, Cached, FrameOf
<1>5. ASSUME NEW q \in PageIds \ {p} PROVE View'[q] = View[q]
  <2>1. disk'[q] = IF pageSlot[q] = Slot /\ pages[Slot].dirty THEN pages[Slot].data ELSE disk[q]
    BY AcquiredDisk
  <2>2. CASE pageSlot[q] = Slot
    <3>1. View'[q] = disk'[q]
      BY <1>2, <2>2 DEF View, Cached
    <3>2. q \notin touched
      BY <1>1, <2>2 DEF Inv, TouchedPinned
    <3>3. ~pages[Slot].dirty => pages[Slot].data = disk[q]
      BY <2>2, <3>2, EvictedFlushed DEF Inv, CleanMatchesDisk, FrameOf
    <3> QED BY <2>1, <2>2, <3>1, <3>3, EvictedFlushed
  <2>3. CASE pageSlot[q] # Slot
    <3>1. Cached(q)' <=> Cached(q)
      BY <1>2, <2>3 DEF Cached
    <3>2. Cached(q) => FrameOf(q)' = FrameOf(q)
      BY <1>2, <1>3, <2>3, FrameOfPage DEF FrameOf
    <3> QED BY <2>1, <2>3, <3>1, <3>2 DEF View
  <2> QED BY <2>2, <2>3
<1> QED BY <1>4, <1>5 DEF View
-----------------------------------------------------------------------------
LEMMA NewPageAllocates ==
  ASSUME Inv, NEW p \in PageIds, NewPage(p)
  PROVE  Cache!Allocate(p, Evicted) /\ Evicted \in SUBSET PageIds
<1>1. ~Cached(p) /\ Blank \in Contents /\ CanAcquire
  BY DEF NewPage, Inv, CachedOnDisk, Contents
<1>2. View' = [View EXCEPT ![p] = Blank] /\ View[p] = Absent
  BY <1>1, LoadView, ViewOfPage DEF NewPage
<1>3. disk' = [Cache!Flushed(Evicted) EXCEPT ![p] = Blank]
  BY <1>1, EvictedFlushed DEF NewPage
<1> QED BY <1>1, <1>2, <1>3, EvictedFlushed DEF Cache!Allocate

LEMMA FetchFlushes ==
  ASSUME Inv, NEW p \in PageIds, FetchFromDisk(p)
  PROVE  Cache!Flush(Evicted) /\ Evicted \in SUBSET PageIds
<1>1. CanAcquire /\ ~Cached(p) /\ pageSlot[p] # Slot
  BY Acquired, NoSlotIsNone DEF FetchFromDisk, Cached
<1>2. DiskAcquired[p] \in Contents /\ DiskAcquired[p] = disk[p]
  BY <1>1, AcquiredDisk DEF FetchFromDisk
<1>3. disk' = DiskAcquired /\ DiskAcquired = [DiskAcquired EXCEPT ![p] = DiskAcquired[p]]
  BY <1>1, AcquiredDisk DEF FetchFromDisk
<1>4. View' = [View EXCEPT ![p] = DiskAcquired[p]]
  BY <1>1, <1>2, <1>3, LoadView DEF FetchFromDisk
<1>5. View' = View
  BY <1>1, <1>2, <1>4, ViewOfPage DEF View
<1> QED BY <1>1, <1>3, <1>5, EvictedFlushed DEF Cache!Flush

LEMMA ModifyWrites ==
  ASSUME Inv, NEW p \in PageIds, NEW d \in Data, Modify(p, d)
  PROVE  Cache!Write(p, d) /\ d \in Contents
<1>1. Cached(p) /\ pageSlot' = pageSlot /\ pages' = [pages EXCEPT ![pageSlot[p]].data = d] /\ disk' = disk
  BY DEF Modify
<1>2. /\ pageSlot[p] \in Slots /\ pages'[pageSlot[p]].data = d
      /\ \A s \in Slots \ {pageSlot[p]} : pages'[s] = pages[s]
  BY <1>1, FrameOfPage DEF Inv, TypeOK, Frame
<1>3. View'[p] = d
  BY <1>1, <1>2 DEF View, Cached, FrameOf
<1>4. ASSUME NEW q \in PageIds \ {p} PROVE View'[q] = View[q]
  <2>1. Cached(q) => pageSlot[q] \in Slots \ {pageSlot[p]}
    BY <1>1, FrameOfPage
  <2> QED BY <1>1, <1>2, <2>1 DEF View, Cached, FrameOf
<1>5. View' = [View EXCEPT ![p] = d]
  BY <1>3, <1>4 DEF View
<1> QED BY <1>1, <1>5, ViewOfPage DEF Cache!Write, Contents

LEMMA FailedWriteFlushes ==
  ASSUME Inv, NEW p \in PageIds, Cached(p), disk' \in FailedWrite(p, FrameOf(p).data)
  PROVE  \E F \in SUBSET {p} : disk' = Cache!Flushed(F)
<1>1. disk = Cache!Flushed({})
  BY DEF Cache!Flushed, Inv, TypeOK
<1>2. [disk EXCEPT ![p] = FrameOf(p).data] = Cache!Flushed({p})
  BY ViewOfPage DEF Cache!Flushed, Inv, TypeOK
<1> QED BY <1>1, <1>2 DEF FailedWrite

LEMMA SavedFlushed ==
  ASSUME Inv, NEW n \in Nat
  PROVE  /\ SavedPages(n) \in SUBSET PageIds /\ \A p \in SavedPages(n) : Cached(p)
         /\ Saved(n) = Cache!Flushed(SavedPages(n))
<1>1. SavedPages(n) \in SUBSET PageIds /\ \A p \in SavedPages(n) : Cached(p)
  BY DEF SavedPages, Saves
<1> QED BY <1>1, ViewOfPage DEF Saved, Cache!Flushed
-----------------------------------------------------------------------------
(***************************************************************************)
(* One step of the pool is one step of the store, or changes neither file  *)
(* nor view.                                                               *)
(***************************************************************************)
Mapped == Cache!CachedNext \/ UNCHANGED Cache!cachedVars

LEMMA FlushMapped ==
  ASSUME NEW F \in SUBSET PageIds, Cache!Flush(F)
  PROVE  Mapped
BY DEF Mapped, Cache!CachedNext

LEMMA RestartMapped == ASSUME Inv, Restart PROVE Mapped
<1>1. View' = disk'
  <2>1. FileTyped'
    <3>1. \A n \in Nat : Saved(n) \in [PageIds -> Contents \cup {Absent}]
      BY SavedFile
    <3>2. PoolSize \in Nat /\ \A n \in Slots : n \in Nat /\ n + 1 \in Nat
      BY BufferPoolAssumption DEF Slots
    <3> QED BY <3>1, <3>2 DEF Restart, StoppedAt, Inv, TypeOK, FileTyped
  <2>2. \A p \in PageIds : ~Cached(p)'
    BY DEF Restart, NothingCached, Cached
  <2> QED BY <2>1, <2>2 DEF View, FileTyped
<1>2. \E F \in SUBSET PageIds : disk' = Cache!Flushed(F)
  <2>1. CASE disk' = disk
    <3>1. disk = Cache!Flushed({})
      BY DEF Cache!Flushed, Inv, TypeOK
    <3> QED BY <2>1, <3>1
  <2>2. CASE \E n \in Nat : disk' = Saved(n)
    BY <2>2, SavedFlushed
  <2>3. disk' = disk \/ \E n \in Nat : disk' = Saved(n)
    BY BufferPoolAssumption DEF Restart, StoppedAt, Slots
  <2> QED BY <2>1, <2>2, <2>3
<1> QED BY <1>1, <1>2 DEF Mapped, Cache!CachedNext, Cache!Restart

LEMMA StepMapped == Inv /\ [Next]_vars => Mapped
<1> SUFFICES ASSUME Inv, [Next]_vars PROVE Mapped
  OBVIOUS
<1>0. pages \in [Slots -> Frame] /\ disk = Cache!Flushed({})
  BY DEF Inv, TypeOK, Cache!Flushed
<1>1. ASSUME NEW p \in PageIds, NewPage(p) PROVE Mapped
  BY <1>1, NewPageAllocates DEF Mapped, Cache!CachedNext
<1>2. ASSUME NEW p \in PageIds, FetchCached(p) PROVE Mapped
  <2>1. \A s \in Slots : pages'[s].data = pages[s].data
    BY <1>0, <1>2, FrameOfPage DEF FetchCached, Frame
  <2>2. Cache!Flush({})
    BY <1>0, <1>2, <2>1, InPlace DEF FetchCached
  <2> QED BY <2>2, FlushMapped
<1>3. ASSUME NEW p \in PageIds, FetchFromDisk(p) PROVE Mapped
  BY <1>3, FetchFlushes, FlushMapped
<1>4. ASSUME NEW p \in PageIds, NEW d \in Data, Modify(p, d) PROVE Mapped
  BY <1>4, ModifyWrites DEF Mapped, Cache!CachedNext
<1>5. ASSUME NEW p \in PageIds, NEW dirty \in BOOLEAN, UnpinPage(p, dirty) PROVE Mapped
  <2>1. /\ Cached(p) /\ UNCHANGED <<disk, pageSlot>>
        /\ pages' = [pages EXCEPT ![pageSlot[p]] = Unpinned(@, dirty)]
    BY <1>5 DEF UnpinPage
  <2>2. \A f \in Frame : Unpinned(f, dirty).data = f.data
    BY DEF Unpinned, Frame
  <2>3. \A s \in Slots : pages'[s].data = pages[s].data
    BY <1>0, <2>1, <2>2, FrameOfPage
  <2>4. Cache!Flush({})
    BY <1>0, <2>1, <2>3, InPlace
  <2> QED BY <2>4, FlushMapped
<1>6. ASSUME NEW p \in PageIds, SavePageToDisk(p) PROVE Mapped
  <2>1. Cached(p) /\ UNCHANGED pageSlot
    BY <1>6 DEF SavePageToDisk, Saves
  <2>2. \A s \in Slots : pages'[s].data = pages[s].data
    BY <1>0, <1>6, <2>1, FrameOfPage DEF SavePageToDisk, Frame
  <2>3. \E F \in SUBSET {p} : disk' = Cache!Flushed(F)
    <3>1. CASE disk' = [disk EXCEPT ![p] = FrameOf(p).data]
      <4>1. disk' = Cache!Flushed({p})
        BY <2>1, <3>1, ViewOfPage DEF Cache!Flushed, Inv, TypeOK
      <4> QED BY <4>1
    <3>2. CASE disk' \in FailedWrite(p, FrameOf(p).data)
      BY <2>1, <3>2, FailedWriteFlushes
    <3> QED BY <1>6, <3>1, <3>2 DEF SavePageToDisk
  <2>4. PICK F \in SUBSET {p} : disk' = Cache!Flushed(F)
    BY <2>3
  <2>5. Cache!Flush(F)
    BY <2>1, <2>2, <2>4, InPlace
  <2> QED BY <2>5, FlushMapped
<1>7. CASE EvictionFails
  <2>1. /\ Victim \in PageIds /\ pageSlot[Victim] = Slot /\ Cached(Victim)
        /\ disk' \in FailedWrite(Victim, FrameOf(Victim).data)
        /\ UNCHANGED <<pages, pageSlot>>
    BY <1>7, Acquired, EvictedFlushed DEF EvictionFails, SavesVictim, FrameOf
  <2>2. PICK F \in SUBSET {Victim} : disk' = Cache!Flushed(F)
    BY <2>1, FailedWriteFlushes
  <2>3. Cache!Flush(F)
    BY <2>1, <2>2, InPlace
  <2> QED BY <2>1, <2>3, FlushMapped
<1>8. CASE RestoreAvailableSlot
  <2>1. Evicts /\ CanAcquire /\ disk' = DiskAcquired /\ pageSlot' = PageSlotRestored
    BY <1>8 DEF RestoreAvailableSlot
  <2>2. pageSlot' = pageSlot
    BY <2>1, Acquired, AcquiredTable DEF PageSlotRestored, PageSlotAcquired, Inv, TypeOK
  <2>3. \A s \in Slots : pages'[s].data = pages[s].data
    BY <1>0, <1>8, Acquired DEF RestoreAvailableSlot, Frame
  <2>4. Cache!Flush(Evicted) /\ Evicted \in SUBSET PageIds
    BY <2>1, <2>2, <2>3, EvictedFlushed, InPlace DEF Evicted
  <2> QED BY <2>4, FlushMapped
<1>9. CASE SaveAll
  <2>1. PoolSize \in Nat /\ pageSlot' = pageSlot /\ disk' = Saved(PoolSize)
    BY <1>9, BufferPoolAssumption DEF SaveAll
  <2>2. \A s \in Slots : pages'[s].data = pages[s].data
    BY <1>0, <1>9 DEF SaveAll, Frame
  <2>3. Cache!Flush(SavedPages(PoolSize)) /\ SavedPages(PoolSize) \in SUBSET PageIds
    BY <2>1, <2>2, SavedFlushed, InPlace
  <2> QED BY <2>3, FlushMapped
<1>10. CASE SaveAllStops
  <2>1. PICK m \in Nat : disk' = Saved(m)
    BY <1>10 DEF SaveAllStops, StoppedAt, Slots
  <2>2. pageSlot' = pageSlot /\ \A s \in Slots : pages'[s].data = pages[s].data
    BY <1>0, <1>10 DEF SaveAllStops, Frame
  <2>3. Cache!Flush(SavedPages(m)) /\ SavedPages(m) \in SUBSET PageIds
    BY <2>1, <2>2, SavedFlushed, InPlace
  <2> QED BY <2>3, FlushMapped
<1>11. CASE Restart
  BY <1>11, RestartMapped
<1>12. CASE UNCHANGED vars
  BY <1>12 DEF vars, pool, Mapped, Cache!cachedVars, View, Cached, FrameOf
<1> QED BY <1>1, <1>2, <1>3, <1>4, <1>5, <1>6, <1>7, <1>8, <1>9, <1>10, <1>11, <1>12 DEF Next

LEMMA InitMapped == Init => Cache!CachedInit
<1> SUFFICES ASSUME Init PROVE Cache!CachedInit
  OBVIOUS
<1>1. \A p \in PageIds : ~Cached(p)
  BY DEF Init, NothingCached, Cached
<1>2. disk = [p \in PageIds |-> Absent]
  BY DEF Init, Disk!StoreInit
<1> QED BY <1>1, <1>2 DEF View, Cache!CachedInit

(***************************************************************************)
(* BufferPoolManager shows its clients one store of pages, whatever it     *)
(* evicts, reloads, fails to write or loses in a restart: for every pool   *)
(* size and every set of pages.                                            *)
(***************************************************************************)
THEOREM PoolIsCachedStore == Spec => IsCachedStore
<1>1. Inv /\ [Next]_vars => [Cache!CachedNext]_(Cache!cachedVars)
  BY StepMapped DEF Mapped
<1> QED BY <1>1, InitMapped, InvAlways, PTL DEF Spec, IsCachedStore, Cache!CachedSpec
=============================================================================
