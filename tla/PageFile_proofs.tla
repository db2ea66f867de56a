---------------------------- MODULE PageFile_proofs ----------------------------
(***************************************************************************)
(* Proofs about the page file for every number of pages and every set of   *)
(* images.                                                                 *)
(*                                                                         *)
(* The first part holds under all faults and crashes: the state keeps its  *)
(* types and the file covers the pages that are counted.  FileCoversPages  *)
(* is not inductive: an undone operation writes old bytes back, and a      *)
(* restart believes whatever header it finds.  CoverInv adds that every    *)
(* header image, in the file or remembered by the operation in progress,   *)
(* counts pages that are there.                                            *)
(***************************************************************************)
EXTENDS PageFile, TLAPS

CoversIn(f, n) == \A q \in 0 .. n - 1 : f[q].kind # "none"

HeaderOK(f, c) == c.kind = "header" => 1 <= c.next /\ CoversIn(f, c.next)

FileOK(f) == /\ f \in [PageIds -> Image]
             /\ \A p \in PageIds : HeaderOK(f, f[p])

OpOK == /\ op.name \in {"reuse", "extend", "free"} => open_
        /\ op.name \in {"reuse", "free"} => op.before.kind # "none"
        /\ op.name = "extend" => pageCount_ >= 2
        /\ op.name = "free" => freePageCount_ >= 1
        /\ op.name = "create" => pageCount_ = 1

CoverInv == /\ TypeOK
            /\ FileOK(file)
            /\ HeaderOK(file, op.before)
            /\ open_ => CoversIn(file, pageCount_)
            /\ OpOK

LEMMA CoversFewer ==
  ASSUME NEW f, NEW m \in Nat, NEW n \in Nat, n <= m, CoversIn(f, m)
  PROVE  CoversIn(f, n)
BY DEF CoversIn

LEMMA Limit == InvalidPageId \in Nat \ {0} /\ PageIds = 0 .. InvalidPageId - 1 /\ 0 \in PageIds
BY PageFileAssumption DEF PageIds

(***************************************************************************)
(* The images the manager writes are page images.                          *)
(***************************************************************************)
LEMMA PlainImages ==
  /\ NoPage \in Image /\ BlankPage \in Image
  /\ \A n \in 0 .. InvalidPageId : FreePage(n) \in Image
  /\ \A d \in Data : UsedPage(d) \in Image
BY Limit DEF Image, NoPage, BlankPage, FreePage, UsedPage, Plain

LEMMA Operations ==
  /\ None \in Operation
  /\ [None EXCEPT !.name = "create"] \in Operation
  /\ \A n \in {"reuse", "extend", "free"}, p \in PageIds, c \in Image :
       [name |-> n, page |-> p, before |-> c] \in Operation
BY PlainImages, Limit DEF Operation, None

LEMMA OperationParts ==
  ASSUME NEW o \in Operation
  PROVE  o.page \in PageIds /\ o.before \in Image
BY DEF Operation

LEMMA HeaderImage ==
  ASSUME TypeOK
  PROVE  MemoryHeader \in Image /\ MemoryHeader.next = pageCount_
BY Limit DEF TypeOK, Image, MemoryHeader, Header

LEMMA Kinds ==
  /\ NoPage.kind = "none"
  /\ BlankPage.kind = "blank"
  /\ \A n : FreePage(n).kind = "free"
  /\ \A d : UsedPage(d).kind = "used"
  /\ MemoryHeader.kind = "header"
BY DEF NoPage, BlankPage, FreePage, UsedPage, Plain, MemoryHeader, Header

(***************************************************************************)
(* A write that fails leaves the file as it was or as it should be; an     *)
(* undoing write restores the page or leaves it.                           *)
(***************************************************************************)
LEMMA FailedWrite ==
  ASSUME NEW f, NEW p, NEW c, NEW g \in Failed(f, p, c)
  PROVE  g = f \/ g = Written(f, p, c)
BY DEF Failed

LEMMA FailedUndo ==
  ASSUME NEW f, NEW g \in RolledBack(f)
  PROVE  g = f \/ g = Written(f, op.page, op.before)
BY DEF RolledBack

(***************************************************************************)
(* Writing a page that is there makes no page disappear, so that headers   *)
(* still count pages that are there.                                       *)
(***************************************************************************)
Kept(f, g) == /\ FileOK(g)
              /\ \A n \in 0 .. InvalidPageId : CoversIn(f, n) => CoversIn(g, n)
              /\ \A d \in Image : HeaderOK(f, d) => HeaderOK(g, d)

LEMMA WriteKeeps ==
  ASSUME NEW f, FileOK(f),
         NEW p \in PageIds, NEW c \in Image, c.kind # "none",
         HeaderOK(Written(f, p, c), c)
  PROVE  Kept(f, Written(f, p, c))
<1> DEFINE g == Written(f, p, c)
<1>1. /\ g \in [PageIds -> Image]
      /\ \A q \in PageIds : g[q] = IF q = p THEN c ELSE f[q]
  BY DEF FileOK, Written
<1>2. \A n \in 0 .. InvalidPageId : CoversIn(f, n) => CoversIn(g, n)
  BY <1>1, Limit DEF CoversIn
<1>3. \A d \in Image : HeaderOK(f, d) => HeaderOK(g, d)
  BY <1>2 DEF HeaderOK, Image
<1> HIDE DEF g
<1>4. \A q \in PageIds : HeaderOK(g, g[q])
  <2> TAKE q \in PageIds
  <2>1. CASE q = p
    BY <1>1, <2>1 DEF g
  <2>2. CASE q # p
    BY <1>1, <1>3, <2>2 DEF FileOK
  <2> QED BY <2>1, <2>2
<1> QED BY <1>1, <1>2, <1>3, <1>4 DEF FileOK, Kept, g

LEMMA KeptTwice ==
  ASSUME NEW f, NEW g, NEW h, Kept(f, g), Kept(g, h)
  PROVE  Kept(f, h)
BY DEF Kept

LEMMA FailedKeeps ==
  ASSUME NEW f, FileOK(f),
         NEW p \in PageIds, NEW c \in Image, c.kind # "none",
         HeaderOK(Written(f, p, c), c),
         NEW g \in Failed(f, p, c)
  PROVE  Kept(f, g)
<1>1. Kept(f, f) BY DEF Kept
<1> QED BY <1>1, FailedWrite, WriteKeeps

(***************************************************************************)
(* The header that is written counts pages of the file.                    *)
(***************************************************************************)
LEMMA HeaderWrite ==
  ASSUME TypeOK, FileOK(file), CoversIn(file, pageCount_) \/ pageCount_ = 1,
         NEW g, g = Written(file, HeaderId, MemoryHeader) \/ g \in Failed(file, HeaderId, MemoryHeader)
  PROVE  /\ Kept(file, g)
         /\ g = Written(file, HeaderId, MemoryHeader) => CoversIn(g, pageCount_)
<1> DEFINE w == Written(file, HeaderId, MemoryHeader)
<1>1. /\ MemoryHeader \in Image /\ MemoryHeader.kind = "header"
      /\ MemoryHeader.next = pageCount_ /\ pageCount_ \in 1 .. InvalidPageId
  BY HeaderImage, Kinds DEF TypeOK
<1>2. /\ \A q \in PageIds : w[q] = IF q = HeaderId THEN MemoryHeader ELSE file[q]
      /\ HeaderId \in PageIds
  BY Limit DEF Written, HeaderId, FileOK
<1>3. CoversIn(w, pageCount_)
  BY <1>1, <1>2, Limit DEF CoversIn, HeaderId
<1>4. HeaderOK(w, MemoryHeader)
  BY <1>1, <1>3 DEF HeaderOK
<1>5. CASE g = w
  BY <1>1, <1>2, <1>3, <1>4, <1>5, WriteKeeps
<1>6. CASE g \in Failed(file, HeaderId, MemoryHeader)
  BY <1>1, <1>2, <1>3, <1>4, <1>6, FailedKeeps
<1> QED BY <1>5, <1>6

(***************************************************************************)
(* What a step of CoverInv has to show of a state whose file was kept.     *)
(***************************************************************************)
LEMMA CoverStep ==
  ASSUME CoverInv, TypeOK', Kept(file, file'), OpOK',
         op'.before = op.before \/ op'.before \in {file[p] : p \in PageIds} \/ op' = None,
         open_' => CoversIn(file', pageCount_')
  PROVE  CoverInv'
<1>1. HeaderOK(file', op'.before)
  <2>1. op.before \in Image /\ \A p \in PageIds : file[p] \in Image
    BY OperationParts DEF CoverInv, TypeOK
  <2>2. CASE op' = None
    BY <2>2 DEF None, HeaderOK, NoPage, Plain
  <2>3. CASE op'.before = op.before
    BY <2>1, <2>3 DEF CoverInv, Kept
  <2>4. CASE op'.before \in {file[p] : p \in PageIds}
    BY <2>1, <2>4 DEF CoverInv, Kept, FileOK
  <2> QED BY <2>2, <2>3, <2>4
<1> QED BY <1>1 DEF CoverInv, Kept

(***************************************************************************)
(* The file of a step that writes image c, which is no header, to a page   *)
(* that is there or new.                                                   *)
(***************************************************************************)
LEMMA PlainWrite ==
  ASSUME CoverInv, NEW p \in PageIds, NEW c \in Image, c.kind \in {"blank", "free", "used"},
         NEW g, g = Written(file, p, c) \/ g \in Failed(file, p, c)
  PROVE  Kept(file, g) /\ g \in [PageIds -> Image]
<1>1. HeaderOK(Written(file, p, c), c) /\ c.kind # "none"
  BY DEF HeaderOK
<1>2. Kept(file, g)
  BY <1>1, WriteKeeps, FailedKeeps DEF CoverInv
<1> QED BY <1>2 DEF Kept, FileOK

LEMMA CoverInit == Init => CoverInv
<1> SUFFICES ASSUME Init PROVE CoverInv
  OBVIOUS
<1>1. op = [name |-> "create", page |-> 0, before |-> NoPage]
  BY DEF Init, None
<1>2. TypeOK
  <2>1. file \in [PageIds -> Image]
    BY PlainImages DEF Init
  <2>2. op \in Operation
    BY Operations DEF Init
  <2>3. 1 \in 1 .. InvalidPageId /\ InvalidPageId \in 0 .. InvalidPageId
    BY Limit
  <2>4. held \subseteq PageIds /\ open_ \in BOOLEAN
    BY DEF Init
  <2> QED BY <2>1, <2>2, <2>3, <2>4 DEF Init, TypeOK
<1>3. FileOK(file) /\ HeaderOK(file, op.before)
  BY <1>1, Kinds, PlainImages DEF Init, FileOK, HeaderOK
<1> QED BY <1>1, <1>2, <1>3 DEF Init, CoverInv, OpOK

LEMMA CoverLoadHeader ==
  ASSUME CoverInv, LoadHeader, held' \subseteq PageIds
  PROVE  CoverInv'
<1>1. file' = file /\ op' = None
  BY DEF LoadHeader
<1>2. CASE file[HeaderId].kind = "header"
  <2>1. open_' /\ pageCount_' = file[HeaderId].next /\ firstFreePageId_' = file[HeaderId].first
        /\ freePageCount_' = file[HeaderId].count
    BY <1>2 DEF LoadHeader, FirstFreeOnDisk
  <2>2. file[HeaderId] \in Image /\ HeaderOK(file, file[HeaderId])
    BY Limit DEF CoverInv, FileOK, HeaderId
  <2>3. open_' \in BOOLEAN
    BY DEF LoadHeader
  <2>4. TypeOK'
    <3>1. /\ pageCount_' \in 1 .. InvalidPageId
          /\ firstFreePageId_' \in 0 .. InvalidPageId
          /\ freePageCount_' \in Nat
      BY <1>2, <2>1, <2>2, Limit DEF HeaderOK, Image
    <3> QED BY <1>1, <2>3, <3>1, Operations DEF CoverInv, TypeOK
  <2>5. OpOK' /\ CoversIn(file', pageCount_')
    BY <1>1, <1>2, <2>1, <2>2 DEF None, OpOK, HeaderOK
  <2> QED BY <1>1, <2>4, <2>5, CoverStep DEF CoverInv, Kept
<1>3. CASE file[HeaderId].kind # "header"
  <2>1. open_' = FALSE /\ UNCHANGED memory
    BY <1>3 DEF LoadHeader
  <2>2. TypeOK'
    BY <1>1, <2>1, Operations DEF CoverInv, TypeOK, memory
  <2>3. OpOK'
    BY <1>1 DEF None, OpOK
  <2> QED BY <1>1, <2>1, <2>2, <2>3, CoverStep DEF CoverInv, Kept
<1> QED BY <1>2, <1>3

LEMMA CoverFinishCreate ==
  ASSUME CoverInv, FinishCreate
  PROVE  CoverInv'
<1>1. op' = None /\ UNCHANGED <<memory, held>> /\ pageCount_ = 1
  BY DEF FinishCreate, CoverInv, OpOK
<1>2. Kept(file, file') /\ (open_' => CoversIn(file', pageCount_'))
  BY <1>1, HeaderWrite DEF FinishCreate, CoverInv, memory
<1>3. open_' \in BOOLEAN
  BY DEF FinishCreate
<1>4. TypeOK'
  BY <1>1, <1>2, <1>3, Operations DEF CoverInv, TypeOK, Kept, FileOK, memory
<1>5. OpOK'
  BY <1>1 DEF None, OpOK
<1> QED BY <1>1, <1>2, <1>4, <1>5, CoverStep

LEMMA CoverReuseFreePage ==
  ASSUME CoverInv, ReuseFreePage
  PROVE  CoverInv'
<1> DEFINE p == firstFreePageId_
<1>1. /\ p \in PageIds /\ file[p].kind # "none" /\ freePageCount_ > 0 /\ open_ /\ op = None
      /\ UNCHANGED <<pageCount_, open_, held>>
      /\ file[p] \in Image
  BY DEF ReuseFreePage, Idle, CoverInv, TypeOK
<1>2. Kept(file, file') /\ file' \in [PageIds -> Image]
  BY <1>1, PlainWrite, PlainImages, Kinds DEF ReuseFreePage
<1>3. CoversIn(file', pageCount_')
  BY <1>1, <1>2, Limit DEF CoverInv, Kept, TypeOK
<1>4. CASE /\ op' = InProgress("reuse", p)
           /\ firstFreePageId_' = file[p].next
           /\ freePageCount_' = freePageCount_ - 1
  <2>1. op' = [name |-> "reuse", page |-> p, before |-> file[p]]
    BY <1>4 DEF InProgress
  <2>2. TypeOK'
    BY <1>1, <1>2, <1>4, <2>1, Operations DEF CoverInv, TypeOK, Image
  <2>3. OpOK'
    BY <1>1, <2>1 DEF OpOK
  <2> QED BY <1>1, <1>2, <1>3, <2>1, <2>2, <2>3, CoverStep
<1>5. CASE UNCHANGED <<firstFreePageId_, freePageCount_, op>>
  <2>1. TypeOK' /\ OpOK'
    BY <1>1, <1>2, <1>5 DEF CoverInv, TypeOK, OpOK
  <2> QED BY <1>2, <1>3, <1>5, <2>1, CoverStep
<1> QED BY <1>4, <1>5 DEF ReuseFreePage, HeadAfterReuse

(***************************************************************************)
(* A failed header write that is undone.                                   *)
(***************************************************************************)
LEMMA Undone ==
  ASSUME CoverInv, op.name \in {"reuse", "free"},
         NEW f \in Failed(file, HeaderId, MemoryHeader), NEW g \in RolledBack(f)
  PROVE  Kept(file, g)
<1>1. op.before \in Image /\ op.page \in PageIds /\ op.before.kind # "none"
      /\ HeaderOK(file, op.before) /\ open_
  BY OperationParts DEF CoverInv, TypeOK, OpOK
<1>2. Kept(file, f)
  BY <1>1, HeaderWrite DEF CoverInv
<1>3. HeaderOK(f, op.before) /\ FileOK(f)
  BY <1>1, <1>2 DEF Kept
<1>4. HeaderOK(Written(f, op.page, op.before), op.before)
  <2> DEFINE w == Written(f, op.page, op.before)
  <2>1. \A q \in PageIds : w[q] = IF q = op.page THEN op.before ELSE f[q]
    BY <1>1, <1>3 DEF Written, FileOK
  <2> HIDE DEF w
  <2> QED BY <1>1, <1>3, <2>1, Limit DEF HeaderOK, CoversIn, Image, w
<1>5. Kept(f, g)
  <2>1. Kept(f, f)
    BY <1>3 DEF Kept
  <2> QED BY <1>1, <1>3, <1>4, <2>1, FailedUndo, WriteKeeps
<1> QED BY <1>2, <1>5, KeptTwice

LEMMA CoverFinishReuse ==
  ASSUME CoverInv, FinishReuse
  PROVE  CoverInv'
<1>1. op.name = "reuse" /\ op' = None /\ open_' = open_ /\ pageCount_' = pageCount_ /\ open_
  BY DEF FinishReuse, CoverInv, OpOK, memory
<1>2. Kept(file, file')
  BY <1>1, HeaderWrite, Undone DEF FinishReuse, CoverInv
<1>3. CoversIn(file', pageCount_')
  BY <1>1, <1>2 DEF CoverInv, TypeOK, Kept
<1>4. /\ firstFreePageId_' \in 0 .. InvalidPageId
      /\ freePageCount_' \in Nat
      /\ held' \subseteq PageIds
  <2>1. op.page \in PageIds /\ op.page \in 0 .. InvalidPageId
    BY OperationParts, Limit DEF CoverInv, TypeOK
  <2> QED BY <2>1 DEF FinishReuse, HeadBeforeReuse, CoverInv, TypeOK, memory
<1>5. TypeOK'
  BY <1>1, <1>2, <1>4, Operations DEF CoverInv, TypeOK, Kept, FileOK
<1>6. OpOK'
  BY <1>1 DEF None, OpOK
<1> QED BY <1>1, <1>2, <1>3, <1>5, <1>6, CoverStep

LEMMA CoverExtendFile ==
  ASSUME CoverInv, ExtendFile
  PROVE  CoverInv'
<1>1. /\ pageCount_ \in PageIds /\ pageCount_ \in 1 .. InvalidPageId - 1
      /\ open_ /\ op = None
      /\ UNCHANGED <<firstFreePageId_, freePageCount_, open_, held>>
      /\ file[pageCount_] \in Image /\ CoversIn(file, pageCount_)
  BY Limit DEF ExtendFile, Idle, CoverInv, TypeOK
<1>2. Kept(file, file') /\ file' \in [PageIds -> Image]
  BY <1>1, PlainWrite, PlainImages, Kinds DEF ExtendFile, ExtensionPage
<1>3. CASE /\ file' = Written(file, pageCount_, BlankPage)
           /\ pageCount_' = pageCount_ + 1
           /\ op' = InProgress("extend", pageCount_)
  <2>1. op' = [name |-> "extend", page |-> pageCount_, before |-> file[pageCount_]]
    BY <1>3 DEF InProgress
  <2>2. \A q \in PageIds : file'[q] = IF q = pageCount_ THEN BlankPage ELSE file[q]
    BY <1>1, <1>3 DEF Written, CoverInv, TypeOK
  <2>3. CoversIn(file', pageCount_')
    BY <1>1, <1>3, <2>2, Kinds, Limit DEF CoversIn
  <2>4. TypeOK'
    BY <1>1, <1>2, <1>3, <2>1, Operations, Limit DEF CoverInv, TypeOK
  <2>5. OpOK'
    BY <1>1, <1>3, <2>1 DEF OpOK
  <2> QED BY <1>1, <1>2, <2>1, <2>3, <2>4, <2>5, CoverStep
<1>4. CASE UNCHANGED <<pageCount_, op>>
  <2>1. TypeOK' /\ OpOK'
    <3>1. TypeOK'
      BY <1>1, <1>2, <1>4 DEF CoverInv, TypeOK
    <3>2. OpOK'
      BY <1>1, <1>4 DEF None, OpOK
    <3> QED BY <3>1, <3>2
  <2>2. CoversIn(file', pageCount_')
    <3>1. pageCount_ \in 0 .. InvalidPageId
      BY <1>1, Limit
    <3> QED BY <1>1, <1>2, <1>4, <3>1 DEF Kept
  <2> QED BY <1>2, <1>4, <2>1, <2>2, CoverStep
<1> QED BY <1>3, <1>4 DEF ExtendFile, ExtensionPage

LEMMA CoverFinishExtend ==
  ASSUME CoverInv, FinishExtend
  PROVE  CoverInv'
<1>1. /\ op.name = "extend" /\ op' = None /\ open_ /\ pageCount_ \in 2 .. InvalidPageId
      /\ UNCHANGED <<firstFreePageId_, freePageCount_, open_>>
  BY DEF FinishExtend, CoverInv, OpOK, TypeOK
<1>2. Kept(file, file')
  BY <1>1, HeaderWrite DEF FinishExtend, CoverInv
<1>3. CoversIn(file', pageCount_)
  BY <1>1, <1>2 DEF CoverInv, Kept
<1>4. pageCount_' \in 1 .. pageCount_ /\ held' \subseteq PageIds
  <2>1. op.page \in PageIds /\ held \subseteq PageIds
    BY OperationParts DEF CoverInv, TypeOK
  <2>2. pageCount_' = pageCount_ \/ pageCount_' = pageCount_ - 1
    BY DEF FinishExtend, CountBeforeExtend
  <2>3. held' = held \/ held' = held \cup {op.page}
    BY DEF FinishExtend
  <2> QED BY <1>1, <2>1, <2>2, <2>3
<1>5. CoversIn(file', pageCount_')
  <2>1. pageCount_ \in Nat /\ pageCount_' \in Nat /\ pageCount_' <= pageCount_
    BY <1>1, <1>4, Limit
  <2> QED BY <1>3, <2>1, CoversFewer
<1>6. TypeOK'
  BY <1>1, <1>2, <1>4, Operations, Limit DEF CoverInv, TypeOK, Kept, FileOK
<1>7. OpOK'
  BY <1>1 DEF None, OpOK
<1> QED BY <1>1, <1>2, <1>5, <1>6, <1>7, CoverStep

LEMMA CoverReleasePage ==
  ASSUME CoverInv, NEW p \in PageIds, ReleasePage(p)
  PROVE  CoverInv'
<1>1. /\ file[p].kind # "none" /\ file[p] \in Image /\ open_ /\ op = None
      /\ UNCHANGED <<pageCount_, open_, held>>
      /\ p \in 0 .. InvalidPageId
      /\ firstFreePageId_ \in 0 .. InvalidPageId
  BY Limit DEF ReleasePage, Exists, Idle, CoverInv, TypeOK
<1>2. Kept(file, file') /\ file' \in [PageIds -> Image]
  BY <1>1, PlainWrite, PlainImages, Kinds DEF ReleasePage
<1>3. CoversIn(file', pageCount_')
  BY <1>1, <1>2, Limit DEF CoverInv, Kept, TypeOK
<1>4. CASE /\ firstFreePageId_' = p
           /\ freePageCount_' = freePageCount_ + 1
           /\ op' = InProgress("free", p)
  <2>1. op' = [name |-> "free", page |-> p, before |-> file[p]]
    BY <1>4 DEF InProgress
  <2>2. TypeOK'
    BY <1>1, <1>2, <1>4, <2>1, Operations DEF CoverInv, TypeOK
  <2>3. OpOK'
    BY <1>1, <1>4, <2>1 DEF OpOK, CoverInv, TypeOK
  <2> QED BY <1>1, <1>2, <1>3, <2>1, <2>2, <2>3, CoverStep
<1>5. CASE UNCHANGED <<firstFreePageId_, freePageCount_, op>>
  <2>1. TypeOK' /\ OpOK'
    BY <1>1, <1>2, <1>5 DEF CoverInv, TypeOK, OpOK
  <2> QED BY <1>2, <1>3, <1>5, <2>1, CoverStep
<1> QED BY <1>4, <1>5 DEF ReleasePage

LEMMA CoverFinishRelease ==
  ASSUME CoverInv, FinishRelease
  PROVE  CoverInv'
<1>1. op.name = "free" /\ op' = None /\ open_' = open_ /\ pageCount_' = pageCount_ /\ open_
  BY DEF FinishRelease, CoverInv, OpOK, memory
<1>2. Kept(file, file')
  BY <1>1, HeaderWrite, Undone DEF FinishRelease, CoverInv
<1>3. CoversIn(file', pageCount_')
  BY <1>1, <1>2 DEF CoverInv, TypeOK, Kept
<1>4. file[op.page].next \in 0 .. InvalidPageId /\ freePageCount_ \in Nat /\ freePageCount_ >= 1
  BY <1>1 DEF CoverInv, TypeOK, OpOK, Operation, Image
<1>5. /\ firstFreePageId_' \in 0 .. InvalidPageId
      /\ freePageCount_' \in Nat
      /\ held' \subseteq PageIds
  BY <1>1, <1>4 DEF FinishRelease, HeadBeforeRelease, CoverInv, TypeOK, memory
<1>6. TypeOK'
  BY <1>1, <1>2, <1>5, Operations DEF CoverInv, TypeOK, Kept, FileOK
<1>7. OpOK'
  BY <1>1 DEF None, OpOK
<1> QED BY <1>1, <1>2, <1>3, <1>6, <1>7, CoverStep

LEMMA CoverWritePage ==
  ASSUME CoverInv, NEW p \in PageIds, NEW d \in Data, WritePage(p, d)
  PROVE  CoverInv'
<1>1. UNCHANGED <<memory, open_, op, held>>
  BY DEF WritePage
<1>2. Kept(file, file') /\ file' \in [PageIds -> Image]
  BY PlainWrite, PlainImages, Kinds DEF WritePage
<1>3. TypeOK' /\ OpOK'
  BY <1>1, <1>2 DEF CoverInv, TypeOK, OpOK, memory
<1>4. open_' => CoversIn(file', pageCount_')
  BY <1>1, <1>2 DEF CoverInv, Kept, TypeOK, memory
<1> QED BY <1>1, <1>2, <1>3, <1>4, CoverStep

LEMMA CoverNext == CoverInv /\ [Next]_vars => CoverInv'
<1> SUFFICES ASSUME CoverInv, [Next]_vars PROVE CoverInv'
  OBVIOUS
<1>1. CASE FinishCreate
  BY <1>1, CoverFinishCreate
<1>2. CASE Reopen
  BY <1>2, CoverLoadHeader DEF Reopen, CoverInv, TypeOK
<1>3. CASE Crash
  BY <1>3, CoverLoadHeader DEF Crash, CoverInv, TypeOK
<1>4. CASE ReuseFreePage
  BY <1>4, CoverReuseFreePage
<1>5. CASE FinishReuse
  BY <1>5, CoverFinishReuse
<1>6. CASE ExtendFile
  BY <1>6, CoverExtendFile
<1>7. CASE FinishExtend
  BY <1>7, CoverFinishExtend
<1>8. CASE \E p \in PageIds : ReleasePage(p)
  BY <1>8, CoverReleasePage
<1>9. CASE FinishRelease
  BY <1>9, CoverFinishRelease
<1>10. CASE \E p \in PageIds, d \in Data : WritePage(p, d)
  BY <1>10, CoverWritePage
<1>11. CASE UNCHANGED vars
  BY <1>11 DEF vars, memory, CoverInv, TypeOK, OpOK, FileOK, HeaderOK, CoversIn
<1> QED BY <1>1, <1>2, <1>3, <1>4, <1>5, <1>6, <1>7, <1>8, <1>9, <1>10, <1>11 DEF Next

LEMMA CoverAlways == Spec => []CoverInv
BY CoverInit, CoverNext, PTL DEF Spec

(***************************************************************************)
(* The state keeps its types: in particular the page count is never zero   *)
(* and never exceeds the limit, whatever write fails and wherever the      *)
(* process dies.                                                           *)
(***************************************************************************)
THEOREM TypeAlwaysOK == Spec => []TypeOK
<1>1. CoverInv => TypeOK BY DEF CoverInv
<1> QED BY <1>1, CoverAlways, PTL

(***************************************************************************)
(* Every page that the manager or the header on disk counts is in the      *)
(* file, whatever write fails and wherever the process dies.               *)
(***************************************************************************)
THEOREM FileAlwaysCovers == Spec => []FileCoversPages
<1>1. CoverInv => FileCoversPages
  BY Limit DEF CoverInv, FileCoversPages, Covers, CoversIn, FileOK, HeaderOK, HeaderId
<1> QED BY <1>1, CoverAlways, PTL
-----------------------------------------------------------------------------
(***************************************************************************)
(* Proofs about the free list and about who holds which page, for every    *)
(* number of pages, when a write that fails leaves the file as it was and  *)
(* the process does not die within an operation.  (The run                 *)
(* PageFileTornList shows what becomes of the list otherwise.)  The last   *)
(* part allows all faults and crashes, and no releases.                    *)
(*                                                                         *)
(* Each of the four changes of the list, two operations and their undoing, *)
(* pushes or pops its head, and every other write is to a page that is not *)
(* in the list.  The invariant adds what an operation in progress has      *)
(* remembered, so that undoing a push is a pop of the same page.           *)
(***************************************************************************)

CleanFaults == WriteFaults \subseteq {"lost"} /\ CrashMidOperation = FALSE

FreeOf(f) == {p \in PageIds : f[p].kind = "free"}

Lists(f, first, s, n) ==
  /\ \A i \in 1 .. n : f[s[i]] = FreePage(IF i = 1 THEN InvalidPageId ELSE s[i - 1])
  /\ \A i, j \in 1 .. n : s[i] = s[j] => i = j
  /\ FreeOf(f) = {s[i] : i \in 1 .. n}
  /\ first = IF n = 0 THEN InvalidPageId ELSE s[n]

FreeList(f, first, n) == \E s \in [1 .. n -> Allocatable] : Lists(f, first, s, n)

LEMMA ListDefinition == FreeListOK <=> FreeList(file, firstFreePageId_, freePageCount_)
BY DEF FreeListOK, FreeList, ListsFreePages, Lists, FreePages, FreeOf

LEMMA AllocatableFacts == Allocatable \subseteq PageIds /\ HeaderId \notin Allocatable
BY Limit DEF Allocatable, HeaderId

(***************************************************************************)
(* The head of the list, and the list that is empty.                       *)
(***************************************************************************)
LEMMA Head ==
  ASSUME NEW f, NEW first, NEW n \in Nat \ {0}, FreeList(f, first, n)
  PROVE  first \in Allocatable /\ f[first].kind = "free" /\ f[first] = FreePage(f[first].next)
<1>1. PICK s \in [1 .. n -> Allocatable] : Lists(f, first, s, n)
  BY DEF FreeList
<1>2. first = s[n] /\ n \in 1 .. n
  BY <1>1 DEF Lists
<1>3. f[first] = FreePage(IF n = 1 THEN InvalidPageId ELSE s[n - 1])
  BY <1>1, <1>2 DEF Lists
<1> QED BY <1>2, <1>3 DEF FreePage, Plain

LEMMA EmptyList ==
  ASSUME NEW f, NEW first, FreeList(f, first, 0)
  PROVE  FreeOf(f) = {} /\ first = InvalidPageId
BY DEF FreeList, Lists

LEMMA Push ==
  ASSUME NEW f \in [PageIds -> Image], NEW first, NEW n \in Nat, FreeList(f, first, n),
         NEW p \in Allocatable, f[p].kind # "free"
  PROVE  FreeList(Written(f, p, FreePage(first)), p, n + 1)
<1> DEFINE g == Written(f, p, FreePage(first))
<1>1. PICK s \in [1 .. n -> Allocatable] : Lists(f, first, s, n)
  BY DEF FreeList
<1> DEFINE t == [i \in 1 .. n + 1 |-> IF i = n + 1 THEN p ELSE s[i]]
<1>2. \A q \in PageIds : g[q] = IF q = p THEN FreePage(first) ELSE f[q]
  BY AllocatableFacts DEF Written
<1>3. \A i \in 1 .. n : s[i] \in PageIds /\ s[i] # p
  BY <1>1, AllocatableFacts DEF Lists, FreeOf
<1>4. /\ t \in [1 .. n + 1 -> Allocatable]
      /\ t[n + 1] = p
      /\ \A i \in 1 .. n : t[i] = s[i]
      /\ \A i \in 1 .. n + 1 : i \in 1 .. n \/ i = n + 1
  OBVIOUS
<1> HIDE DEF g, t
<1>5. \A i \in 1 .. n + 1 : g[t[i]] = FreePage(IF i = 1 THEN InvalidPageId ELSE t[i - 1])
  <2> TAKE i \in 1 .. n + 1
  <2>1. CASE i \in 1 .. n
    <3>1. g[t[i]] = FreePage(IF i = 1 THEN InvalidPageId ELSE s[i - 1])
      BY <1>1, <1>2, <1>3, <1>4, <2>1 DEF Lists
    <3>2. i # 1 => t[i - 1] = s[i - 1]
      BY <1>4, <2>1
    <3> QED BY <3>1, <3>2
  <2>2. CASE i = n + 1
    <3>1. g[t[i]] = FreePage(first)
      BY <1>2, <1>4, <2>2, AllocatableFacts
    <3>2. first = IF i = 1 THEN InvalidPageId ELSE t[i - 1]
      BY <1>1, <1>4, <2>2 DEF Lists
    <3> QED BY <3>1, <3>2
  <2> QED BY <1>4, <2>1, <2>2
<1>6. \A i, j \in 1 .. n + 1 : t[i] = t[j] => i = j
  <2>1. \A i, j \in 1 .. n : s[i] = s[j] => i = j
    BY <1>1 DEF Lists
  <2> QED BY <1>3, <1>4, <2>1
<1>7. FreeOf(g) = {t[i] : i \in 1 .. n + 1}
  <2>1. FreeOf(g) = FreeOf(f) \cup {p}
    BY <1>2, AllocatableFacts, Kinds DEF FreeOf
  <2>2. FreeOf(f) = {s[i] : i \in 1 .. n}
    BY <1>1 DEF Lists
  <2>3. {t[i] : i \in 1 .. n + 1} = {s[i] : i \in 1 .. n} \cup {p}
    BY <1>4
  <2> QED BY <2>1, <2>2, <2>3
<1>8. p = t[n + 1] /\ n + 1 # 0
  BY <1>4
<1>9. Lists(g, p, t, n + 1)
  BY <1>5, <1>6, <1>7, <1>8 DEF Lists
<1> QED BY <1>4, <1>9 DEF FreeList, g

LEMMA Pop ==
  ASSUME NEW f \in [PageIds -> Image], NEW first, NEW n \in Nat \ {0}, FreeList(f, first, n),
         NEW c \in Image, c.kind # "free"
  PROVE  FreeList(Written(f, first, c), f[first].next, n - 1)
<1> DEFINE g == Written(f, first, c)
           m == n - 1
<1>1. PICK s \in [1 .. n -> Allocatable] : Lists(f, first, s, n)
  BY DEF FreeList
<1> DEFINE t == [i \in 1 .. m |-> s[i]]
<1>2. \A q \in PageIds : g[q] = IF q = first THEN c ELSE f[q]
  BY DEF Written
<1>3. first = s[n] /\ first \in Allocatable /\ first \in PageIds
  BY <1>1, AllocatableFacts DEF Lists
<1>4. /\ m \in Nat /\ n = m + 1
      /\ t \in [1 .. m -> Allocatable]
      /\ \A i \in 1 .. m : i \in 1 .. n /\ t[i] = s[i] /\ t[i] \in PageIds
      /\ \A i \in 1 .. n : i \in 1 .. m \/ i = n
  BY AllocatableFacts
<1>5. \A i \in 1 .. m : t[i] # first
  BY <1>1, <1>3, <1>4 DEF Lists
<1> HIDE DEF g, t, m
<1>6. \A i \in 1 .. m : g[t[i]] = FreePage(IF i = 1 THEN InvalidPageId ELSE t[i - 1])
  <2> TAKE i \in 1 .. m
  <2>1. g[t[i]] = FreePage(IF i = 1 THEN InvalidPageId ELSE s[i - 1])
    BY <1>1, <1>2, <1>4, <1>5 DEF Lists
  <2>2. i # 1 => t[i - 1] = s[i - 1]
    BY <1>4
  <2> QED BY <2>1, <2>2
<1>7. \A i, j \in 1 .. m : t[i] = t[j] => i = j
  BY <1>1, <1>4 DEF Lists
<1>8. FreeOf(g) = {t[i] : i \in 1 .. m}
  <2>1. FreeOf(g) = FreeOf(f) \ {first}
    BY <1>2, <1>3 DEF FreeOf
  <2>2. FreeOf(f) = {s[i] : i \in 1 .. n}
    BY <1>1 DEF Lists
  <2>3. {s[i] : i \in 1 .. n} = {t[i] : i \in 1 .. m} \cup {first}
    BY <1>3, <1>4
  <2> QED BY <1>5, <2>1, <2>2, <2>3
<1>9. f[first].next = IF m = 0 THEN InvalidPageId ELSE t[m]
  <2>1. f[first] = FreePage(IF n = 1 THEN InvalidPageId ELSE s[n - 1])
    BY <1>1, <1>3, <1>4 DEF Lists
  <2>2. m # 0 => s[n - 1] = t[m] /\ n # 1
    BY <1>4
  <2> QED BY <1>4, <2>1, <2>2 DEF FreePage, Plain
<1>10. Lists(g, f[first].next, t, m)
  BY <1>6, <1>7, <1>8, <1>9 DEF Lists
<1> QED BY <1>4, <1>10 DEF FreeList, g, m

(***************************************************************************)
(* A write that neither takes a page from the list nor marks one free.     *)
(***************************************************************************)
LEMMA Aside ==
  ASSUME NEW f \in [PageIds -> Image], NEW first, NEW n \in Nat, FreeList(f, first, n),
         NEW p \in PageIds, f[p].kind # "free", NEW c \in Image, c.kind # "free"
  PROVE  FreeList(Written(f, p, c), first, n)
<1> DEFINE g == Written(f, p, c)
<1>1. PICK s \in [1 .. n -> Allocatable] : Lists(f, first, s, n)
  BY DEF FreeList
<1>2. \A q \in PageIds : g[q] = IF q = p THEN c ELSE f[q]
  BY DEF Written
<1> HIDE DEF g
<1>3. \A i \in 1 .. n : g[s[i]] = f[s[i]]
  BY <1>1, <1>2, AllocatableFacts DEF Lists, FreeOf
<1>4. FreeOf(g) = FreeOf(f)
  BY <1>2 DEF FreeOf
<1>5. Lists(g, first, s, n)
  BY <1>1, <1>3, <1>4 DEF Lists
<1> QED BY <1>5 DEF FreeList, g
-----------------------------------------------------------------------------
(***************************************************************************)
(* The invariant.  Without an open manager nothing was ever written; with  *)
(* one, the header on disk is the header from before the operation.        *)
(***************************************************************************)
ClosedOK ==
  IF open_ THEN op.name # "create"
  ELSE /\ op.name \in {"none", "create"}
       /\ file = [p \in PageIds |-> NoPage]
       /\ held = {}
       /\ memory = <<1, InvalidPageId, 0>>

DiskHeaderOK ==
  open_ =>
    /\ op.name = "none" => file[HeaderId] = Header(pageCount_, firstFreePageId_, freePageCount_)
    /\ op.name = "reuse" => file[HeaderId] = Header(pageCount_, op.page, freePageCount_ + 1)
    /\ op.name = "extend" => file[HeaderId] = Header(pageCount_ - 1, firstFreePageId_, freePageCount_)
    /\ op.name = "free" => file[HeaderId] = Header(pageCount_, file[op.page].next, freePageCount_ - 1)

Remembered ==
  /\ op.name \in {"reuse", "extend", "free"} => op.page \in Allocatable
  /\ op.name = "reuse" => file[op.page] = BlankPage /\ op.before = FreePage(firstFreePageId_)
  /\ op.name = "extend" => file[op.page] = BlankPage /\ op.page = pageCount_ - 1
  /\ op.name = "free" => /\ file[op.page].kind = "free" /\ op.before.kind # "free"
                         /\ firstFreePageId_ = op.page

Pending == IF op.name \in {"reuse", "extend"} THEN {op.page} ELSE {}
Releasing == IF op.name = "free" THEN {op.page} ELSE {}

Holding ==
  /\ open_ => held \cup FreeOf(file) \cup Pending = 1 .. pageCount_ - 1
  /\ held \cap FreeOf(file) = Releasing
  /\ (held \cup FreeOf(file)) \cap Pending = {}

List == FreeList(file, firstFreePageId_, freePageCount_)

ListInv == CoverInv /\ List /\ ClosedOK /\ DiskHeaderOK /\ Remembered /\ Holding

(***************************************************************************)
(* What the faults that are left can do.                                   *)
(***************************************************************************)
LEMMA CleanFailure ==
  ASSUME CleanFaults, NEW f, NEW p, NEW c, NEW g \in Failed(f, p, c)
  PROVE  g = f
BY DEF Failed, CleanFaults

LEMMA CleanUndo ==
  ASSUME CleanFaults, NEW f, NEW g \in RolledBack(f)
  PROVE  g = Written(f, op.page, op.before)
BY DEF RolledBack, CleanFaults

LEMMA FreeOfWritten ==
  ASSUME NEW f \in [PageIds -> Image], NEW p \in PageIds, NEW c \in Image
  PROVE  /\ \A q \in PageIds : Written(f, p, c)[q] = IF q = p THEN c ELSE f[q]
         /\ c.kind = "free" => FreeOf(Written(f, p, c)) = FreeOf(f) \cup {p}
         /\ c.kind # "free" => FreeOf(Written(f, p, c)) = FreeOf(f) \ {p}
<1>1. \A q \in PageIds : Written(f, p, c)[q] = IF q = p THEN c ELSE f[q]
  BY DEF Written
<1> QED BY <1>1 DEF FreeOf

LEMMA NoOperation ==
  ASSUME op = None
  PROVE  op.name = "none" /\ Pending = {} /\ Releasing = {} /\ Remembered
BY DEF None, Pending, Releasing, Remembered

LEMMA TypeFacts ==
  ASSUME CoverInv
  PROVE  /\ file \in [PageIds -> Image]
         /\ pageCount_ \in Nat /\ pageCount_ >= 1 /\ pageCount_ <= InvalidPageId
         /\ freePageCount_ \in Nat
         /\ op.before \in Image
         /\ MemoryHeader \in Image /\ MemoryHeader.kind = "header"
         /\ BlankPage \in Image /\ BlankPage.kind = "blank"
         /\ HeaderId \in PageIds
BY OperationParts, Limit, PlainImages, HeaderImage, Kinds DEF CoverInv, TypeOK, HeaderId

LEMMA ListInit == Init => ListInv
<1> SUFFICES ASSUME Init PROVE ListInv
  OBVIOUS
<1>1. CoverInv
  BY CoverInit
<1>2. op.name = "create"
  BY DEF Init, None
<1>3. FreeOf(file) = {}
  BY Kinds DEF Init, FreeOf
<1>4. List
  <2>1. Lists(file, firstFreePageId_, [i \in 1 .. 0 |-> 1], 0)
    BY <1>3 DEF Init, Lists
  <2>2. [i \in 1 .. 0 |-> 1] \in [1 .. 0 -> Allocatable]
    OBVIOUS
  <2>3. freePageCount_ = 0
    BY DEF Init
  <2> QED BY <2>1, <2>2, <2>3 DEF List, FreeList
<1>5. ClosedOK /\ DiskHeaderOK /\ Remembered
  BY <1>2 DEF Init, ClosedOK, DiskHeaderOK, Remembered, memory
<1>6. Holding
  BY <1>2, <1>3 DEF Init, Holding, Pending, Releasing
<1> QED BY <1>1, <1>4, <1>5, <1>6 DEF ListInv

LEMMA ListFinishCreate ==
  ASSUME CleanFaults, ListInv, FinishCreate, CoverInv'
  PROVE  ListInv'
<1>1. /\ op.name = "create" /\ ~open_ /\ file = [p \in PageIds |-> NoPage] /\ held = {}
      /\ pageCount_ = 1 /\ firstFreePageId_ = InvalidPageId /\ freePageCount_ = 0
  BY DEF FinishCreate, ListInv, ClosedOK, memory
<1>2. op' = None /\ UNCHANGED <<pageCount_, firstFreePageId_, freePageCount_, held>>
  BY DEF FinishCreate, memory
<1>3. op'.name = "none" /\ Pending' = {} /\ Releasing' = {} /\ Remembered'
  BY <1>2 DEF None, Pending, Releasing, Remembered
<1>4. FreeOf(file) = {} /\ file[HeaderId].kind # "free"
  BY <1>1, TypeFacts, Kinds DEF FreeOf, ListInv
<1>5. CASE file' = Written(file, HeaderId, MemoryHeader) /\ open_' = TRUE
  <2>1. List'
    BY <1>2, <1>4, <1>5, TypeFacts, Aside DEF List, ListInv
  <2>2. FreeOf(file') = {}
    BY <1>4, <1>5, TypeFacts, FreeOfWritten DEF ListInv
  <2>3. file'[HeaderId] = MemoryHeader
    BY <1>5, TypeFacts, FreeOfWritten DEF ListInv
  <2>4. DiskHeaderOK'
    BY <1>2, <1>3, <2>3 DEF DiskHeaderOK, MemoryHeader
  <2>5. Holding'
    BY <1>1, <1>2, <1>3, <2>2 DEF Holding
  <2>6. ClosedOK'
    BY <1>3, <1>5 DEF ClosedOK
  <2> QED BY <1>3, <2>1, <2>4, <2>5, <2>6 DEF ListInv
<1>6. CASE file' \in Failed(file, HeaderId, MemoryHeader) /\ open_' = FALSE
  <2>1. file' = file
    BY <1>6, CleanFailure
  <2>2. List' /\ DiskHeaderOK'
    BY <1>2, <1>6, <2>1 DEF ListInv, List, DiskHeaderOK
  <2>3. ClosedOK'
    BY <1>1, <1>2, <1>3, <1>6, <2>1 DEF ClosedOK, memory
  <2>4. Holding'
    BY <1>1, <1>2, <1>3, <1>4, <1>6, <2>1 DEF Holding
  <2> QED BY <1>3, <2>2, <2>3, <2>4 DEF ListInv
<1> QED BY <1>5, <1>6 DEF FinishCreate

(***************************************************************************)
(* Opening the file again changes nothing.                                 *)
(***************************************************************************)
LEMMA ReopenChangesNothing ==
  ASSUME ListInv, Reopen
  PROVE  UNCHANGED vars
<1>1. op = None /\ op.name = "none" /\ UNCHANGED <<file, op, held>>
  BY DEF Reopen, LoadHeader, None
<1>2. CASE open_
  <2>1. file[HeaderId] = Header(pageCount_, firstFreePageId_, freePageCount_)
    BY <1>1, <1>2 DEF ListInv, DiskHeaderOK
  <2>2. /\ file[HeaderId].kind = "header" /\ file[HeaderId].next = pageCount_
        /\ file[HeaderId].first = firstFreePageId_ /\ file[HeaderId].count = freePageCount_
    BY <2>1 DEF Header
  <2> QED BY <1>1, <1>2, <2>2 DEF Reopen, LoadHeader, FirstFreeOnDisk, ListInv, CoverInv, TypeOK, vars, memory
<1>3. CASE ~open_
  <2>1. file[HeaderId].kind = "none"
    BY <1>3, TypeFacts, Kinds DEF ListInv, ClosedOK
  <2> QED BY <1>1, <1>3, <2>1 DEF Reopen, LoadHeader, ListInv, CoverInv, TypeOK, vars, memory
<1> QED BY <1>2, <1>3 DEF ListInv, CoverInv, TypeOK

LEMMA ListUnchanged ==
  ASSUME ListInv, UNCHANGED vars, CoverInv'
  PROVE  ListInv'
BY DEF vars, memory, ListInv, List, ClosedOK, DiskHeaderOK, Remembered, Holding, Pending, Releasing

(***************************************************************************)
(* A first write that fails leaves everything as it was.                   *)
(***************************************************************************)
LEMMA ListReuseFreePage ==
  ASSUME CleanFaults, ListInv, ReuseFreePage, CoverInv'
  PROVE  ListInv'
<1> DEFINE p == firstFreePageId_
           n == freePageCount_
<1>1. /\ open_ /\ op = None /\ n \in Nat \ {0}
      /\ UNCHANGED <<pageCount_, open_, held>>
  BY TypeFacts DEF ReuseFreePage, Idle, ListInv
<1>2. /\ p \in Allocatable /\ p \in PageIds /\ p # HeaderId
      /\ file[p] = FreePage(file[p].next) /\ file[p].kind = "free"
  BY <1>1, Head, AllocatableFacts DEF ListInv, List
<1>3. CASE /\ file' = Written(file, p, BlankPage)
           /\ firstFreePageId_' = file[p].next
           /\ freePageCount_' = n - 1
           /\ op' = InProgress("reuse", p)
  <2>1. op'.name = "reuse" /\ op'.page = p /\ op'.before = file[p]
    BY <1>3 DEF InProgress
  <2>2. /\ FreeOf(file') = FreeOf(file) \ {p} /\ p \in FreeOf(file)
        /\ file'[p] = BlankPage /\ file'[HeaderId] = file[HeaderId]
    BY <1>2, <1>3, TypeFacts, FreeOfWritten DEF ListInv, FreeOf
  <2>3. List'
    BY <1>1, <1>3, TypeFacts, Pop DEF List, ListInv
  <2>4. ClosedOK'
    BY <1>1, <2>1 DEF ClosedOK
  <2>5. DiskHeaderOK'
    <3>1. file[HeaderId] = Header(pageCount_, p, n)
      BY <1>1, NoOperation DEF ListInv, DiskHeaderOK
    <3>2. n - 1 + 1 = n
      BY <1>1
    <3> QED BY <1>1, <1>3, <2>1, <2>2, <3>1, <3>2 DEF DiskHeaderOK
  <2>6. Remembered'
    BY <1>2, <1>3, <2>1, <2>2 DEF Remembered
  <2>7. Holding'
    <3>1. held \cup FreeOf(file) = 1 .. pageCount_ - 1 /\ held \cap FreeOf(file) = {}
      BY <1>1, NoOperation DEF ListInv, Holding
    <3>2. Pending' = {p} /\ Releasing' = {}
      BY <2>1 DEF Pending, Releasing
    <3>3. held' = held /\ pageCount_' = pageCount_
      BY <1>1
    <3> QED BY <2>2, <3>1, <3>2, <3>3 DEF Holding
  <2> QED BY <2>3, <2>4, <2>5, <2>6, <2>7 DEF ListInv
<1>4. CASE /\ file' \in Failed(file, p, BlankPage)
           /\ UNCHANGED <<firstFreePageId_, freePageCount_, op>>
  BY <1>1, <1>4, CleanFailure, ListUnchanged DEF vars, memory
<1> QED BY <1>3, <1>4 DEF ReuseFreePage, HeadAfterReuse

LEMMA ListFinishReuse ==
  ASSUME CleanFaults, ListInv, FinishReuse, CoverInv'
  PROVE  ListInv'
<1> DEFINE p == op.page
           n == freePageCount_
<1>1. /\ op.name = "reuse" /\ open_ /\ op' = None /\ open_' = open_ /\ pageCount_' = pageCount_
      /\ n \in Nat
  BY TypeFacts DEF FinishReuse, ListInv, CoverInv, OpOK, memory
<1>2. /\ p \in Allocatable /\ p \in PageIds /\ p # HeaderId
      /\ file[p] = BlankPage /\ file[p].kind = "blank" /\ op.before = FreePage(firstFreePageId_)
      /\ op.before.kind = "free"
  BY <1>1, AllocatableFacts, Kinds DEF ListInv, Remembered
<1>3. /\ held \cup FreeOf(file) \cup {p} = 1 .. pageCount_ - 1
      /\ held \cap FreeOf(file) = {} /\ p \notin held \cup FreeOf(file)
  BY <1>1 DEF ListInv, Holding, Pending, Releasing
<1>4. op'.name = "none" /\ Pending' = {} /\ Releasing' = {} /\ Remembered'
  BY <1>1 DEF None, Pending, Releasing, Remembered
<1>5. ClosedOK'
  BY <1>1, <1>4 DEF ClosedOK
<1>6. file[HeaderId] = Header(pageCount_, p, n + 1) /\ file[HeaderId].kind = "header"
  BY <1>1 DEF ListInv, DiskHeaderOK, Header
<1>7. CASE /\ file' = Written(file, HeaderId, MemoryHeader)
           /\ held' = held \cup {p}
           /\ UNCHANGED memory
  <2>1. UNCHANGED <<firstFreePageId_, freePageCount_>>
    BY <1>7 DEF memory
  <2>2. FreeOf(file') = FreeOf(file) /\ file'[HeaderId] = MemoryHeader
    BY <1>6, <1>7, TypeFacts, FreeOfWritten DEF ListInv, FreeOf
  <2>3. List'
    BY <1>1, <1>6, <1>7, <2>1, TypeFacts, Aside DEF List, ListInv
  <2>4. DiskHeaderOK'
    BY <1>1, <1>4, <2>1, <2>2 DEF DiskHeaderOK, MemoryHeader
  <2>5. Holding'
    BY <1>1, <1>3, <1>4, <1>7, <2>2 DEF Holding
  <2> QED BY <1>4, <1>5, <2>3, <2>4, <2>5 DEF ListInv
<1>8. CASE /\ \E f \in Failed(file, HeaderId, MemoryHeader) : file' \in RolledBack(f)
           /\ firstFreePageId_' = p
           /\ freePageCount_' = n + 1
           /\ UNCHANGED <<pageCount_, held>>
  <2>1. file' = Written(file, p, FreePage(firstFreePageId_))
    BY <1>2, <1>8, CleanFailure, CleanUndo
  <2>2. FreeOf(file') = FreeOf(file) \cup {p} /\ file'[HeaderId] = file[HeaderId]
    BY <1>2, <2>1, TypeFacts, FreeOfWritten DEF ListInv
  <2>3. List'
    BY <1>1, <1>2, <1>8, <2>1, TypeFacts, Push DEF List, ListInv
  <2>4. DiskHeaderOK'
    BY <1>1, <1>4, <1>6, <1>8, <2>2 DEF DiskHeaderOK
  <2>5. Holding'
    BY <1>1, <1>3, <1>4, <1>8, <2>2 DEF Holding
  <2> QED BY <1>4, <1>5, <2>3, <2>4, <2>5 DEF ListInv
<1> QED BY <1>7, <1>8 DEF FinishReuse, HeadBeforeReuse

LEMMA ListExtendFile ==
  ASSUME CleanFaults, ListInv, ExtendFile, CoverInv'
  PROVE  ListInv'
<1> DEFINE p == pageCount_
<1>1. /\ open_ /\ op = None /\ freePageCount_ = 0
      /\ p \in Nat /\ p >= 1 /\ p \in Allocatable /\ p \in PageIds /\ p # HeaderId
      /\ UNCHANGED <<firstFreePageId_, freePageCount_, open_, held>>
  BY TypeFacts, Limit DEF ExtendFile, Idle, ListInv, Allocatable, HeaderId
<1>2. FreeOf(file) = {} /\ file[p].kind # "free"
  BY <1>1, EmptyList DEF ListInv, List, FreeOf
<1>3. CASE /\ file' = Written(file, p, BlankPage)
           /\ pageCount_' = p + 1
           /\ op' = InProgress("extend", p)
  <2>1. op'.name = "extend" /\ op'.page = p
    BY <1>3 DEF InProgress
  <2>2. /\ FreeOf(file') = {} /\ file'[p] = BlankPage /\ file'[HeaderId] = file[HeaderId]
    <3>1. /\ file \in [PageIds -> Image] /\ HeaderId \in PageIds
          /\ BlankPage \in Image /\ BlankPage.kind # "free"
      BY TypeFacts DEF ListInv
    <3>2. \A q \in PageIds : file'[q] = IF q = p THEN BlankPage ELSE file[q]
      BY <1>1, <1>3, <3>1, FreeOfWritten
    <3>3. FreeOf(file') = FreeOf(file) \ {p}
      BY <1>1, <1>3, <3>1, FreeOfWritten
    <3> QED BY <1>1, <1>2, <3>1, <3>2, <3>3
  <2>3. List'
    BY <1>1, <1>2, <1>3, TypeFacts, Aside DEF List, ListInv
  <2>4. ClosedOK'
    BY <1>1, <2>1 DEF ClosedOK
  <2>5. DiskHeaderOK'
    <3>1. file[HeaderId] = Header(p, firstFreePageId_, freePageCount_)
      BY <1>1, NoOperation DEF ListInv, DiskHeaderOK
    <3>2. p + 1 - 1 = p
      BY <1>1
    <3> QED BY <1>1, <1>3, <2>1, <2>2, <3>1, <3>2 DEF DiskHeaderOK
  <2>6. Remembered'
    BY <1>1, <1>3, <2>1, <2>2 DEF Remembered
  <2>7. Holding'
    <3>1. held = 1 .. p - 1
      BY <1>1, <1>2, NoOperation DEF ListInv, Holding
    <3>2. Pending' = {p} /\ Releasing' = {}
      BY <2>1 DEF Pending, Releasing
    <3>3. held \cup {p} = 1 .. pageCount_' - 1 /\ p \notin held
      BY <1>1, <1>3, <3>1
    <3> QED BY <1>1, <2>2, <3>2, <3>3 DEF Holding
  <2> QED BY <2>3, <2>4, <2>5, <2>6, <2>7 DEF ListInv
<1>4. CASE file' \in Failed(file, p, BlankPage) /\ UNCHANGED <<pageCount_, op>>
  BY <1>1, <1>4, CleanFailure, ListUnchanged DEF vars, memory
<1> QED BY <1>3, <1>4 DEF ExtendFile, ExtensionPage

LEMMA ListFinishExtend ==
  ASSUME CleanFaults, ListInv, FinishExtend, CoverInv'
  PROVE  ListInv'
<1> DEFINE p == op.page
<1>1. /\ op.name = "extend" /\ open_ /\ op' = None /\ pageCount_ \in Nat /\ pageCount_ >= 1
      /\ UNCHANGED <<firstFreePageId_, freePageCount_, open_>>
  BY TypeFacts DEF FinishExtend, ListInv, CoverInv, OpOK
<1>2. p \in Allocatable /\ p = pageCount_ - 1
  BY <1>1 DEF ListInv, Remembered
<1>3. /\ held \cup FreeOf(file) \cup {p} = 1 .. pageCount_ - 1
      /\ held \cap FreeOf(file) = {} /\ p \notin held \cup FreeOf(file)
  BY <1>1 DEF ListInv, Holding, Pending, Releasing
<1>4. op'.name = "none" /\ Pending' = {} /\ Releasing' = {} /\ Remembered'
  BY <1>1 DEF None, Pending, Releasing, Remembered
<1>5. ClosedOK'
  BY <1>1, <1>4 DEF ClosedOK
<1>6. /\ file[HeaderId] = Header(pageCount_ - 1, firstFreePageId_, freePageCount_)
      /\ file[HeaderId].kind = "header"
  BY <1>1 DEF ListInv, DiskHeaderOK, Header
<1>7. CASE /\ file' = Written(file, HeaderId, MemoryHeader)
           /\ held' = held \cup {p}
           /\ UNCHANGED pageCount_
  <2>1. FreeOf(file') = FreeOf(file) /\ file'[HeaderId] = MemoryHeader
    BY <1>6, <1>7, TypeFacts, FreeOfWritten DEF ListInv, FreeOf
  <2>2. List'
    BY <1>1, <1>6, <1>7, TypeFacts, Aside DEF List, ListInv
  <2>3. DiskHeaderOK'
    BY <1>1, <1>4, <1>7, <2>1 DEF DiskHeaderOK, MemoryHeader
  <2>4. Holding'
    BY <1>1, <1>3, <1>4, <1>7, <2>1 DEF Holding
  <2> QED BY <1>4, <1>5, <2>2, <2>3, <2>4 DEF ListInv
<1>8. CASE /\ file' \in Failed(file, HeaderId, MemoryHeader)
           /\ pageCount_' = pageCount_ - 1
           /\ UNCHANGED held
  <2>1. file' = file
    BY <1>8, CleanFailure
  <2>2. List'
    BY <1>1, <2>1 DEF List, ListInv
  <2>3. DiskHeaderOK'
    BY <1>1, <1>4, <1>6, <1>8, <2>1 DEF DiskHeaderOK
  <2>4. Holding'
    <3>1. (1 .. pageCount_ - 1) \ {p} = 1 .. pageCount_ - 1 - 1
      BY <1>1, <1>2
    <3>2. held' \cup FreeOf(file') = 1 .. pageCount_' - 1
      BY <1>3, <1>8, <2>1, <3>1
    <3> QED BY <1>3, <1>4, <1>8, <2>1, <3>2 DEF Holding
  <2> QED BY <1>4, <1>5, <2>2, <2>3, <2>4 DEF ListInv
<1> QED BY <1>7, <1>8 DEF FinishExtend, CountBeforeExtend

LEMMA ListReleasePage ==
  ASSUME CleanFaults, ListInv, NEW p \in PageIds, ReleasePage(p), CoverInv'
  PROVE  ListInv'
<1> DEFINE first == firstFreePageId_
           n == freePageCount_
<1>1. /\ open_ /\ op = None /\ n \in Nat /\ file[p].kind # "free"
      /\ p # HeaderId /\ p \in Allocatable /\ p \in 1 .. pageCount_ - 1
      /\ UNCHANGED <<pageCount_, open_, held>>
  BY TypeFacts, Limit DEF ReleasePage, Exists, Idle, ListInv, Allocatable, HeaderId
<1>2. /\ held \cup FreeOf(file) = 1 .. pageCount_ - 1 /\ held \cap FreeOf(file) = {}
      /\ p \notin FreeOf(file) /\ p \in held
  <2>1. held \cup FreeOf(file) = 1 .. pageCount_ - 1 /\ held \cap FreeOf(file) = {}
    BY <1>1, NoOperation DEF ListInv, Holding
  <2>2. p \notin FreeOf(file)
    BY <1>1 DEF FreeOf
  <2> QED BY <1>1, <2>1, <2>2
<1>3. first \in 0 .. InvalidPageId /\ FreePage(first) \in Image /\ FreePage(first).kind = "free"
      /\ FreePage(first).next = first
  BY PlainImages, Kinds DEF ListInv, CoverInv, TypeOK, FreePage, Plain
<1>4. CASE /\ file' = Written(file, p, FreePage(first))
           /\ first' = p
           /\ freePageCount_' = n + 1
           /\ op' = InProgress("free", p)
  <2>1. op'.name = "free" /\ op'.page = p /\ op'.before = file[p]
    BY <1>4 DEF InProgress
  <2>2. /\ FreeOf(file') = FreeOf(file) \cup {p}
        /\ file'[p] = FreePage(first) /\ file'[HeaderId] = file[HeaderId]
    BY <1>1, <1>3, <1>4, TypeFacts, FreeOfWritten DEF ListInv
  <2>3. List'
    BY <1>1, <1>4, TypeFacts, Push DEF List, ListInv
  <2>4. ClosedOK'
    BY <1>1, <2>1 DEF ClosedOK
  <2>5. DiskHeaderOK'
    <3>1. file[HeaderId] = Header(pageCount_, first, n)
      BY <1>1, NoOperation DEF ListInv, DiskHeaderOK
    <3>2. n + 1 - 1 = n
      BY <1>1
    <3> QED BY <1>1, <1>3, <1>4, <2>1, <2>2, <3>1, <3>2 DEF DiskHeaderOK
  <2>6. Remembered'
    BY <1>1, <1>3, <1>4, <2>1, <2>2 DEF Remembered
  <2>7. Holding'
    <3>1. Pending' = {} /\ Releasing' = {p}
      BY <2>1 DEF Pending, Releasing
    <3> QED BY <1>1, <1>2, <2>2, <3>1 DEF Holding
  <2> QED BY <2>3, <2>4, <2>5, <2>6, <2>7 DEF ListInv
<1>5. CASE /\ file' \in Failed(file, p, FreePage(first))
           /\ UNCHANGED <<firstFreePageId_, freePageCount_, op>>
  BY <1>1, <1>5, CleanFailure, ListUnchanged DEF vars, memory
<1> QED BY <1>4, <1>5 DEF ReleasePage

LEMMA ListFinishRelease ==
  ASSUME CleanFaults, ListInv, FinishRelease, CoverInv'
  PROVE  ListInv'
<1> DEFINE p == op.page
           n == freePageCount_
<1>1. /\ op.name = "free" /\ open_ /\ op' = None /\ open_' = open_ /\ pageCount_' = pageCount_
      /\ n \in Nat \ {0} /\ op.before \in Image
  BY TypeFacts DEF FinishRelease, ListInv, CoverInv, OpOK, memory
<1>2. /\ p \in Allocatable /\ p \in PageIds /\ p # HeaderId
      /\ file[p].kind = "free" /\ op.before.kind # "free" /\ firstFreePageId_ = p
  BY <1>1, AllocatableFacts DEF ListInv, Remembered
<1>3. /\ held \cup FreeOf(file) = 1 .. pageCount_ - 1 /\ held \cap FreeOf(file) = {p}
  BY <1>1 DEF ListInv, Holding, Pending, Releasing
<1>4. op'.name = "none" /\ Pending' = {} /\ Releasing' = {} /\ Remembered'
  BY <1>1 DEF None, Pending, Releasing, Remembered
<1>5. ClosedOK'
  BY <1>1, <1>4 DEF ClosedOK
<1>6. file[HeaderId] = Header(pageCount_, file[p].next, n - 1) /\ file[HeaderId].kind = "header"
  BY <1>1 DEF ListInv, DiskHeaderOK, Header
<1>7. CASE /\ file' = Written(file, HeaderId, MemoryHeader)
           /\ held' = held \ {p}
           /\ UNCHANGED memory
  <2>1. UNCHANGED <<firstFreePageId_, freePageCount_>>
    BY <1>7 DEF memory
  <2>2. FreeOf(file') = FreeOf(file) /\ file'[HeaderId] = MemoryHeader
    BY <1>6, <1>7, TypeFacts, FreeOfWritten DEF ListInv, FreeOf
  <2>3. List'
    BY <1>1, <1>6, <1>7, <2>1, TypeFacts, Aside DEF List, ListInv
  <2>4. DiskHeaderOK'
    BY <1>1, <1>4, <2>1, <2>2 DEF DiskHeaderOK, MemoryHeader
  <2>5. Holding'
    BY <1>1, <1>3, <1>4, <1>7, <2>2 DEF Holding
  <2> QED BY <1>4, <1>5, <2>3, <2>4, <2>5 DEF ListInv
<1>8. CASE /\ \E f \in Failed(file, HeaderId, MemoryHeader) : file' \in RolledBack(f)
           /\ firstFreePageId_' = file[p].next
           /\ freePageCount_' = n - 1
           /\ UNCHANGED <<pageCount_, held>>
  <2>1. file' = Written(file, p, op.before)
    BY <1>8, CleanFailure, CleanUndo
  <2>2. FreeOf(file') = FreeOf(file) \ {p} /\ file'[HeaderId] = file[HeaderId]
    BY <1>1, <1>2, <2>1, TypeFacts, FreeOfWritten DEF ListInv
  <2>3. List'
    BY <1>1, <1>2, <1>8, <2>1, TypeFacts, Pop DEF List, ListInv
  <2>4. DiskHeaderOK'
    BY <1>1, <1>4, <1>6, <1>8, <2>2 DEF DiskHeaderOK
  <2>5. Holding'
    BY <1>1, <1>3, <1>4, <1>8, <2>2 DEF Holding
  <2> QED BY <1>4, <1>5, <2>3, <2>4, <2>5 DEF ListInv
<1> QED BY <1>7, <1>8 DEF FinishRelease, HeadBeforeRelease

LEMMA ListWritePage ==
  ASSUME CleanFaults, ListInv, NEW p \in PageIds, NEW d \in Data, WritePage(p, d), CoverInv'
  PROVE  ListInv'
<1>1. /\ op = None /\ p # HeaderId /\ file[p].kind # "free"
      /\ UNCHANGED <<memory, open_, op, held>>
  BY DEF WritePage, Idle, Exists
<1>2. CASE file' = Written(file, p, UsedPage(d))
  <2>1. UsedPage(d) \in Image /\ UsedPage(d).kind = "used"
    BY PlainImages, Kinds
  <2>2. UNCHANGED <<pageCount_, firstFreePageId_, freePageCount_, open_, op, held>>
    BY <1>1 DEF memory
  <2>3. FreeOf(file') = FreeOf(file) /\ file'[HeaderId] = file[HeaderId]
    <3>1. FreeOf(file') = FreeOf(file) \ {p}
      BY <1>2, <2>1, TypeFacts, FreeOfWritten DEF ListInv
    <3>2. p \notin FreeOf(file)
      BY <1>1 DEF FreeOf
    <3>3. file'[HeaderId] = file[HeaderId]
      BY <1>1, <1>2, <2>1, TypeFacts, FreeOfWritten DEF ListInv
    <3> QED BY <3>1, <3>2, <3>3
  <2>4. List'
    BY <1>1, <1>2, <2>1, <2>2, TypeFacts, Aside DEF List, ListInv
  <2>5. ClosedOK'
    BY <1>1, <2>2 DEF WritePage, Idle, ClosedOK, None
  <2>6. DiskHeaderOK' /\ Remembered'
    BY <1>1, <2>2, <2>3, NoOperation DEF ListInv, DiskHeaderOK, Remembered
  <2>7. Holding'
    BY <2>2, <2>3 DEF ListInv, Holding, Pending, Releasing
  <2> QED BY <2>4, <2>5, <2>6, <2>7 DEF ListInv
<1>3. CASE file' \in Failed(file, p, UsedPage(d))
  BY <1>1, <1>3, CleanFailure, ListUnchanged DEF vars
<1> QED BY <1>2, <1>3 DEF WritePage

LEMMA ListNext == ASSUME CleanFaults PROVE ListInv /\ [Next]_vars => ListInv'
<1> SUFFICES ASSUME ListInv, [Next]_vars PROVE ListInv'
  OBVIOUS
<1> USE CoverNext DEF ListInv
<1>1. CoverInv'
  OBVIOUS
<1> HIDE CoverNext DEF ListInv
<1>2. CASE FinishCreate
  BY <1>1, <1>2, ListFinishCreate
<1>3. CASE Reopen
  BY <1>1, <1>3, ReopenChangesNothing, ListUnchanged
<1>4. CASE Crash
  BY <1>4 DEF Crash, CleanFaults
<1>5. CASE ReuseFreePage
  BY <1>1, <1>5, ListReuseFreePage
<1>6. CASE FinishReuse
  BY <1>1, <1>6, ListFinishReuse
<1>7. CASE ExtendFile
  BY <1>1, <1>7, ListExtendFile
<1>8. CASE FinishExtend
  BY <1>1, <1>8, ListFinishExtend
<1>9. CASE \E p \in PageIds : ReleasePage(p)
  BY <1>1, <1>9, ListReleasePage
<1>10. CASE FinishRelease
  BY <1>1, <1>10, ListFinishRelease
<1>11. CASE \E p \in PageIds, d \in Data : WritePage(p, d)
  BY <1>1, <1>11, ListWritePage
<1>12. CASE UNCHANGED vars
  BY <1>1, <1>12, ListUnchanged
<1> QED BY <1>2, <1>3, <1>4, <1>5, <1>6, <1>7, <1>8, <1>9, <1>10, <1>11, <1>12 DEF Next

LEMMA ListAlways == ASSUME CleanFaults PROVE Spec => []ListInv
<1>1. Init => ListInv
  BY ListInit
<1>2. ListInv /\ [Next]_vars => ListInv'
  BY ListNext
<1> QED BY <1>1, <1>2, PTL DEF Spec

(***************************************************************************)
(* The linked list is exactly the pages that are marked free, for any      *)
(* number of pages and any sequence of allocations, releases, failed       *)
(* operations and restarts.                                                *)
(***************************************************************************)
THEOREM FreeListAlwaysOK == ASSUME CleanFaults PROVE Spec => []FreeListOK
<1>1. ListInv => FreeListOK
  BY ListDefinition DEF ListInv, List
<1> QED BY <1>1, ListAlways, PTL

(***************************************************************************)
(* No two clients are given the same page, and none is given the header.   *)
(***************************************************************************)
THEOREM NeverDoubleAllocation == ASSUME CleanFaults PROVE Spec => []NoDoubleAllocation
<1>1. ListInv => NoDoubleAllocation
  BY AllocatableFacts DEF ListInv, Remembered, Holding, Pending, NoDoubleAllocation
<1> QED BY <1>1, ListAlways, PTL

(***************************************************************************)
(* Between operations every page but the header is held or free, not both. *)
(***************************************************************************)
THEOREM PagesAlwaysAccountedFor == ASSUME CleanFaults PROVE Spec => []PagesAccountedFor
<1>1. ListInv => PagesAccountedFor
  <2> SUFFICES ASSUME ListInv, Idle PROVE held \cap FreeOf(file) = {} /\ held \cup FreeOf(file) = 1 .. pageCount_ - 1
    BY DEF PagesAccountedFor, FreePages, FreeOf
  <2> QED BY NoOperation DEF Idle, ListInv, Holding
<1> QED BY <1>1, ListAlways, PTL

(***************************************************************************)
(* Closing the file and opening it again loses nothing.                    *)
(***************************************************************************)
THEOREM ReopenAlwaysKeepsMemory == ASSUME CleanFaults PROVE Spec => ReopenKeepsMemory
<1>1. ListInv /\ [Next]_vars => [Reopen /\ open_ => UNCHANGED memory /\ open_']_vars
  BY ReopenChangesNothing DEF vars
<1> QED BY <1>1, ListAlways, PTL DEF Spec, ReopenKeepsMemory
-----------------------------------------------------------------------------
(***************************************************************************)
(* The page file implements the page store.                                *)
(***************************************************************************)
Contents(q) == IF op.name = "free" /\ op.page = q THEN op.before.data ELSE file[q].data

LEMMA SeenDefinition ==
  /\ Seen = [q \in Allocatable |-> IF q \notin held THEN Absent ELSE Contents(q)]
  /\ Seen' = [q \in Allocatable |-> IF q \notin held' THEN Absent ELSE Contents(q)']
BY DEF Seen, Contents

LEMMA SeenKept ==
  ASSUME held' = held, \A q \in held : Contents(q)' = Contents(q)
  PROVE  UNCHANGED Seen
BY SeenDefinition

LEMMA SeenAllocated ==
  ASSUME NEW p \in Allocatable, p \notin held, held' = held \cup {p}, Contents(p)' = NoData,
         \A q \in held : Contents(q)' = Contents(q)
  PROVE  Store!Allocate(p)
BY SeenDefinition DEF Store!Allocate

LEMMA SeenReleased ==
  ASSUME NEW p \in Allocatable, p \in held, held' = held \ {p}, Contents(p) # Absent,
         \A q \in held \ {p} : Contents(q)' = Contents(q)
  PROVE  Store!Release(p)
BY SeenDefinition DEF Store!Release

LEMMA SeenWritten ==
  ASSUME NEW p \in Allocatable, NEW d, p \in held, held' = held, Contents(p) # Absent, Contents(p)' = d,
         \A q \in held \ {p} : Contents(q)' = Contents(q)
  PROVE  Store!Write(p, d)
BY SeenDefinition DEF Store!Write

LEMMA ImageData ==
  ASSUME NEW c \in Image
  PROVE  c.data \in Data \cup {NoData} /\ c.data # Absent
BY PageFileAssumption DEF Image

(***************************************************************************)
(* The page of an allocation in progress is nobody's yet, the page of a    *)
(* release in progress still somebody's.                                   *)
(***************************************************************************)
LEMMA HeldFacts ==
  ASSUME ListInv
  PROVE  /\ held \subseteq Allocatable
         /\ HeaderId \notin held
         /\ op.name \in {"reuse", "extend"} => op.page \notin held
         /\ op.name = "free" => op.page \in held
         /\ op.name # "free" => \A q \in held : file[q].kind # "free"
<1>1. held \subseteq Allocatable
  <2>1. CASE open_
    <3>1. held \subseteq 1 .. pageCount_ - 1
      BY <2>1 DEF ListInv, Holding
    <3>2. 1 .. pageCount_ - 1 \subseteq Allocatable
      BY TypeFacts, Limit DEF ListInv, Allocatable
    <3> QED BY <3>1, <3>2
  <2>2. CASE ~open_
    BY <2>2 DEF ListInv, ClosedOK
  <2> QED BY <2>1, <2>2
<1>2. op.name \in {"reuse", "extend"} => op.page \notin held
  BY DEF ListInv, Holding, Pending
<1>3. op.name = "free" => op.page \in held
  BY DEF ListInv, Holding, Releasing
<1>4. op.name # "free" => \A q \in held : file[q].kind # "free"
  BY <1>1, AllocatableFacts DEF ListInv, Holding, Releasing, FreeOf
<1> QED BY <1>1, <1>2, <1>3, <1>4, AllocatableFacts

LEMMA OtherPages ==
  ASSUME NEW f \in [PageIds -> Image], NEW p, NEW c, NEW q \in PageIds, q # p
  PROVE  Written(f, p, c)[q] = f[q]
BY DEF Written

LEMMA StepOfStore ==
  ASSUME CleanFaults, ListInv, ListInv', [Next]_vars
  PROVE  [Store!StoreNext]_Seen
<1> USE HeldFacts
<1>0. /\ file \in [PageIds -> Image] /\ held \subseteq PageIds /\ op.before \in Image
      /\ \A q \in PageIds : file[q].data # Absent
  BY TypeFacts, AllocatableFacts, ImageData DEF ListInv
<1>1. CASE FinishCreate
  <2>1. op.name = "create" /\ op'.name = "none" /\ held' = held
    BY <1>1 DEF FinishCreate, None
  <2>2. \A q \in held : file'[q] = file[q]
    BY <1>0, <1>1, FailedWrite, OtherPages DEF FinishCreate
  <2> QED BY <2>1, <2>2, SeenKept DEF Contents
<1>2. CASE ReuseFreePage
  <2>1. op.name = "none" /\ op'.name # "free" /\ held' = held /\ firstFreePageId_ \notin held
    <3>1. op = None /\ op'.name \in {"none", "reuse"} /\ held' = held
      BY <1>2 DEF ReuseFreePage, Idle, InProgress, None
    <3>2. firstFreePageId_ \notin held
      BY <1>2, <3>1, Head, NoOperation, TypeFacts DEF ReuseFreePage, ListInv, List
    <3> QED BY <3>1, <3>2, NoOperation
  <2>2. \A q \in held : file'[q] = file[q]
    BY <1>0, <1>2, <2>1, FailedWrite, OtherPages DEF ReuseFreePage
  <2> QED BY <2>1, <2>2, SeenKept DEF Contents
<1>3. CASE FinishReuse
  <2>1. op.name = "reuse" /\ op'.name = "none" /\ op.page \in Allocatable /\ op.page \in PageIds
    BY <1>3, AllocatableFacts DEF FinishReuse, None, ListInv, Remembered
  <2>2. CASE file' = Written(file, HeaderId, MemoryHeader) /\ held' = held \cup {op.page}
    <3>1. \A q \in held \cup {op.page} : file'[q] = file[q]
      BY <1>0, <2>1, <2>2, AllocatableFacts, OtherPages
    <3>2. file[op.page].data = NoData
      BY <2>1 DEF ListInv, Remembered, BlankPage, Plain
    <3>3. Store!Allocate(op.page)
      BY <2>1, <2>2, <3>1, <3>2, SeenAllocated DEF Contents
    <3> QED BY <2>1, <3>3 DEF Store!StoreNext
  <2>3. CASE /\ \E f \in Failed(file, HeaderId, MemoryHeader) : file' \in RolledBack(f)
             /\ held' = held
    <3>1. file' = Written(file, op.page, op.before)
      BY <2>3, CleanFailure, CleanUndo
    <3>2. \A q \in held : file'[q] = file[q]
      BY <1>0, <2>1, <3>1, OtherPages
    <3> QED BY <2>1, <2>3, <3>2, SeenKept DEF Contents
  <2> QED BY <1>3, <2>2, <2>3 DEF FinishReuse
<1>4. CASE ExtendFile
  <2>1. op.name = "none" /\ op'.name # "free" /\ held' = held
    BY <1>4 DEF ExtendFile, Idle, InProgress, None
  <2>2. pageCount_ \notin held
    BY <1>4, TypeFacts DEF ExtendFile, Idle, ListInv, Holding
  <2>3. \A q \in held : file'[q] = file[q]
    BY <1>0, <1>4, <2>2, FailedWrite, OtherPages DEF ExtendFile, ExtensionPage
  <2> QED BY <2>1, <2>3, SeenKept DEF Contents
<1>5. CASE FinishExtend
  <2>1. op.name = "extend" /\ op'.name = "none" /\ op.page \in Allocatable /\ op.page \in PageIds
    BY <1>5, AllocatableFacts DEF FinishExtend, None, ListInv, Remembered
  <2>2. CASE file' = Written(file, HeaderId, MemoryHeader) /\ held' = held \cup {op.page}
    <3>1. \A q \in held \cup {op.page} : file'[q] = file[q]
      BY <1>0, <2>1, <2>2, AllocatableFacts, OtherPages
    <3>2. file[op.page].data = NoData
      BY <2>1 DEF ListInv, Remembered, BlankPage, Plain
    <3>3. Store!Allocate(op.page)
      BY <2>1, <2>2, <3>1, <3>2, SeenAllocated DEF Contents
    <3> QED BY <2>1, <3>3 DEF Store!StoreNext
  <2>3. CASE file' \in Failed(file, HeaderId, MemoryHeader) /\ held' = held
    BY <2>1, <2>3, CleanFailure, SeenKept DEF Contents
  <2> QED BY <1>5, <2>2, <2>3 DEF FinishExtend
<1>6. ASSUME NEW p \in PageIds, ReleasePage(p) PROVE UNCHANGED Seen
  <2>1. op.name = "none" /\ held' = held
    BY <1>6 DEF ReleasePage, Idle, None
  <2>2. \A q \in held : q # p => file'[q] = file[q]
    BY <1>0, <1>6, FailedWrite, OtherPages DEF ReleasePage
  <2>3. CASE op' = InProgress("free", p)
    BY <2>1, <2>2, <2>3, SeenKept DEF Contents, InProgress
  <2>4. CASE file' \in Failed(file, p, FreePage(firstFreePageId_)) /\ op' = op
    BY <2>1, <2>4, CleanFailure, SeenKept DEF Contents
  <2> QED BY <1>6, <2>3, <2>4 DEF ReleasePage
<1>7. CASE FinishRelease
  <2>1. op.name = "free" /\ op'.name = "none" /\ op.page \in Allocatable /\ op.page \in PageIds
        /\ op.page \in held
    BY <1>7, AllocatableFacts DEF FinishRelease, None, ListInv, Remembered
  <2>2. CASE file' = Written(file, HeaderId, MemoryHeader) /\ held' = held \ {op.page}
    <3>1. \A q \in held : file'[q] = file[q]
      BY <1>0, <2>2, OtherPages
    <3>2. op.before.data # Absent
      BY <1>0, ImageData
    <3>3. Store!Release(op.page)
      BY <2>1, <2>2, <3>1, <3>2, SeenReleased DEF Contents
    <3> QED BY <2>1, <3>3 DEF Store!StoreNext
  <2>3. CASE /\ \E f \in Failed(file, HeaderId, MemoryHeader) : file' \in RolledBack(f)
             /\ held' = held
    <3>1. file' = Written(file, op.page, op.before)
      BY <2>3, CleanFailure, CleanUndo
    <3>2. \A q \in held : file'[q] = IF q = op.page THEN op.before ELSE file[q]
      BY <1>0, <2>1, <3>1, FreeOfWritten
    <3> QED BY <2>1, <2>3, <3>2, SeenKept DEF Contents
  <2> QED BY <1>7, <2>2, <2>3 DEF FinishRelease
<1>8. ASSUME NEW p \in PageIds, NEW d \in Data, WritePage(p, d) PROVE [Store!StoreNext]_Seen
  <2>1. /\ op.name = "none" /\ op' = op /\ held' = held /\ open_ /\ p # HeaderId
        /\ p \in Allocatable /\ p < pageCount_ /\ file[p].kind # "free"
    BY <1>8, Limit DEF WritePage, Idle, Exists, None, Allocatable, HeaderId
  <2>2. p \in held
    <3>1. held \cup FreeOf(file) = 1 .. pageCount_ - 1
      BY <2>1 DEF ListInv, Holding, Pending
    <3>2. p \in 1 .. pageCount_ - 1 /\ p \notin FreeOf(file)
      BY <2>1, TypeFacts, Limit DEF ListInv, FreeOf, HeaderId
    <3> QED BY <3>1, <3>2
  <2>3. CASE file' = Written(file, p, UsedPage(d))
    <3>1. \A q \in held : file'[q] = IF q = p THEN UsedPage(d) ELSE file[q]
      BY <1>0, <2>3, PlainImages, FreeOfWritten
    <3>2. Store!Write(p, d)
      BY <1>0, <2>1, <2>2, <3>1, SeenWritten DEF Contents, UsedPage, Plain
    <3> QED BY <2>1, <3>2 DEF Store!StoreNext
  <2>4. CASE file' \in Failed(file, p, UsedPage(d))
    BY <2>1, <2>4, CleanFailure, SeenKept DEF Contents
  <2> QED BY <1>8, <2>3, <2>4 DEF WritePage
<1>9. CASE Reopen \/ UNCHANGED vars
  <2>1. UNCHANGED vars
    BY <1>9, ReopenChangesNothing
  <2> QED BY <2>1 DEF vars, Seen
<1>10. CASE Crash
  BY <1>10 DEF Crash, CleanFaults
<1> QED BY <1>1, <1>2, <1>3, <1>4, <1>5, <1>6, <1>7, <1>8, <1>9, <1>10 DEF Next

(***************************************************************************)
(* The page file is a page store: what the holder of a page wrote stays    *)
(* until it writes again, whatever happens to other pages.                 *)
(***************************************************************************)
THEOREM PageFileIsPageStore == ASSUME CleanFaults PROVE Spec => IsPageStore
<1>1. Init => Store!StoreInit
  BY DEF Init, Seen, Store!StoreInit
<1>2. ListInv /\ ListInv' /\ [Next]_vars => [Store!StoreNext]_Seen
  BY StepOfStore
<1> QED BY <1>1, <1>2, ListAlways, PTL DEF Spec, IsPageStore, Store!StoreSpec
-----------------------------------------------------------------------------
(***************************************************************************)
(* Clients that release nothing, as the engine: then there is no free list *)
(* that a crash could tear, and all faults and crashes are allowed.  A     *)
(* failed allocation may leave a page that is counted and that nobody      *)
(* holds, but what is held is always counted, in memory and by the header  *)
(* on disk, so a page past the last counted one is nobody's.               *)
(***************************************************************************)
NothingReleased == ClientsRelease = FALSE

HeaderCounts ==
  /\ file[HeaderId].kind \in {"none", "header"}
  /\ file[HeaderId].kind = "none" => held = {}
  /\ file[HeaderId].kind = "header" => /\ file[HeaderId].count = 0
                                      /\ held \subseteq 1 .. file[HeaderId].next - 1

Extending == op.name = "extend" => /\ op.page = pageCount_ - 1 /\ op.page \in Allocatable
                                   /\ op.page \notin held
                                   /\ file[op.page] = BlankPage

GrowInv == /\ CoverInv
           /\ op.name \in {"none", "create", "extend"} /\ freePageCount_ = 0
           /\ HeaderCounts
           /\ op.name = "create" => held = {}
           /\ open_ => held \subseteq 1 .. pageCount_ - 1
           /\ Extending

LEMMA GrowInit == Init => GrowInv
<1> SUFFICES ASSUME Init PROVE GrowInv
  OBVIOUS
<1>1. op.name = "create" /\ file[HeaderId].kind = "none"
  BY Kinds, Limit DEF Init, None, HeaderId
<1> QED BY <1>1, CoverInit DEF Init, GrowInv, HeaderCounts, Extending

LEMMA HeldAllocatable ==
  ASSUME GrowInv
  PROVE  held \subseteq Allocatable /\ HeaderId \notin held
<1>1. held \subseteq PageIds /\ 0 \notin held
  BY DEF GrowInv, HeaderCounts, CoverInv, TypeOK
<1> QED BY <1>1, Limit DEF Allocatable, HeaderId

(***************************************************************************)
(* A write to a page that is not the header leaves the header's count.     *)
(***************************************************************************)
LEMMA HeaderStays ==
  ASSUME GrowInv, held' = held, NEW p \in PageIds, p # HeaderId, NEW c,
         file' = Written(file, p, c) \/ file' \in Failed(file, p, c)
  PROVE  HeaderCounts' /\ \A q \in PageIds \ {p} : file'[q] = file[q]
<1>1. \A q \in PageIds \ {p} : file'[q] = file[q]
  BY FailedWrite, OtherPages, TypeFacts DEF GrowInv
<1>2. file'[HeaderId] = file[HeaderId]
  BY <1>1, TypeFacts DEF GrowInv
<1> QED BY <1>1, <1>2 DEF GrowInv, HeaderCounts

LEMMA HeaderWritten ==
  ASSUME GrowInv, held' \subseteq 1 .. pageCount_ - 1,
         file' = Written(file, HeaderId, MemoryHeader)
  PROVE  HeaderCounts' /\ \A q \in PageIds \ {HeaderId} : file'[q] = file[q]
<1>1. /\ file'[HeaderId] = MemoryHeader
      /\ \A q \in PageIds \ {HeaderId} : file'[q] = file[q]
  BY OtherPages, TypeFacts DEF GrowInv, Written
<1>2. MemoryHeader.kind = "header" /\ MemoryHeader.next = pageCount_ /\ MemoryHeader.count = 0
  BY DEF MemoryHeader, Header, GrowInv
<1> QED BY <1>1, <1>2 DEF HeaderCounts

LEMMA GrowLoadHeader == ASSUME GrowInv, LoadHeader, held' = held, CoverInv' PROVE GrowInv'
<1>1. op' = None /\ file' = file /\ op'.name = "none"
  BY DEF LoadHeader, None
<1>2. HeaderCounts' /\ Extending'
  BY <1>1 DEF GrowInv, HeaderCounts, Extending
<1>3. CASE file[HeaderId].kind = "header"
  BY <1>1, <1>2, <1>3 DEF LoadHeader, GrowInv, HeaderCounts
<1>4. CASE file[HeaderId].kind # "header"
  BY <1>1, <1>2, <1>4 DEF LoadHeader, GrowInv, HeaderCounts, memory
<1> QED BY <1>3, <1>4

LEMMA GrowFinishCreate == ASSUME GrowInv, FinishCreate, CoverInv' PROVE GrowInv'
<1>1. op' = None /\ op'.name = "none" /\ UNCHANGED <<memory, held>> /\ held = {}
  BY DEF FinishCreate, None, GrowInv
<1>2. file' = file \/ file' = Written(file, HeaderId, MemoryHeader)
  BY FailedWrite DEF FinishCreate
<1>3. HeaderCounts'
  BY <1>1, <1>2, HeaderWritten DEF GrowInv, HeaderCounts
<1> QED BY <1>1, <1>3 DEF GrowInv, Extending, memory

LEMMA GrowExtendFile == ASSUME GrowInv, ExtendFile, CoverInv' PROVE GrowInv'
<1>1. /\ pageCount_ \in Allocatable /\ pageCount_ \in PageIds /\ pageCount_ # HeaderId
      /\ open_ /\ op.name = "none" /\ held \subseteq 1 .. pageCount_ - 1
      /\ UNCHANGED <<firstFreePageId_, freePageCount_, open_, held>>
  BY TypeFacts, Limit DEF ExtendFile, Idle, None, GrowInv, Allocatable, HeaderId
<1>2. HeaderCounts'
  BY <1>1, HeaderStays DEF ExtendFile, ExtensionPage
<1>3. CASE /\ file' = Written(file, pageCount_, BlankPage)
           /\ pageCount_' = pageCount_ + 1
           /\ op' = InProgress("extend", pageCount_)
  <2>1. op'.name = "extend" /\ op'.page = pageCount_
    BY <1>3 DEF InProgress
  <2>2. file'[pageCount_] = BlankPage
    BY <1>1, <1>3, TypeFacts DEF Written, GrowInv
  <2>3. pageCount_ \notin held /\ pageCount_' - 1 = pageCount_ /\ held \subseteq 1 .. pageCount_
    BY <1>1, <1>3, TypeFacts DEF GrowInv
  <2> QED BY <1>1, <1>2, <2>1, <2>2, <2>3 DEF GrowInv, Extending
<1>4. CASE UNCHANGED <<pageCount_, op>>
  BY <1>1, <1>2, <1>4 DEF GrowInv, Extending
<1> QED BY <1>3, <1>4 DEF ExtendFile, ExtensionPage

LEMMA GrowFinishExtend == ASSUME GrowInv, FinishExtend, CoverInv' PROVE GrowInv'
<1>1. /\ op.name = "extend" /\ op' = None /\ op'.name = "none" /\ open_
      /\ op.page = pageCount_ - 1 /\ op.page \in Allocatable /\ op.page \notin held
      /\ held \subseteq 1 .. pageCount_ - 1 /\ pageCount_ \in Nat
      /\ UNCHANGED <<firstFreePageId_, freePageCount_, open_>>
  BY TypeFacts DEF FinishExtend, None, GrowInv, Extending, CoverInv, OpOK
<1>2. CASE /\ file' = Written(file, HeaderId, MemoryHeader)
           /\ held' = held \cup {op.page} /\ pageCount_' = pageCount_
  <2>1. held' \subseteq 1 .. pageCount_ - 1
    BY <1>1, <1>2, Limit DEF Allocatable
  <2> QED BY <1>1, <1>2, <2>1, HeaderWritten DEF GrowInv, Extending
<1>3. CASE /\ file' \in Failed(file, HeaderId, MemoryHeader)
           /\ pageCount_' = pageCount_ - 1 /\ held' = held
  <2>1. HeaderCounts'
    BY <1>1, <1>3, FailedWrite, HeaderWritten DEF GrowInv, HeaderCounts
  <2>2. held' \subseteq 1 .. pageCount_' - 1
    BY <1>1, <1>3
  <2> QED BY <1>1, <2>1, <2>2 DEF GrowInv, Extending
<1> QED BY <1>2, <1>3 DEF FinishExtend, CountBeforeExtend

LEMMA GrowWritePage ==
  ASSUME GrowInv, NEW p \in PageIds, NEW d \in Data, WritePage(p, d), CoverInv'
  PROVE  GrowInv'
<1>1. /\ UNCHANGED <<memory, open_, op, held>> /\ op.name = "none" /\ p # HeaderId
      /\ file' = Written(file, p, UsedPage(d)) \/ file' \in Failed(file, p, UsedPage(d))
  BY DEF WritePage, Idle, None, Exists
<1>2. HeaderCounts'
  BY <1>1, HeaderStays
<1> QED BY <1>1, <1>2 DEF GrowInv, Extending, memory

LEMMA GrowNext == ASSUME NothingReleased PROVE GrowInv /\ [Next]_vars => GrowInv'
<1> SUFFICES ASSUME GrowInv, [Next]_vars PROVE GrowInv'
  OBVIOUS
<1>1. CoverInv'
  BY CoverNext DEF GrowInv
<1>2. CASE FinishCreate
  BY <1>1, <1>2, GrowFinishCreate
<1>3. CASE Reopen
  BY <1>1, <1>3, GrowLoadHeader DEF Reopen
<1>4. CASE Crash
  BY <1>1, <1>4, GrowLoadHeader DEF Crash, GrowInv
<1>5. CASE ExtendFile
  BY <1>1, <1>5, GrowExtendFile
<1>6. CASE FinishExtend
  BY <1>1, <1>6, GrowFinishExtend
<1>7. ASSUME NEW p \in PageIds, NEW d \in Data, WritePage(p, d) PROVE GrowInv'
  BY <1>1, <1>7, GrowWritePage
<1>8. CASE ReuseFreePage \/ FinishReuse \/ FinishRelease \/ \E p \in PageIds : ReleasePage(p)
  BY <1>8 DEF NothingReleased, GrowInv, ReuseFreePage, FinishReuse, FinishRelease, ReleasePage
<1>9. CASE UNCHANGED vars
  BY <1>1, <1>9 DEF vars, memory, GrowInv, HeaderCounts, Extending
<1> QED BY <1>2, <1>3, <1>4, <1>5, <1>6, <1>7, <1>8, <1>9 DEF Next

LEMMA GrowAlways == ASSUME NothingReleased PROVE Spec => []GrowInv
<1>1. GrowInv /\ [Next]_vars => GrowInv'
  BY GrowNext
<1> QED BY <1>1, GrowInit, PTL DEF Spec

(***************************************************************************)
(* Without releases no page is given out twice, and the header never,      *)
(* whatever write fails and wherever the process dies.                     *)
(***************************************************************************)
THEOREM GrowingNeverAllocatesTwice == ASSUME NothingReleased PROVE Spec => []NoDoubleAllocation
<1>1. GrowInv => NoDoubleAllocation
  BY AllocatableFacts DEF GrowInv, Extending, NoDoubleAllocation
<1> QED BY <1>1, GrowAlways, PTL

LEMMA GrowStepOfStore == ASSUME GrowInv, GrowInv', [Next]_vars, NothingReleased
                         PROVE  [Store!StoreNext]_Seen
<1>0. /\ held \subseteq Allocatable /\ HeaderId \notin held /\ held \subseteq PageIds
      /\ file \in [PageIds -> Image] /\ op.name # "free" /\ op'.name # "free"
  BY HeldAllocatable, AllocatableFacts, TypeFacts DEF GrowInv
<1>1. ASSUME held' = held, \A q \in held : file'[q] = file[q] PROVE UNCHANGED Seen
  BY <1>0, <1>1, SeenKept DEF Contents
<1>2. CASE FinishCreate
  <2>1. held' = held
    BY <1>2 DEF FinishCreate
  <2>2. \A q \in held : file'[q] = file[q]
    BY <1>0, <1>2, FailedWrite, OtherPages DEF FinishCreate
  <2> QED BY <1>1, <2>1, <2>2
<1>3. CASE Reopen \/ Crash \/ UNCHANGED vars
  <2>1. file' = file /\ held' = held
    BY <1>0, <1>3 DEF Reopen, Crash, LoadHeader, vars
  <2> QED BY <1>1, <2>1
<1>4. CASE ExtendFile
  <2>1. held' = held /\ pageCount_ \notin held
    BY <1>4, TypeFacts DEF ExtendFile, Idle, GrowInv
  <2>2. \A q \in held : file'[q] = file[q]
    BY <1>0, <1>4, <2>1, FailedWrite, OtherPages DEF ExtendFile, ExtensionPage
  <2> QED BY <1>1, <2>1, <2>2
<1>5. CASE FinishExtend
  <2>1. /\ op.page \in Allocatable /\ op.page \in PageIds /\ op.page # HeaderId
        /\ op.page \notin held /\ file[op.page].data = NoData
    BY <1>5, AllocatableFacts DEF FinishExtend, GrowInv, Extending, BlankPage, Plain
  <2>2. \A q \in held \cup {op.page} : file'[q] = file[q]
    BY <1>0, <1>5, <2>1, FailedWrite, OtherPages DEF FinishExtend
  <2>3. CASE held' = held \cup {op.page}
    <3>1. Store!Allocate(op.page)
      BY <1>0, <2>1, <2>2, <2>3, SeenAllocated DEF Contents
    <3> QED BY <2>1, <3>1 DEF Store!StoreNext
  <2>4. CASE held' = held
    BY <1>1, <2>2, <2>4
  <2> QED BY <1>5, <2>3, <2>4 DEF FinishExtend
<1>6. ASSUME NEW p \in PageIds, NEW d \in Data, WritePage(p, d) PROVE [Store!StoreNext]_Seen
  <2>1. /\ held' = held /\ UsedPage(d).data = d
        /\ file' = file \/ file' = Written(file, p, UsedPage(d))
    BY <1>6, FailedWrite DEF WritePage, UsedPage, Plain
  <2>2. CASE p \in held /\ file' = Written(file, p, UsedPage(d))
    <3>1. \A q \in held : file'[q] = IF q = p THEN UsedPage(d) ELSE file[q]
      BY <1>0, <2>2 DEF Written
    <3>2. file[p].data # Absent
      BY <1>0, ImageData
    <3>3. Store!Write(p, d)
      BY <1>0, <2>1, <2>2, <3>1, <3>2, SeenWritten DEF Contents
    <3> QED BY <1>0, <2>2, <3>3 DEF Store!StoreNext
  <2>3. CASE p \notin held \/ file' = file
    <3>1. \A q \in held : file'[q] = file[q]
      BY <1>0, <2>1, <2>3, OtherPages
    <3> QED BY <1>1, <2>1, <3>1
  <2> QED BY <2>1, <2>2, <2>3
<1>7. CASE ReuseFreePage \/ FinishReuse \/ FinishRelease \/ \E p \in PageIds : ReleasePage(p)
  BY <1>7 DEF NothingReleased, GrowInv, ReuseFreePage, FinishReuse, FinishRelease, ReleasePage
<1> QED BY <1>2, <1>3, <1>4, <1>5, <1>6, <1>7 DEF Next

(***************************************************************************)
(* Without releases the page file is a page store under all faults and     *)
(* crashes: what the engine wrote stays, and a new page is blank and       *)
(* nobody's.                                                               *)
(***************************************************************************)
THEOREM GrowingFileIsPageStore == ASSUME NothingReleased PROVE Spec => IsPageStore
<1>1. Init => Store!StoreInit
  BY DEF Init, Seen, Store!StoreInit
<1>2. GrowInv /\ GrowInv' /\ [Next]_vars => [Store!StoreNext]_Seen
  BY GrowStepOfStore
<1> QED BY <1>1, <1>2, GrowAlways, PTL DEF Spec, IsPageStore, Store!StoreSpec
=============================================================================
