------------------------- MODULE ExclusivePoolProofs -------------------------
(***************************************************************************)
(* Theorems about ExclusivePool: the inductive invariant PoolInv, and what *)
(* follows from it.                                                        *)
(***************************************************************************)
EXTENDS ExclusivePool, CommonProofs

\* The pages of the pool and their fields.
LEMMA PageForms ==
  ASSUME PoolInv
  PROVE  /\ Len(pages) \in Nat
         /\ DOMAIN pages = 1 .. Len(pages)
         /\ \A p \in DOMAIN pages :
              /\ pages[p] \in Page
              /\ pages[p].storage \in Storages
              /\ pages[p].allocSize \in Nat
              /\ pages[p].size \in Nat
              /\ pages[p].padding \in Nat
              /\ pages[p].handle \in Descriptors
              /\ pages[p].freeCount \in Nat
<1>1. pages \in Seq(Page)
  BY DEF PoolInv, TypeOK
<1>2. Len(pages) \in Nat /\ DOMAIN pages = 1 .. Len(pages)
  BY <1>1, LenProperties
<1>3. \A p \in DOMAIN pages : pages[p] \in Page
  BY <1>1, <1>2, ElementOfSeq
<1> QED BY <1>2, <1>3 DEF Page

LEMMA TickType ==
  ASSUME since \in 0 .. CheckPeriod
  PROVE  CheckPeriod \in Nat /\ Tick \in 0 .. CheckPeriod
<1>1. CheckPeriod \in Nat
  BY ExclusiveAssumption DEF CheckPeriod
<1> QED BY <1>1 DEF Tick

LEMMA InitInv ==
  ASSUME Init
  PROVE  PoolInv
<1>1. pages = <<>> /\ pages \in Seq(Page) /\ DOMAIN pages = {}
  BY DEF Init
<1>2. TypeOK
  <2>1. CheckPeriod \in Nat
    BY ExclusiveAssumption DEF CheckPeriod
  <2>2. history \in [Storages -> [seen: Nat, reused: BOOLEAN]]
    BY DEF Init, Unseen
  <2> QED BY <1>1, <2>1, <2>2 DEF Init, TypeOK
<1>3. Located
  BY <1>1 DEF Init, Located
<1>4. StoragesOwned
  BY <1>1 DEF Init, StoragesOwned
<1> QED BY <1>1, <1>2, <1>3, <1>4 DEF PoolInv, PagesAligned, SliceFits, Counted

LEMMA NewHandleInv ==
  ASSUME PoolInv, NEW d \in Descriptors, NewHandle(d)
  PROVE  PoolInv'
<1>1. TypeOK'
  BY DEF NewHandle, PoolInv, TypeOK
<1>2. Located' /\ StoragesOwned'
  BY DEF NewHandle, PoolInv, Located, StoragesOwned, InPool
<1>3. PagesAligned' /\ SliceFits' /\ Counted'
  BY DEF NewHandle, PoolInv, PagesAligned, SliceFits, Counted
<1> QED BY <1>1, <1>2, <1>3 DEF PoolInv

\* The location of a handle the pool does not know is the initial one already.
LEMMA ReleaseInv ==
  ASSUME PoolInv, NEW d \in Descriptors, Release(d)
  PROVE  PoolInv'
<1>1. location' = location
  <2>1. CASE InPool(d)
    BY <2>1 DEF Release
  <2>2. CASE ~InPool(d)
    <3>1. location[d] = -1 /\ location \in [Descriptors -> Nat \cup {-1}]
      BY <2>2 DEF PoolInv, Located, TypeOK
    <3> QED BY <2>2, <3>1 DEF Release
  <2> QED BY <2>1, <2>2
<1>2. TypeOK'
  BY <1>1 DEF Release, PoolInv, TypeOK
<1>3. Located' /\ StoragesOwned'
  BY <1>1 DEF Release, PoolInv, Located, StoragesOwned, InPool
<1>4. PagesAligned' /\ SliceFits' /\ Counted'
  BY DEF Release, PoolInv, PagesAligned, SliceFits, Counted
<1> QED BY <1>2, <1>3, <1>4 DEF PoolInv

LEMMA ReserveElsewhereInv ==
  ASSUME PoolInv, ReserveElsewhere
  PROVE  PoolInv'
<1>1. TypeOK'
  <2>1. since' \in 0 .. CheckPeriod
    BY TickType DEF ReserveElsewhere, PoolInv, TypeOK
  <2> QED BY <2>1 DEF ReserveElsewhere, PoolInv, TypeOK, CheckPeriod
<1>2. Located' /\ StoragesOwned'
  BY DEF ReserveElsewhere, PoolInv, Located, StoragesOwned, InPool
<1>3. PagesAligned' /\ SliceFits' /\ Counted'
  BY DEF ReserveElsewhere, PoolInv, PagesAligned, SliceFits, Counted
<1> QED BY <1>1, <1>2, <1>3 DEF PoolInv

\* A page is large enough for the padded size because its size is aligned; its
\* free_count loses one where the checks start from nothing.
LEMMA TryReserveInv ==
  ASSUME PoolInv, NEW size \in Sizes, TryReserve(size)
  PROVE  PoolInv'
<1>1. PICK p \in DOMAIN pages :
        /\ FreePage(size, p)
        /\ pages' = [pages EXCEPT ![p].size = size, ![p].padding = CalculatePadding(size),
                                  ![p].freeCount = Used(@)]
        /\ held' = held \cup {pages[p].handle}
        /\ history' = [history EXCEPT ![pages[p].storage] = [seen |-> 0, reused |-> TRUE]]
  BY DEF TryReserve
<1>2. size \in Nat /\ CalculatePadding(size) \in Nat
  BY ExclusiveAssumption, PaddingForms DEF CalculatePadding
<1>3. /\ pages[p] \in Page
      /\ pages[p].storage \in Storages
      /\ pages[p].allocSize \in Nat
      /\ pages[p].handle \in Descriptors
      /\ pages[p].freeCount \in Nat
      /\ pages \in Seq(Page)
      /\ Len(pages) \in Nat
      /\ DOMAIN pages = 1 .. Len(pages)
  BY PageForms DEF PoolInv, TypeOK
<1>4. Used(pages[p].freeCount) \in Nat
  BY <1>3 DEF Used
<1> DEFINE new == [pages[p] EXCEPT !.size = size, !.padding = CalculatePadding(size),
                                   !.freeCount = Used(@)]
<1>5. pages' = [pages EXCEPT ![p] = new]
  BY <1>1, <1>3
<1>6. new \in Page
  BY <1>2, <1>3, <1>4 DEF Page
<1>7. /\ pages' \in Seq(Page)
      /\ DOMAIN pages' = DOMAIN pages
      /\ pages'[p] = new
      /\ \A q \in DOMAIN pages : q # p => pages'[q] = pages[q]
  BY <1>3, <1>5, <1>6, ExceptSeq
<1>8. /\ new.storage = pages[p].storage /\ new.allocSize = pages[p].allocSize
      /\ new.handle = pages[p].handle
      /\ new.size = size /\ new.padding = CalculatePadding(size)
      /\ new.freeCount = Used(pages[p].freeCount)
  BY <1>3 DEF Page
<1> HIDE DEF new
<1>9. \A q \in DOMAIN pages :
        /\ pages'[q].storage = pages[q].storage
        /\ pages'[q].allocSize = pages[q].allocSize
        /\ pages'[q].handle = pages[q].handle
  BY <1>7, <1>8
<1>10. TypeOK'
  <2>1. since' \in 0 .. CheckPeriod
    BY TickType DEF TryReserve, PoolInv, TypeOK
  <2>2. history' \in [Storages -> [seen: Nat, reused: BOOLEAN]]
    BY <1>1, <1>3 DEF PoolInv, TypeOK
  <2>3. held' \subseteq Descriptors
    BY <1>1, <1>3 DEF PoolInv, TypeOK
  <2> QED BY <1>7, <2>1, <2>2, <2>3 DEF TryReserve, PoolInv, TypeOK, CheckPeriod
<1>11. location' = location /\ storages' = storages
  BY DEF TryReserve
<1>12. Located'
  BY <1>7, <1>9, <1>11 DEF PoolInv, Located, InPool
<1>13. StoragesOwned'
  BY <1>7, <1>9, <1>11 DEF PoolInv, StoragesOwned
<1>14. PagesAligned'
  BY <1>7, <1>9 DEF PoolInv, PagesAligned
<1>15. SliceFits'
  <2>1. size + CalculatePadding(size) <= pages[p].allocSize
    <3>1. pages[p].allocSize >= size /\ pages[p].allocSize % Alignment = 0
      BY <1>1 DEF FreePage, Fits, PoolInv, PagesAligned
    <3> QED BY <1>2, <1>3, <3>1, PaddedFits, ExclusiveAssumption DEF CalculatePadding
  <2> QED BY <1>7, <1>8, <2>1 DEF PoolInv, SliceFits
<1>16. Counted'
  <2>1. ASSUME NEW q \in DOMAIN pages
        PROVE  LET page == pages'[q]
                   past == history'[page.storage]
               IN /\ past.seen <= page.freeCount /\ page.freeCount < AllocAfterFree
                  /\ past.reused => page.freeCount - past.seen <= AllocAfterFree - 2
    <3>1. CASE q = p
      <4>1. history'[pages[p].storage] = [seen |-> 0, reused |-> TRUE]
        BY <1>1, <1>3 DEF PoolInv, TypeOK
      <4>2. pages[p].freeCount < AllocAfterFree
        BY DEF PoolInv, Counted
      <4>3. /\ 0 <= Used(pages[p].freeCount)
            /\ Used(pages[p].freeCount) <= AllocAfterFree - 2
        BY <1>3, <4>2, ExclusiveAssumption DEF Used
      <4>4. Used(pages[p].freeCount) \in Nat /\ AllocAfterFree \in Nat
        BY <1>4, ExclusiveAssumption
      <4> QED BY <1>7, <1>8, <3>1, <4>1, <4>3, <4>4
    <3>2. CASE q # p
      <4>1. pages[q].storage # pages[p].storage
        BY <3>2 DEF PoolInv, StoragesOwned
      <4>2. history'[pages[q].storage] = history[pages[q].storage]
        BY <1>1, <4>1 DEF PoolInv, TypeOK
      <4> QED BY <1>7, <3>2, <4>2 DEF PoolInv, Counted
    <3> QED BY <3>1, <3>2
  <2> QED BY <1>7, <2>1 DEF Counted
<1> QED BY <1>10, <1>12, <1>13, <1>14, <1>15, <1>16 DEF PoolInv

\* A new page takes the last place, with a buffer no other page has.
LEMMA AllocInv ==
  ASSUME PoolInv, NEW size \in Sizes, Alloc(size)
  PROVE  PoolInv'
<1>1. PICK s \in Storages \ storages, d \in Descriptors, average \in 0 .. MaxAllocSize :
        /\ Fresh(d)
        /\ storages' = storages \cup {s}
        /\ pages' = Append(pages,
             [storage |-> s, allocSize |-> AllocSize(average, size), size |-> size,
              padding |-> CalculatePadding(size), handle |-> d,
              freeCount |-> AllocAfterFree - 1])
        /\ location' = [location EXCEPT ![d] = Len(pages)]
        /\ held' = held \cup {d}
        /\ history' = [history EXCEPT ![s] = Unseen]
  BY DEF Alloc
<1>2. size \in Nat /\ CalculatePadding(size) \in Nat /\ average \in Nat
  BY ExclusiveAssumption, PaddingForms DEF CalculatePadding
<1>3. PICK room \in Nat :
        /\ room = AllocSize(average, size)
        /\ room % Alignment = 0
        /\ size + CalculatePadding(size) <= room
  <2> DEFINE n == IF average > size THEN average ELSE size
  <2>1. n \in Nat /\ size <= n
    BY <1>2
  <2> HIDE DEF n
  <2>2. AllocSize(average, size) = n + CalculatePadding(n)
    BY DEF AllocSize, n
  <2>3. n + CalculatePadding(n) \in Nat /\ (n + CalculatePadding(n)) % Alignment = 0
    <3>1. CalculatePadding(n) \in Nat
      BY <2>1, PaddingForms, ExclusiveAssumption DEF CalculatePadding
    <3>2. (n + CalculatePadding(n)) % Alignment = 0
      BY <2>1, PaddedAligned, ExclusiveAssumption DEF CalculatePadding
    <3> QED BY <2>1, <3>1, <3>2
  <2>4. size <= n + CalculatePadding(n)
    BY <1>2, <2>1, PaddingForms, ExclusiveAssumption DEF CalculatePadding
  <2>5. size + CalculatePadding(size) <= n + CalculatePadding(n)
    BY <1>2, <2>3, <2>4, PaddedFits, ExclusiveAssumption DEF CalculatePadding
  <2> QED BY <2>2, <2>3, <2>5
<1> DEFINE new == [storage |-> s, allocSize |-> room, size |-> size,
                   padding |-> CalculatePadding(size), handle |-> d,
                   freeCount |-> AllocAfterFree - 1]
<1>4. new \in Page
  BY <1>2, <1>3, ExclusiveAssumption DEF Page
<1>5. /\ new.storage = s /\ new.allocSize = room /\ new.size = size
      /\ new.padding = CalculatePadding(size) /\ new.handle = d
      /\ new.freeCount = AllocAfterFree - 1
  OBVIOUS
<1>6. pages' = Append(pages, new)
  BY <1>1, <1>3
<1> HIDE DEF new
<1>7. pages \in Seq(Page) /\ Len(pages) \in Nat /\ DOMAIN pages = 1 .. Len(pages)
  BY PageForms DEF PoolInv, TypeOK
<1>8. PICK last \in Nat : last = Len(pages) + 1
  BY <1>7
<1>9. /\ pages' \in Seq(Page)
      /\ DOMAIN pages' = DOMAIN pages \cup {last}
      /\ last \notin DOMAIN pages
      /\ pages'[last] = new
      /\ \A q \in DOMAIN pages : pages'[q] = pages[q]
  <2>1. /\ pages' \in Seq(Page)
        /\ Len(pages') = Len(pages) + 1
        /\ \A q \in 1 .. Len(pages) : pages'[q] = pages[q]
        /\ pages'[Len(pages) + 1] = new
    BY <1>4, <1>6, <1>7, AppendProperties
  <2>2. DOMAIN pages' = 1 .. Len(pages')
    BY <2>1, LenProperties
  <2> QED BY <1>7, <1>8, <2>1, <2>2
<1>10. \A q \in DOMAIN pages : pages[q].handle # d /\ pages[q].storage # s
  BY <1>1 DEF Fresh, InPool, PoolInv, StoragesOwned
<1>11. \A q \in DOMAIN pages : pages[q] \in Page /\ pages[q].handle \in Descriptors
                               /\ pages[q].storage \in Storages
  BY PageForms
<1>12. TypeOK'
  <2>1. since' \in 0 .. CheckPeriod
    BY TickType DEF Alloc, PoolInv, TypeOK
  <2>2. history' \in [Storages -> [seen: Nat, reused: BOOLEAN]]
    BY <1>1 DEF PoolInv, TypeOK, Unseen
  <2>3. location' \in [Descriptors -> Nat \cup {-1}]
    BY <1>1, <1>7 DEF PoolInv, TypeOK
  <2>4. held' \subseteq Descriptors /\ storages' \subseteq Storages
    BY <1>1 DEF PoolInv, TypeOK
  <2> QED BY <1>9, <2>1, <2>2, <2>3, <2>4 DEF TypeOK, CheckPeriod
<1>13. Located'
  <2>1. location'[d] = last - 1 /\ \A c \in Descriptors : c # d => location'[c] = location[c]
    BY <1>1, <1>7, <1>8 DEF PoolInv, TypeOK
  <2>2. ASSUME NEW q \in DOMAIN pages' PROVE location'[pages'[q].handle] = q - 1
    <3>1. CASE q = last
      BY <1>5, <1>9, <2>1, <3>1
    <3>2. CASE q # last
      <4>1. q \in DOMAIN pages /\ pages'[q] = pages[q]
        BY <1>9, <3>2
      <4>2. location'[pages[q].handle] = location[pages[q].handle]
        BY <1>10, <1>11, <2>1, <4>1
      <4> QED BY <4>1, <4>2 DEF PoolInv, Located
    <3> QED BY <3>1, <3>2
  <2>3. ASSUME NEW c \in Descriptors, ~InPool(c)' PROVE location'[c] = -1
    <3>1. c # d
      BY <1>5, <1>9, <2>3 DEF InPool
    <3>2. ~InPool(c)
      BY <1>9, <2>3 DEF InPool
    <3> QED BY <2>1, <3>1, <3>2 DEF PoolInv, Located
  <2> QED BY <2>2, <2>3 DEF Located
<1>14. StoragesOwned'
  <2>1. storages' = {pages'[p].storage : p \in DOMAIN pages'}
    <3>1. storages = {pages[p].storage : p \in DOMAIN pages}
      BY DEF PoolInv, StoragesOwned
    <3> QED BY <1>1, <1>5, <1>9, <3>1
  <2>2. ASSUME NEW p \in DOMAIN pages', NEW q \in DOMAIN pages',
               pages'[p].storage = pages'[q].storage
        PROVE  p = q
    BY <1>5, <1>9, <1>10, <2>2 DEF PoolInv, StoragesOwned
  <2> QED BY <2>1, <2>2 DEF StoragesOwned
<1>15. PagesAligned' /\ SliceFits'
  BY <1>3, <1>5, <1>9 DEF PoolInv, PagesAligned, SliceFits
<1>16. Counted'
  <2>1. /\ history'[s] = [seen |-> 0, reused |-> FALSE]
        /\ \A r \in Storages : r # s => history'[r] = history[r]
    BY <1>1 DEF PoolInv, TypeOK, Unseen
  <2>2. ASSUME NEW q \in DOMAIN pages'
        PROVE  LET page == pages'[q]
                   past == history'[page.storage]
               IN /\ past.seen <= page.freeCount /\ page.freeCount < AllocAfterFree
                  /\ past.reused => page.freeCount - past.seen <= AllocAfterFree - 2
    <3>1. CASE q = last
      BY <1>5, <1>9, <2>1, <3>1, ExclusiveAssumption
    <3>2. CASE q # last
      <4>1. q \in DOMAIN pages /\ pages'[q] = pages[q]
        BY <1>9, <3>2
      <4>2. history'[pages[q].storage] = history[pages[q].storage]
        BY <1>10, <1>11, <2>1, <4>1
      <4> QED BY <4>1, <4>2 DEF PoolInv, Counted
    <3> QED BY <3>1, <3>2
  <2> QED BY <2>2 DEF Counted
<1> QED BY <1>12, <1>13, <1>14, <1>15, <1>16 DEF PoolInv

\* bind() hands the page of one descriptor, found by its location, to another.
LEMMA BindInv ==
  ASSUME PoolInv, NEW reserved \in Descriptors, NEW new \in Descriptors,
         Bind(reserved, new)
  PROVE  PoolInv'
<1>1. PICK p \in DOMAIN pages : pages[p].handle = reserved
  BY DEF Bind, InPool
<1>2. /\ pages \in Seq(Page) /\ DOMAIN pages = 1 .. Len(pages) /\ Len(pages) \in Nat
      /\ pages[p] \in Page
      /\ location \in [Descriptors -> Nat \cup {-1}]
  BY PageForms DEF PoolInv, TypeOK
<1>3. location[reserved] = p - 1 /\ location[reserved] + 1 = p
  <2>1. location[reserved] = p - 1
    BY <1>1 DEF PoolInv, Located
  <2> QED BY <1>2, <2>1
<1> DEFINE page == [pages[p] EXCEPT !.handle = new]
<1>4. pages' = [pages EXCEPT ![p] = page]
  BY <1>2, <1>3 DEF Bind
<1>5. /\ page \in Page
      /\ page.storage = pages[p].storage /\ page.allocSize = pages[p].allocSize
      /\ page.size = pages[p].size /\ page.padding = pages[p].padding
      /\ page.freeCount = pages[p].freeCount /\ page.handle = new
  BY <1>2 DEF Page
<1> HIDE DEF page
<1>6. /\ pages' \in Seq(Page)
      /\ DOMAIN pages' = DOMAIN pages
      /\ pages'[p] = page
      /\ \A q \in DOMAIN pages : q # p => pages'[q] = pages[q]
  BY <1>2, <1>4, <1>5, ExceptSeq
<1>7. \A q \in DOMAIN pages :
        /\ pages'[q].storage = pages[q].storage
        /\ pages'[q].allocSize = pages[q].allocSize
        /\ pages'[q].size = pages[q].size
        /\ pages'[q].padding = pages[q].padding
        /\ pages'[q].freeCount = pages[q].freeCount
  BY <1>5, <1>6
<1>8. storages' = storages /\ since' = since /\ history' = history
  BY DEF Bind
<1>9. /\ new # reserved /\ ~InPool(new)
      /\ location'[new] = p - 1 /\ location'[reserved] = -1
      /\ \A c \in Descriptors : c \notin {new, reserved} => location'[c] = location[c]
      /\ location' \in [Descriptors -> Nat \cup {-1}]
  <2>1. new # reserved /\ ~InPool(new)
    BY DEF Bind
  <2>2. location' = [location EXCEPT ![new] = p - 1, ![reserved] = -1]
    BY <1>3 DEF Bind
  <2>3. p - 1 \in Nat
    BY <1>2
  <2> QED BY <1>2, <2>1, <2>2, <2>3
<1>10. TypeOK'
  <2>1. held' \subseteq Descriptors
    BY DEF Bind, PoolInv, TypeOK
  <2> QED BY <1>6, <1>8, <1>9, <2>1 DEF PoolInv, TypeOK, CheckPeriod
<1>11. Located'
  <2>1. ASSUME NEW q \in DOMAIN pages PROVE location'[pages'[q].handle] = q - 1
    <3>1. CASE q = p
      BY <1>5, <1>6, <1>9, <3>1
    <3>2. CASE q # p
      <4>1. pages'[q] = pages[q] /\ location[pages[q].handle] = q - 1
            /\ pages[q].handle \in Descriptors
        BY <1>6, <3>2, PageForms DEF PoolInv, Located
      <4>2. pages[q].handle # new
        BY <1>9 DEF InPool
      <4>3. pages[q].handle # reserved
        BY <1>2, <1>3, <3>2, <4>1
      <4> QED BY <1>9, <4>1, <4>2, <4>3
    <3> QED BY <3>1, <3>2
  <2>2. ASSUME NEW c \in Descriptors, ~InPool(c)' PROVE location'[c] = -1
    <3>1. c # new
      BY <1>5, <1>6, <2>2 DEF InPool
    <3>2. CASE c = reserved
      BY <1>9, <3>2
    <3>3. CASE c # reserved
      <4>1. ~InPool(c)
        <5>1. ASSUME NEW q \in DOMAIN pages PROVE pages[q].handle # c
          BY <1>1, <1>6, <2>2, <3>3 DEF InPool
        <5> QED BY <5>1 DEF InPool
      <4> QED BY <1>9, <3>1, <3>3, <4>1 DEF PoolInv, Located
    <3> QED BY <3>2, <3>3
  <2> QED BY <1>6, <2>1, <2>2 DEF Located
<1>12. StoragesOwned'
  BY <1>6, <1>7, <1>8 DEF PoolInv, StoragesOwned
<1>13. PagesAligned' /\ SliceFits' /\ Counted'
  BY <1>6, <1>7, <1>8 DEF PoolInv, PagesAligned, SliceFits, Counted
<1> QED BY <1>10, <1>11, <1>12, <1>13 DEF PoolInv

\* cleanup(): the pages that stay are those found in use, and those found free
\* that are not due yet; these are counted.  Positions follow from the order in
\* which the pages are kept.
LEMMA CleanupInv ==
  ASSUME PoolInv, NEW explicit \in BOOLEAN, Cleanup(explicit)
  PROVE  PoolInv'
<1> DEFINE counted(page) == IF IsFree(page) THEN [page EXCEPT !.freeCount = @ + 1] ELSE page
           list == [p \in DOMAIN pages |-> counted(pages[p])]
           stay == {p \in DOMAIN pages : ~Goes(pages[p], explicit)}
           kept == Kept(list, stay)
           from == InOrder(stay)
<1>1. /\ pages' = kept
      /\ location' = Renumbered(kept)
      /\ storages' = storages \ Freed(explicit)
      /\ since' = 0
      /\ history' =
           [s \in Storages |->
              IF s \in Freed(explicit) THEN Unseen
              ELSE IF \E p \in DOMAIN pages : pages[p].storage = s /\ IsFree(pages[p])
              THEN [history[s] EXCEPT !.seen = @ + 1] ELSE history[s]]
      /\ held' = held
  BY DEF Cleanup
<1>2. /\ pages \in Seq(Page) /\ Len(pages) \in Nat /\ DOMAIN pages = 1 .. Len(pages)
      /\ \A p \in DOMAIN pages : pages[p] \in Page
  BY PageForms DEF PoolInv, TypeOK
<1>3. \A p \in DOMAIN pages :
        /\ counted(pages[p]) \in Page
        /\ counted(pages[p]).storage = pages[p].storage
        /\ counted(pages[p]).allocSize = pages[p].allocSize
        /\ counted(pages[p]).size = pages[p].size
        /\ counted(pages[p]).padding = pages[p].padding
        /\ counted(pages[p]).handle = pages[p].handle
        /\ counted(pages[p]).freeCount =
             IF IsFree(pages[p]) THEN pages[p].freeCount + 1 ELSE pages[p].freeCount
  <2>1. ASSUME NEW page \in Page
        PROVE  /\ counted(page) \in Page
               /\ counted(page).storage = page.storage
               /\ counted(page).allocSize = page.allocSize
               /\ counted(page).size = page.size
               /\ counted(page).padding = page.padding
               /\ counted(page).handle = page.handle
               /\ counted(page).freeCount =
                    IF IsFree(page) THEN page.freeCount + 1 ELSE page.freeCount
    <3>1. CASE IsFree(page)
      <4>1. counted(page) = [page EXCEPT !.freeCount = @ + 1]
        BY <3>1
      <4> HIDE DEF counted
      <4> QED BY <3>1, <4>1 DEF Page
    <3>2. CASE ~IsFree(page)
      BY <3>2
    <3> QED BY <3>1, <3>2
  <2> HIDE DEF counted
  <2> QED BY <1>2, <2>1
<1>4. /\ list \in Seq(Page) /\ Len(list) = Len(pages)
      /\ \A p \in DOMAIN pages : list[p] = counted(pages[p])
  <2>1. list \in [1 .. Len(pages) -> Page]
    BY <1>2, <1>3
  <2> QED BY <1>2, <2>1, SeqDef, LenProperties
<1>5. stay \in SUBSET (1 .. Len(list))
  BY <1>2, <1>4
<1>6. PICK n \in Nat : n = Cardinality(stay)
  BY <1>4, <1>5, KeptForms
<1> HIDE DEF counted, list, stay
<1>7. /\ kept \in Seq(Page)
      /\ Len(kept) = n
      /\ DOMAIN kept = 1 .. n
      /\ from \in [1 .. n -> stay]
      /\ \A q \in 1 .. n : kept[q] = list[from[q]]
      /\ \A q, r \in 1 .. n : q # r => from[q] # from[r]
      /\ \A p \in stay : \E q \in 1 .. n : from[q] = p
  BY <1>4, <1>5, <1>6, KeptForms
<1> HIDE DEF kept, from
<1>8. /\ stay \subseteq DOMAIN pages
      /\ \A p \in DOMAIN pages : p \in stay <=> ~Goes(pages[p], explicit)
  BY DEF stay
<1>9. \A q \in 1 .. n :
        /\ from[q] \in stay /\ from[q] \in DOMAIN pages
        /\ kept[q] = counted(pages[from[q]])
        /\ kept[q].storage = pages[from[q]].storage
        /\ kept[q].handle = pages[from[q]].handle
  BY <1>3, <1>4, <1>7, <1>8, SMTT(30)
\* Different pages are kept with different handles and storages.
<1>10. \A q, r \in 1 .. n :
         /\ kept[q].handle = kept[r].handle => q = r
         /\ kept[q].storage = kept[r].storage => q = r
  <2>1. \A o, p \in DOMAIN pages : pages[o].handle = pages[p].handle => o = p
    <3>1. \A p \in DOMAIN pages : location[pages[p].handle] = p - 1
      BY DEF PoolInv, Located
    <3>2. ASSUME NEW o \in DOMAIN pages, NEW p \in DOMAIN pages,
                 pages[o].handle = pages[p].handle
          PROVE  o = p
      <4>1. o - 1 = p - 1
        BY <3>1, <3>2
      <4> QED BY <1>2, <4>1
    <3> QED BY <3>2
  <2>2. \A o, p \in DOMAIN pages : pages[o].storage = pages[p].storage => o = p
    BY DEF PoolInv, StoragesOwned
  <2> QED BY <1>7, <1>9, <2>1, <2>2
<1>11. TypeOK'
  <2>1. since' \in 0 .. CheckPeriod
    BY <1>1, ExclusiveAssumption DEF CheckPeriod
  <2>2. history' \in [Storages -> [seen: Nat, reused: BOOLEAN]]
    BY <1>1 DEF PoolInv, TypeOK, Unseen
  <2>3. location' \in [Descriptors -> Nat \cup {-1}]
    <3>1. ASSUME NEW d \in Descriptors PROVE location'[d] \in Nat \cup {-1}
      <4>1. CASE \E p \in DOMAIN kept : kept[p].handle = d
        <5>1. \E p \in 0 .. Len(kept) - 1 : kept[p + 1].handle = d
          <6>1. PICK q \in DOMAIN kept : kept[q].handle = d
            BY <4>1
          <6>2. q - 1 \in 0 .. Len(kept) - 1 /\ (q - 1) + 1 = q
            BY <1>7
          <6> QED BY <6>1, <6>2
        <5>2. location'[d] = CHOOSE p \in 0 .. (Len(kept) - 1) : kept[p + 1].handle = d
          BY <1>1, <4>1 DEF Renumbered
        <5>3. location'[d] \in 0 .. Len(kept) - 1
          BY <5>1, <5>2
        <5> QED BY <1>7, <5>3
      <4>2. CASE ~ \E p \in DOMAIN kept : kept[p].handle = d
        BY <1>1, <4>2 DEF Renumbered, PoolInv, TypeOK
      <4> QED BY <4>1, <4>2
    <3>2. DOMAIN location' = Descriptors /\ location' = [d \in Descriptors |-> location'[d]]
      BY <1>1 DEF Renumbered
    <3> QED BY <3>1, <3>2
  <2>4. held' \subseteq Descriptors /\ storages' \subseteq Storages
    BY <1>1 DEF PoolInv, TypeOK
  <2> QED BY <1>1, <1>7, <2>1, <2>2, <2>3, <2>4 DEF TypeOK, CheckPeriod
<1>12. Located'
  <2>1. ASSUME NEW q \in 1 .. n PROVE location'[kept[q].handle] = q - 1
    <3>1. PICK d \in Descriptors : d = kept[q].handle
      BY <1>9, PageForms
    <3>2. q - 1 \in 0 .. Len(kept) - 1 /\ kept[(q - 1) + 1].handle = d
      BY <1>6, <1>7, <3>1
    <3>3. \A p \in 0 .. Len(kept) - 1 : kept[p + 1].handle = d => p = q - 1
      <4>1. ASSUME NEW p \in 0 .. Len(kept) - 1, kept[p + 1].handle = d PROVE p = q - 1
        <5>1. p + 1 \in 1 .. n
          BY <1>6, <1>7
        <5>2. p + 1 = q
          BY <1>10, <3>1, <4>1, <5>1
        <5> QED BY <5>2
      <4> QED BY <4>1
    <3>4. location'[d] = CHOOSE p \in 0 .. (Len(kept) - 1) : kept[p + 1].handle = d
      BY <1>1, <1>7, <3>1 DEF Renumbered
    <3> QED BY <3>1, <3>2, <3>3, <3>4
  <2>2. ASSUME NEW c \in Descriptors, ~InPool(c)' PROVE location'[c] = -1
    <3>1. ~ \E p \in DOMAIN kept : kept[p].handle = c
      BY <1>1, <2>2 DEF InPool
    <3>2. location'[c] = IF InPool(c) THEN -1 ELSE location[c]
      BY <1>1, <3>1 DEF Renumbered
    <3> QED BY <3>2 DEF PoolInv, Located
  <2> QED BY <1>1, <1>7, <2>1, <2>2 DEF Located
<1>13. \A p \in DOMAIN pages : pages[p].storage \in Freed(explicit) <=> p \notin stay
  <2>1. ASSUME NEW p \in DOMAIN pages, pages[p].storage \in Freed(explicit)
        PROVE  p \notin stay
    <3>1. PICK o \in DOMAIN pages : Goes(pages[o], explicit) /\ pages[p].storage = pages[o].storage
      BY <2>1 DEF Freed
    <3>2. o = p
      BY <3>1 DEF PoolInv, StoragesOwned
    <3> QED BY <1>8, <3>1, <3>2
  <2>2. ASSUME NEW p \in DOMAIN pages, p \notin stay
        PROVE  pages[p].storage \in Freed(explicit)
    BY <1>8, <2>2 DEF Freed
  <2> QED BY <2>1, <2>2
<1>14. StoragesOwned'
  <2>1. ASSUME NEW s \in storages' PROVE \E q \in 1 .. n : kept[q].storage = s
    <3>1. PICK p \in DOMAIN pages : pages[p].storage = s
      BY <1>1, <2>1 DEF PoolInv, StoragesOwned
    <3>2. p \in stay
      BY <1>1, <1>13, <2>1, <3>1
    <3>3. PICK q \in 1 .. n : from[q] = p
      BY <1>7, <3>2
    <3> QED BY <1>9, <3>1, <3>3
  <2>2. ASSUME NEW q \in 1 .. n PROVE kept[q].storage \in storages'
    <3>1. pages[from[q]].storage \in storages
      BY <1>9 DEF PoolInv, StoragesOwned
    <3> QED BY <1>1, <1>9, <1>13, <3>1
  <2>3. storages' = {kept[q].storage : q \in 1 .. n}
    BY <2>1, <2>2
  <2> QED BY <1>1, <1>7, <1>10, <2>3 DEF StoragesOwned
<1>15. PagesAligned' /\ SliceFits'
  <2>1. ASSUME NEW q \in 1 .. n
        PROVE  /\ kept[q].allocSize % Alignment = 0
               /\ kept[q].size + kept[q].padding <= kept[q].allocSize
    <3>1. from[q] \in DOMAIN pages /\ kept[q] = counted(pages[from[q]])
      BY <1>9
    <3>2. /\ kept[q].allocSize = pages[from[q]].allocSize
          /\ kept[q].size = pages[from[q]].size
          /\ kept[q].padding = pages[from[q]].padding
      BY <1>3, <3>1
    <3> QED BY <3>1, <3>2 DEF PoolInv, PagesAligned, SliceFits
  <2> QED BY <1>1, <1>7, <2>1 DEF PagesAligned, SliceFits
<1>16. Counted'
  <2>1. ASSUME NEW q \in 1 .. n
        PROVE  LET page == kept[q]
                   past == history'[page.storage]
               IN /\ past.seen <= page.freeCount /\ page.freeCount < AllocAfterFree
                  /\ past.reused => page.freeCount - past.seen <= AllocAfterFree - 2
    <3>1. PICK p \in DOMAIN pages : p = from[q] /\ p \in stay
      BY <1>9
    <3>2. /\ kept[q].storage = pages[p].storage
          /\ kept[q].freeCount =
               IF IsFree(pages[p]) THEN pages[p].freeCount + 1 ELSE pages[p].freeCount
      BY <1>3, <1>9, <3>1
    <3>3. PICK s \in Storages : s = pages[p].storage
      BY PageForms
    <3>4. s \notin Freed(explicit) /\ ~Goes(pages[p], explicit)
      BY <1>8, <1>13, <3>1, <3>3
    <3>5. (\E o \in DOMAIN pages : pages[o].storage = s /\ IsFree(pages[o]))
            <=> IsFree(pages[p])
      BY <3>3 DEF PoolInv, StoragesOwned
    <3>6. /\ history[s] \in [seen: Nat, reused: BOOLEAN]
          /\ pages[p].freeCount \in Nat
          /\ AllocAfterFree \in Nat
      BY PageForms, ExclusiveAssumption DEF PoolInv, TypeOK
    <3>7. /\ history[s].seen <= pages[p].freeCount
          /\ pages[p].freeCount < AllocAfterFree
          /\ history[s].reused => pages[p].freeCount - history[s].seen <= AllocAfterFree - 2
      BY <3>3 DEF PoolInv, Counted
    <3>8. CASE IsFree(pages[p])
      <4>1. history'[s] = [history[s] EXCEPT !.seen = @ + 1]
        BY <1>1, <3>4, <3>5, <3>8
      <4>2. history'[s].seen = history[s].seen + 1 /\ history'[s].reused = history[s].reused
        BY <3>6, <4>1
      <4>3. kept[q].freeCount = pages[p].freeCount + 1
        BY <3>2, <3>8
      <4>4. pages[p].freeCount + 1 < AllocAfterFree
        BY <3>4, <3>6, <3>8 DEF Goes
      <4>5. history[s].seen \in Nat
        BY <3>6
      <4> QED BY <3>2, <3>3, <3>6, <3>7, <4>2, <4>3, <4>4, <4>5
    <3>9. CASE ~IsFree(pages[p])
      <4>1. history'[s] = history[s]
        BY <1>1, <3>4, <3>5, <3>9
      <4>2. kept[q].freeCount = pages[p].freeCount
        BY <3>2, <3>9
      <4> QED BY <3>2, <3>3, <3>7, <4>1, <4>2
    <3> QED BY <3>8, <3>9
  <2> QED BY <1>1, <1>7, <2>1 DEF Counted
<1> QED BY <1>11, <1>12, <1>14, <1>15, <1>16 DEF PoolInv

-----------------------------------------------------------------------------
(* Theorems *)

LEMMA NextInv ==
  ASSUME PoolInv, [Next]_vars
  PROVE  PoolInv'
<1>1. CASE UNCHANGED vars
  <2>1. TypeOK' /\ Located'
    BY <1>1 DEF vars, PoolInv, TypeOK, Located, InPool, CheckPeriod
  <2>2. StoragesOwned' /\ PagesAligned' /\ SliceFits' /\ Counted'
    BY <1>1 DEF vars, PoolInv, StoragesOwned, PagesAligned, SliceFits, Counted
  <2> QED BY <2>1, <2>2 DEF PoolInv
<1>2. CASE \E d \in Descriptors : NewHandle(d) \/ Release(d)
  BY <1>2, NewHandleInv, ReleaseInv
<1>3. CASE ReserveElsewhere
  BY <1>3, ReserveElsewhereInv
<1>4. CASE \E size \in Sizes : TryReserve(size) \/ Alloc(size)
  BY <1>4, TryReserveInv, AllocInv
<1>5. CASE \E reserved, new \in Descriptors : Bind(reserved, new)
  BY <1>5, BindInv
<1>6. CASE \E explicit \in BOOLEAN : Cleanup(explicit)
  BY <1>6, CleanupInv
<1> QED BY <1>1, <1>2, <1>3, <1>4, <1>5, <1>6 DEF Next

\* The pool keeps its invariant: every buffer of the device has one page, every
\* descriptor knows its page, and the counts of the pages are bounded by
\* ALLOC_AFTER_FREE.
THEOREM PoolInvariant == Spec => []PoolInv
<1>1. Init => PoolInv
  BY InitInv
<1>2. PoolInv /\ [Next]_vars => PoolInv'
  BY NextInv
<1> QED BY <1>1, <1>2, PTL DEF Spec

\* However many pages cleanup() takes out, a binding leads to its own page.
THEOREM BindingFindsPage == Spec => []FindsPage
<1>1. PoolInv => FindsPage
  <2>1. SUFFICES ASSUME PoolInv, NEW d \in held
                 PROVE  IF InPool(d)
                        THEN /\ location[d] + 1 \in DOMAIN pages
                             /\ pages[location[d] + 1].handle = d
                        ELSE location[d] = -1
    BY DEF FindsPage
  <2>2. CASE InPool(d)
    <3>1. PICK p \in DOMAIN pages : pages[p].handle = d
      BY <2>2 DEF InPool
    <3>2. location[d] = p - 1 /\ p \in Nat
      BY <2>1, <3>1, PageForms DEF PoolInv, Located
    <3>3. location[d] + 1 = p
      BY <3>2
    <3> QED BY <2>2, <3>1, <3>3
  <2>3. CASE ~InPool(d)
    BY <2>1, <2>3 DEF PoolInv, Located, TypeOK
  <2> QED BY <2>2, <2>3
<1> QED BY <1>1, PoolInvariant, PTL

\* Every size the pool gives out fits, padded, in the page it was given.
THEOREM SlicesFit == Spec => []SliceFits
<1>1. PoolInv => SliceFits
  BY DEF PoolInv
<1> QED BY <1>1, PoolInvariant, PTL

\* No page is kept once it was found free ALLOC_AFTER_FREE times.
THEOREM FreePagesGo == Spec => []GoneAfterPeriod
<1>1. PoolInv => GoneAfterPeriod
  <2>1. SUFFICES ASSUME PoolInv, NEW s \in storages
                 PROVE  history[s].seen < AllocAfterFree
    BY DEF GoneAfterPeriod
  <2>2. PICK p \in DOMAIN pages : pages[p].storage = s
    BY <2>1 DEF PoolInv, StoragesOwned
  <2>3. /\ history[s].seen <= pages[p].freeCount
        /\ pages[p].freeCount < AllocAfterFree
    BY <2>1, <2>2 DEF PoolInv, Counted
  <2>4. history[s].seen \in Nat /\ pages[p].freeCount \in Nat /\ AllocAfterFree \in Nat
    BY <2>1, PageForms, ExclusiveAssumption DEF PoolInv, TypeOK
  <2> QED BY <2>3, <2>4
<1> QED BY <1>1, PoolInvariant, PTL

\* A page that was ever reused survives the first check that finds it free.
THEOREM ReusedPagesStay == Spec => []ReusedIsKept
<1>1. PoolInv => ReusedIsKept
  <2>1. SUFFICES ASSUME PoolInv, NEW p \in DOMAIN pages, Goes(pages[p], FALSE),
                        history[pages[p].storage].reused
                 PROVE  history[pages[p].storage].seen >= 1
    BY DEF ReusedIsKept
  <2>2. pages[p].freeCount + 1 >= AllocAfterFree
    BY <2>1 DEF Goes
  <2>3. pages[p].freeCount - history[pages[p].storage].seen <= AllocAfterFree - 2
    BY <2>1 DEF PoolInv, Counted
  <2>4. /\ history[pages[p].storage].seen \in Nat
        /\ pages[p].freeCount \in Nat /\ AllocAfterFree \in Nat
    BY <2>1, PageForms, ExclusiveAssumption DEF PoolInv, TypeOK
  <2> QED BY <2>2, <2>3, <2>4
<1> QED BY <1>1, PoolInvariant, PTL
=============================================================================
