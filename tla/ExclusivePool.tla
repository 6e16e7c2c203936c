---------------------------- MODULE ExclusivePool ----------------------------
(***************************************************************************)
(* A pool of pages of one slice each (cubecl-runtime,                      *)
(* memory_management/memory_pool/exclusive_pool.rs).  cleanup() counts how *)
(* often it found a page free and gives it back in the end.                *)
(*                                                                         *)
(* The size of a new page follows a running average of the sizes asked     *)
(* for, which is a floating-point number: here it is any size the pool     *)
(* accepts.  Each operation reads every page at most once, so a reference  *)
(* dropped meanwhile is as good as one dropped before or after it.         *)
(***************************************************************************)
EXTENDS Slices, Sequences

CONSTANTS
  Storages,       \* identities of the buffers the device has room for
  MaxAllocSize,   \* ExclusiveMemoryPool::max_alloc_size
  DeallocPeriod,  \* ExclusiveMemoryPool::dealloc_period
  AllocAfterFree, \* ALLOC_AFTER_FREE
  Sizes           \* sizes a client may ask for

\* "Pages should be allocated to be aligned."  ALLOC_AFTER_FREE is 5.
ASSUME ExclusiveAssumption ==
  /\ Alignment \in Nat \ {0}
  /\ MaxAllocSize \in Nat /\ MaxAllocSize % Alignment = 0
  /\ DeallocPeriod \in Nat
  /\ AllocAfterFree \in Nat \ {0, 1}
  /\ Sizes \subseteq Nat

VARIABLES
  pages,     \* ExclusiveMemoryPool::pages
  location,  \* page number stored in each descriptor, -1 when it has none
  held,      \* descriptors referenced outside the pool
  storages,  \* buffers allocated on the device
  since,     \* reserves since last_dealloc_check, counted up to the period
  history    \* per buffer: the checks that found it free since its last use, and
             \* whether it was reused; history variable

vars == <<pages, location, held, storages, since, history>>

\* MemoryPage of the pool; the slice starts at 0 of its buffer.
Page ==
  [storage: Storages, allocSize: Nat, size: Nat, padding: Nat,
   handle: Descriptors, freeCount: Nat]

IsFree(page) == page.handle \notin held

InPool(d) == \E p \in DOMAIN pages : pages[p].handle = d

Fresh(d) == d \notin held /\ ~InPool(d)

Accept(size) == MaxAllocSize >= size

Fits(page, size) == page.allocSize >= size /\ IsFree(page)

\* The page get_free_page() returns: the first with the least free count.
FreePage(size, p) ==
  /\ p \in DOMAIN pages
  /\ Fits(pages[p], size)
  /\ \A q \in DOMAIN pages : Fits(pages[q], size) =>
       \/ pages[p].freeCount < pages[q].freeCount
       \/ pages[p].freeCount = pages[q].freeCount /\ p <= q

CheckPeriod == DeallocPeriod \div AllocAfterFree

Tick == IF since < CheckPeriod THEN since + 1 ELSE since

Unseen == [seen |-> 0, reused |-> FALSE]
-----------------------------------------------------------------------------
Init ==
  /\ pages = <<>>
  /\ location = [d \in Descriptors |-> -1]
  /\ held = {}
  /\ storages = {}
  /\ since = 0
  /\ history = [s \in Storages |-> Unseen]

\* ManagedMemoryHandle::new()
NewHandle(d) ==
  /\ Fresh(d)
  /\ held' = held \cup {d}
  /\ UNCHANGED <<pages, location, storages, since, history>>

\* The last reference to a handle and its bindings is dropped.
Release(d) ==
  /\ d \in held
  /\ held' = held \ {d}
  /\ location' = IF InPool(d) THEN location ELSE [location EXCEPT ![d] = -1]
  /\ UNCHANGED <<pages, storages, since, history>>

\* A reserve that another pool serves, or that fails.
ReserveElsewhere ==
  /\ since' = Tick
  /\ since' # since
  /\ UNCHANGED <<pages, location, held, storages, history>>

\* Mutant: a use does not count.
UsedNot(n) == n

\* free_count.saturating_sub(1)
Used(n) == IF n = 0 THEN 0 ELSE n - 1

\* try_reserve()
TryReserve(size) ==
  /\ Accept(size)
  /\ \E p \in DOMAIN pages :
       /\ FreePage(size, p)
       /\ pages' = [pages EXCEPT ![p].size = size, ![p].padding = CalculatePadding(size),
                                 ![p].freeCount = Used(@)]
       /\ held' = held \cup {pages[p].handle}
       /\ history' = [history EXCEPT ![pages[p].storage] = [seen |-> 0, reused |-> TRUE]]
  /\ since' = Tick
  /\ UNCHANGED <<location, storages>>

\* Mutant: the size of a page is not rounded up.
AllocSizeRaw(average, size) == IF average > size THEN average ELSE size

AllocSize(average, size) ==
  LET n == IF average > size THEN average ELSE size
  IN n + CalculatePadding(n)

\* try_reserve() finds no page, alloc() makes one.
Alloc(size) ==
  /\ Accept(size)
  /\ \A p \in DOMAIN pages : ~Fits(pages[p], size)
  /\ \E s \in Storages \ storages, d \in Descriptors, average \in 0..MaxAllocSize :
       /\ Fresh(d)
       /\ storages' = storages \cup {s}
       /\ pages' = Append(pages,
            [storage |-> s, allocSize |-> AllocSize(average, size), size |-> size,
             padding |-> CalculatePadding(size), handle |-> d,
             freeCount |-> AllocAfterFree - 1])
       /\ location' = [location EXCEPT ![d] = Len(pages)]
       /\ held' = held \cup {d}
       /\ history' = [history EXCEPT ![s] = Unseen]
  /\ since' = Tick

\* bind(): the page of a reserved handle passes to the user's own handle.
Bind(reserved, new) ==
  /\ reserved \in held /\ InPool(reserved)
  /\ new \in held /\ ~InPool(new)
  /\ pages' = [pages EXCEPT ![location[reserved] + 1].handle = new]
  /\ location' = [location EXCEPT ![new] = location[reserved], ![reserved] = -1]
  /\ held' = held \ {reserved}
  /\ UNCHANGED <<storages, since, history>>

\* Mutant: one check too late.
GoesLate(page, explicit) ==
  IsFree(page) /\ (explicit \/ page.freeCount >= AllocAfterFree)

\* Pages that cleanup() gives back.
Goes(page, explicit) ==
  IsFree(page) /\ (explicit \/ page.freeCount + 1 >= AllocAfterFree)

\* Mutant: the descriptors keep their page.
RenumberedNone(kept) == location

\* Where the descriptors are once only the pages kept remain.
Renumbered(kept) ==
  [d \in Descriptors |->
     IF \E p \in DOMAIN kept : kept[p].handle = d
     THEN CHOOSE p \in 0..(Len(kept) - 1) : kept[p + 1].handle = d
     ELSE IF InPool(d) THEN -1 ELSE location[d]]

\* Mutant: the buffers are not given back.
FreedNone(explicit) == {}

Freed(explicit) ==
  {pages[p].storage : p \in {q \in DOMAIN pages : Goes(pages[q], explicit)}}

\* cleanup() when it is explicit or when the period is over.
Cleanup(explicit) ==
  /\ explicit \/ since >= CheckPeriod
  /\ LET counted(page) == IF IsFree(page) THEN [page EXCEPT !.freeCount = @ + 1] ELSE page
         kept == Kept([p \in DOMAIN pages |-> counted(pages[p])],
                      {p \in DOMAIN pages : ~Goes(pages[p], explicit)})
     IN /\ pages' = kept
        /\ location' = Renumbered(kept)
  /\ storages' = storages \ Freed(explicit)
  /\ since' = 0
  /\ history' =
       [s \in Storages |->
          IF s \in Freed(explicit) THEN Unseen
          ELSE IF \E p \in DOMAIN pages : pages[p].storage = s /\ IsFree(pages[p])
          THEN [history[s] EXCEPT !.seen = @ + 1] ELSE history[s]]
  /\ UNCHANGED held

Next ==
  \/ \E d \in Descriptors : NewHandle(d) \/ Release(d)
  \/ ReserveElsewhere
  \/ \E size \in Sizes : TryReserve(size) \/ Alloc(size)
  \/ \E reserved, new \in Descriptors : Bind(reserved, new)
  \/ \E explicit \in BOOLEAN : Cleanup(explicit)

Spec == Init /\ [][Next]_vars
-----------------------------------------------------------------------------
(***************************************************************************)
(* Properties.                                                             *)
(***************************************************************************)
\* Every variable keeps its type.
TypeOK ==
  /\ pages \in Seq(Page)
  /\ location \in [Descriptors -> Nat \cup {-1}]
  /\ held \subseteq Descriptors
  /\ storages \subseteq Storages
  /\ since \in 0..CheckPeriod
  /\ history \in [Storages -> [seen: Nat, reused: BOOLEAN]]

\* A binding leads to its own page, a handle that was never bound nowhere.
FindsPage ==
  \A d \in held :
    IF InPool(d)
    THEN location[d] + 1 \in DOMAIN pages /\ pages[location[d] + 1].handle = d
    ELSE location[d] = -1

\* A buffer of the device belongs to exactly one page: none leaks, none is freed
\* under a page.
StoragesOwned ==
  /\ storages = {pages[p].storage : p \in DOMAIN pages}
  /\ \A p, q \in DOMAIN pages : pages[p].storage = pages[q].storage => p = q

\* However often a page is reused, the padded size of its slice fits in its
\* buffer ("By construction, we only ever get a page with a big enough size").
SliceFits ==
  \A p \in DOMAIN pages : pages[p].size + pages[p].padding <= pages[p].allocSize

\* "Check such that an alloc is free after at most dealloc_period": no page is
\* found free by as many checks as fit in the period and kept.
GoneAfterPeriod ==
  \A s \in storages : history[s].seen < AllocAfterFree

\* "we've seen this alloc as free multiple times, without it being used in the
\* meantime": a page that was ever reused goes at a periodic check only when an
\* earlier check has found it free since.
ReusedIsKept ==
  \A p \in DOMAIN pages :
    Goes(pages[p], FALSE) /\ history[pages[p].storage].reused
      => history[pages[p].storage].seen >= 1

(***************************************************************************)
(* The inductive invariant behind them.                                    *)
(***************************************************************************)
\* Every descriptor knows the page it is in, held or not; no two pages share one.
Located ==
  /\ \A p \in DOMAIN pages : location[pages[p].handle] = p - 1
  /\ \A d \in Descriptors : ~InPool(d) => location[d] = -1

\* Pages are of an aligned size, which is why padding fits where the size does.
PagesAligned ==
  \A p \in DOMAIN pages : pages[p].allocSize % Alignment = 0

\* free_count is at least the checks that found the page free, and has lost one
\* more when the page was reused since it was allocated.
Counted ==
  \A p \in DOMAIN pages :
    LET page == pages[p]
        past == history[page.storage]
    IN /\ past.seen <= page.freeCount /\ page.freeCount < AllocAfterFree
       /\ past.reused => page.freeCount - past.seen <= AllocAfterFree - 2

PoolInv ==
  /\ TypeOK
  /\ Located
  /\ StoragesOwned
  /\ PagesAligned
  /\ SliceFits
  /\ Counted
=============================================================================
