----------------------------- MODULE SlicedPool -----------------------------
(***************************************************************************)
(* A pool of pages cut into slices (cubecl-runtime,                        *)
(* memory_management/memory_pool/sliced_pool.rs).  A handle knows where    *)
(* its slice is by a page number and a position in the page; a split, a    *)
(* merge and the cleanup of the pool renumber them.                        *)
(*                                                                         *)
(* The inside of coalesce() is module MemoryPage.  Here it is one step:    *)
(* which slices it merges depends on the references at its start only, so  *)
(* a drop during its loop is as good as a drop after it.  User threads     *)
(* drop references between any two steps on pages.  A clone is left out:   *)
(* it matters here only whether a descriptor is referenced, not how often. *)
(***************************************************************************)
EXTENDS Slices, SequencesExt

CONSTANTS
  Storages,      \* identities of the buffers the device has room for
  PageSize,      \* SlicedPool::page_size
  MaxAllocSize,  \* SlicedPool::max_alloc_size
  Sizes          \* sizes a client may ask for

\* Pages are made of an aligned size; size 0 goes to another pool.
ASSUME PoolAssumption ==
  /\ IsFiniteSet(Storages)
  /\ Alignment \in Nat \ {0}
  /\ PageSize \in Nat /\ PageSize % Alignment = 0
  /\ MaxAllocSize \in 0..PageSize
  /\ Sizes \subseteq Nat \ {0}

VARIABLES
  pages,     \* SlicedPool::pages
  pagesTmp,  \* SlicedPool::pages_tmp, filled by cleanup()
  location,  \* page and slice position stored in each descriptor
  held,      \* descriptors referenced outside the pool
  storages,  \* buffers allocated on the device
  pc,        \* where the device thread is
  request,   \* argument of the reserve in progress
  index,     \* page the loop of try_reserve() or of cleanup() is at
  panicked   \* the expect() of alloc() failed

vars ==
  <<pages, pagesTmp, location, held, storages, pc, request, index, panicked>>

Uninit == [page |-> -1, slice |-> 0]

\* MemoryPage: base is the page number of its location_base.
Page == [storage: Storages, base: Nat, slices: Seq(Slice)]

IsFree(d) == d \notin held

\* The pages that cleanup() has not drained yet, and those it has kept.
RestPages ==
  IF pc \in {"cleanup", "summary"} THEN index..Len(pages) ELSE DOMAIN pages

PagesHeld ==
  {pages[p] : p \in RestPages} \cup {pagesTmp[p] : p \in DOMAIN pagesTmp}

Has(slices, d) == \E i \in DOMAIN slices : slices[i].handle = d

InPool(d) == \E page \in PagesHeld : Has(page.slices, d)

Fresh(d) == d \notin held /\ ~InPool(d)

(***************************************************************************)
(* Pages.                                                                  *)
(***************************************************************************)
\* First slices of the page that coalesce() makes.
Heads(slices) ==
  {i \in DOMAIN slices : i > 1 =>
     ~(IsFree(slices[i - 1].handle) /\ IsFree(slices[i].handle))}

\* The last slice merged with the one at head i.
LastMerged(slices, i) ==
  CHOOSE j \in i..Len(slices) :
    /\ \A k \in (i + 1)..j : k \notin Heads(slices)
    /\ j < Len(slices) => j + 1 \in Heads(slices)

Merges(slices) == {i \in Heads(slices) : LastMerged(slices, i) > i}

\* coalesce() with the descriptors new for the merged slices.
Coalesced(slices, new) ==
  LET total == Total([k \in DOMAIN slices |-> EffectiveSize(slices[k])])
      size(i) == total[LastMerged(slices, i)] - total[i - 1]
      merged == [i \in DOMAIN slices |->
                   IF i \in Merges(slices) THEN NewSlice(slices[i].offset, size(i), new[i])
                   ELSE slices[i]]
  IN Kept(merged, Heads(slices))

\* Mutant: a slice in use is as good as a free one.
CanUseAny(s, size) == s.size >= size + CalculatePadding(size)

CanUse(s, size) == s.size >= size + CalculatePadding(size) /\ IsFree(s.handle)

FirstFit(slices, size, i) ==
  /\ i \in DOMAIN slices
  /\ CanUse(slices[i], size)
  /\ \A j \in 1..(i - 1) : ~CanUse(slices[j], size)

Taken(s, size) == [s EXCEPT !.size = size, !.padding = CalculatePadding(size)]

\* try_reserve() at slice i: the slice, and its remainder with descriptor d.
Reserved(slices, size, i, d) ==
  LET s == slices[i]
      used == size + CalculatePadding(size)
      taken == [slices EXCEPT ![i] = Taken(s, size)]
  IN IF s.size = used THEN taken
     ELSE InsertAt(taken, i + 1, NewSlice(s.offset + used, s.size - used, d))

\* Where the descriptors of a page are once its slices have been rebuilt: a new
\* slice starts at location_base, update_slice() keeps the page of the others.
Located(page, slices) ==
  [d \in Descriptors |->
     IF Has(slices, d)
     THEN [page |-> IF Has(page.slices, d) THEN location[d].page ELSE page.base,
           slice |-> CHOOSE i \in DOMAIN slices : slices[i].handle = d]
     ELSE IF Has(page.slices, d) THEN Uninit
     ELSE location[d]]

\* Mutant: the descriptors of the page are not told.
MovedSilently(page, n) == location

\* update_page()
Moved(page, n) ==
  [d \in Descriptors |->
     IF Has(page.slices, d) THEN [location[d] EXCEPT !.page = n] ELSE location[d]]

\* summary(): amount_free = amount_total
WhollyFree(page) ==
  LET free == [i \in DOMAIN page.slices |->
                 IF IsFree(page.slices[i].handle) THEN EffectiveSize(page.slices[i]) ELSE 0]
  IN Total(free)[Len(free)] = PageSize

\* Mutant: a size larger than the page is not refused.
AcceptLarger(size) ==
  \/ MaxAllocSize >= size
  \/ (PageSize - size) * 5 < PageSize

Accept(size) ==
  \/ MaxAllocSize >= size
  \/ size <= PageSize /\ (PageSize - size) * 5 < PageSize
-----------------------------------------------------------------------------
Init ==
  /\ pages = <<>>
  /\ pagesTmp = <<>>
  /\ location = [d \in Descriptors |-> Uninit]
  /\ held = {}
  /\ storages = {}
  /\ pc = "idle"
  /\ request = 0
  /\ index = 1
  /\ panicked = FALSE

(***************************************************************************)
(* User threads.                                                           *)
(***************************************************************************)
\* ManagedMemoryHandle::new()
NewHandle(d) ==
  /\ Fresh(d)
  /\ held' = held \cup {d}
  /\ UNCHANGED <<pages, pagesTmp, location, storages, pc, request, index, panicked>>

\* The last reference to a handle and its bindings is dropped.
Release(d) ==
  /\ d \in held
  /\ held' = held \ {d}
  /\ location' = IF InPool(d) THEN location ELSE [location EXCEPT ![d] = Uninit]
  /\ UNCHANGED <<pages, pagesTmp, storages, pc, request, index, panicked>>

(***************************************************************************)
(* Device thread.                                                          *)
(***************************************************************************)
\* reserve() on the pool: try_reserve(), then alloc().
StartReserve(size) ==
  /\ pc = "idle" /\ ~panicked
  /\ Accept(size)
  /\ request' = size
  /\ index' = 1
  /\ pc' = IF pages = <<>> THEN "alloc" ELSE "coalesce"
  /\ UNCHANGED <<pages, pagesTmp, location, held, storages, panicked>>

\* coalesce() on the page the loop is at.
CoalescePage ==
  /\ \E new \in [Merges(pages[index].slices) -> {d \in Descriptors : Fresh(d)}] :
       LET page == pages[index]
           slices == Coalesced(page.slices, new)
       IN /\ IsInjective(new)
          /\ pages' = [pages EXCEPT ![index].slices = slices]
          /\ location' = Located(page, slices)
  /\ UNCHANGED <<pagesTmp, held, storages, request, index, panicked>>

CoalesceForReserve ==
  /\ pc = "coalesce"
  /\ CoalescePage
  /\ pc' = "try"

\* try_reserve() on the page succeeds ...
TryPage ==
  /\ pc = "try"
  /\ \E i \in DOMAIN pages[index].slices, d \in Descriptors :
       LET page == pages[index]
           slices == Reserved(page.slices, request, i, d)
       IN /\ FirstFit(page.slices, request, i)
          /\ Fresh(d)
          /\ pages' = [pages EXCEPT ![index].slices = slices]
          /\ location' = Located(page, slices)
          /\ held' = held \cup {page.slices[i].handle}
  /\ pc' = "idle"
  /\ request' = 0
  /\ UNCHANGED <<pagesTmp, storages, index, panicked>>

\* ... or the next page is tried.
NextPage ==
  /\ pc = "try"
  /\ \A i \in DOMAIN pages[index].slices : ~CanUse(pages[index].slices[i], request)
  /\ index' = index + 1
  /\ pc' = IF index = Len(pages) THEN "alloc" ELSE "coalesce"
  /\ UNCHANGED <<pages, pagesTmp, location, held, storages, request, panicked>>

PageNumber == Len(pages)

\* alloc(): a new page, whose first slice must be large enough.
Alloc ==
  /\ pc = "alloc"
  /\ \E s \in Storages \ storages, d, e \in Descriptors :
       LET whole == <<NewSlice(0, PageSize, d)>>
           fits == FirstFit(whole, request, 1)
           slices == IF fits THEN Reserved(whole, request, 1, e) ELSE whole
       IN /\ d # e /\ Fresh(d) /\ Fresh(e)
          /\ storages' = storages \cup {s}
          /\ pages' = Append(pages, [storage |-> s, base |-> PageNumber, slices |-> slices])
          /\ location' =
               [c \in Descriptors |->
                  IF Has(slices, c)
                  THEN [page |-> PageNumber,
                        slice |-> CHOOSE i \in DOMAIN slices : slices[i].handle = c]
                  ELSE location[c]]
          /\ held' = IF fits THEN held \cup {d} ELSE held
          /\ panicked' = ~fits
  /\ pc' = "idle"
  /\ request' = 0
  /\ UNCHANGED <<pagesTmp, index>>

\* alloc() fails: the device has no memory left.
AllocFails ==
  /\ pc = "alloc"
  /\ storages = Storages
  /\ pc' = "idle"
  /\ request' = 0
  /\ UNCHANGED <<pages, pagesTmp, location, held, storages, index, panicked>>

\* bind(): the slot of a reserved handle passes to the user's own handle.
Bind(reserved, new) ==
  /\ pc = "idle" /\ ~panicked
  /\ reserved \in held /\ InPool(reserved)
  /\ new \in held /\ ~InPool(new)
  /\ LET at == location[reserved]
     IN /\ pages' = [pages EXCEPT ![at.page + 1].slices[at.slice].handle = new]
        /\ location' = [location EXCEPT ![new] = at, ![reserved] = Uninit]
  /\ held' = held \ {reserved}
  /\ UNCHANGED <<pagesTmp, storages, pc, request, index, panicked>>

\* cleanup(explicit): every page is drained.
StartCleanup ==
  /\ pc = "idle" /\ ~panicked
  /\ pages # <<>>
  /\ pc' = "cleanup"
  /\ index' = 1
  /\ UNCHANGED <<pages, pagesTmp, location, held, storages, request, panicked>>

CoalesceForCleanup ==
  /\ pc = "cleanup"
  /\ index <= Len(pages)
  /\ CoalescePage
  /\ pc' = "summary"

\* Mutant: the buffer of the page is not given back to the device.
DeallocPageOnly ==
  /\ pc = "summary"
  /\ WhollyFree(pages[index])
  /\ location' = Located(pages[index], <<>>)
  /\ index' = index + 1
  /\ pc' = "cleanup"
  /\ UNCHANGED <<pages, pagesTmp, held, storages, request, panicked>>

\* A page that is wholly free is given back to the device, its slices and
\* their descriptors with it ...
DeallocPage ==
  /\ pc = "summary"
  /\ LET page == pages[index]
     IN /\ WhollyFree(page)
        /\ storages' = storages \ {page.storage}
        /\ location' = Located(page, <<>>)
  /\ index' = index + 1
  /\ pc' = "cleanup"
  /\ UNCHANGED <<pages, pagesTmp, held, request, panicked>>

\* ... another is kept, at its new number.
KeepPage ==
  /\ pc = "summary"
  /\ ~WhollyFree(pages[index])
  /\ pagesTmp' = Append(pagesTmp, [pages[index] EXCEPT !.base = Len(pagesTmp)])
  /\ location' = Moved(pages[index], Len(pagesTmp))
  /\ index' = index + 1
  /\ pc' = "cleanup"
  /\ UNCHANGED <<pages, held, storages, request, panicked>>

FinishCleanup ==
  /\ pc = "cleanup"
  /\ index = Len(pages) + 1
  /\ pages' = pagesTmp
  /\ pagesTmp' = <<>>
  /\ index' = 1
  /\ pc' = "idle"
  /\ UNCHANGED <<location, held, storages, request, panicked>>

Reserve == CoalesceForReserve \/ TryPage \/ NextPage \/ Alloc \/ AllocFails

Cleanup ==
  \/ StartCleanup \/ CoalesceForCleanup
  \/ DeallocPage \/ KeepPage \/ FinishCleanup

Next ==
  \/ \E d \in Descriptors : NewHandle(d) \/ Release(d)
  \/ \E size \in Sizes : StartReserve(size)
  \/ Reserve
  \/ \E reserved, new \in Descriptors : Bind(reserved, new)
  \/ Cleanup

Spec == Init /\ [][Next]_vars
-----------------------------------------------------------------------------
(***************************************************************************)
(* Properties.                                                             *)
(***************************************************************************)
\* Every variable keeps its type.
TypeOK ==
  /\ pages \in Seq(Page)
  /\ pagesTmp \in Seq(Page)
  /\ location \in [Descriptors -> [page: Nat \cup {-1}, slice: Nat]]
  /\ held \subseteq Descriptors
  /\ storages \subseteq Storages
  /\ pc \in {"idle", "coalesce", "try", "alloc", "cleanup", "summary"}
  /\ request \in Nat
  /\ index \in 1..(Len(pages) + 1)
  /\ panicked \in BOOLEAN

\* Between the device's calls a binding leads to its own slice, by its page and
\* its position, and a handle that was never bound leads nowhere.
FindsSlice ==
  pc = "idle" =>
    \A d \in held :
      IF InPool(d)
      THEN LET at == location[d]
           IN /\ at.page + 1 \in DOMAIN pages
              /\ at.slice \in DOMAIN pages[at.page + 1].slices
              /\ pages[at.page + 1].slices[at.slice].handle = d
      ELSE location[d] = Uninit

\* A buffer of the device belongs to exactly one page, and only while the page
\* exists: none leaks and none is freed under a page.
StoragesOwned ==
  /\ storages = {page.storage : page \in PagesHeld}
  /\ \A o, p \in RestPages : pages[o].storage = pages[p].storage => o = p
  /\ \A q, r \in DOMAIN pagesTmp : pagesTmp[q].storage = pagesTmp[r].storage => q = r
  /\ \A p \in RestPages, q \in DOMAIN pagesTmp : pages[p].storage # pagesTmp[q].storage

\* The region of a bound handle, with the buffers laid one after the other.
SlicesHeld == UNION {{<<page.storage, page.slices[i]>> : i \in DOMAIN page.slices} :
                       page \in PagesHeld}

\* accept() lets only sizes through for which a new page is large enough
\* ("effective_size to be smaller than page_size").
AllocFits == ~panicked

(***************************************************************************)
(* The inductive invariant behind them.                                    *)
(***************************************************************************)
\* The pages of a vector carry their numbers, and every descriptor of theirs
\* knows its page and its position.
Numbered(page, p) ==
  /\ page.base = p - 1
  /\ \A i \in DOMAIN page.slices :
       location[page.slices[i].handle] = [page |-> p - 1, slice |-> i]

Placed ==
  /\ \A p \in RestPages : Numbered(pages[p], p)
  /\ \A q \in DOMAIN pagesTmp : Numbered(pagesTmp[q], q)
  /\ \A d \in Descriptors : ~InPool(d) => location[d] = Uninit

\* The slices of a page follow each other in its buffer, and none is empty.
End(s) == s.offset + EffectiveSize(s)

LaidOut(slices) ==
  /\ \A i \in DOMAIN slices : slices[i].size > 0 /\ End(slices[i]) <= PageSize
  /\ \A i, j \in DOMAIN slices : i < j => End(slices[i]) <= slices[j].offset

Regions ==
  /\ \A p \in RestPages : LaidOut(pages[p].slices)
  /\ \A q \in DOMAIN pagesTmp : LaidOut(pagesTmp[q].slices)

\* The loops of reserve() and cleanup(): the pages that cleanup() has kept have
\* smaller numbers than those it has still to drain, and a reserve goes on for a
\* size that was accepted.
InLoop ==
  /\ pc \in {"coalesce", "try", "summary"} => index \in DOMAIN pages
  /\ IF pc \in {"cleanup", "summary"} THEN Len(pagesTmp) < index ELSE pagesTmp = <<>>
  /\ pc \in {"coalesce", "try", "alloc"} => request \in Sizes /\ Accept(request)

PoolInv ==
  /\ TypeOK
  /\ Placed
  /\ Regions
  /\ InLoop
  /\ StoragesOwned
  /\ AllocFits

\* The pool implements the allocator that its pages implement.
StorageNumber == CHOOSE n \in [Storages -> 0..(Cardinality(Storages) - 1)] : IsInjective(n)

Owned ==
  {[handle |-> x[2].handle,
    offset |-> StorageNumber[x[1]] * PageSize + x[2].offset,
    size |-> EffectiveSize(x[2])] : x \in {y \in SlicesHeld : y[2].handle \in held}}

Allocator ==
  INSTANCE RegionAllocator
    WITH owned <- Owned, PageSize <- Cardinality(Storages) * PageSize

RefinesAllocator == Allocator!Spec

\* ARCHITECTURE.md:89: cleanup gives the pages back that are wholly empty.  This
\* is not so: a slice reused for a smaller size loses its padding, and its page
\* never counts as wholly free again.
EmptyPageReturned ==
  [][KeepPage =>
       \E i \in DOMAIN pages[index].slices : pages[index].slices[i].handle \in held]_vars
=============================================================================
