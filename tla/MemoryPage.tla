----------------------------- MODULE MemoryPage -----------------------------
(***************************************************************************)
(* One page of the patched CubeCL allocator (cubecl-runtime,               *)
(* memory_management/memory_pool/memory_page.rs): a storage buffer of      *)
(* PageSize units cut into slices.  A slice is free when the page holds    *)
(* the only reference to its descriptor.                                   *)
(*                                                                         *)
(* Two kinds of actors act on the page.  The device thread owns the page   *)
(* and runs reserve (coalesce, then first fit) and bind.  User threads     *)
(* hold reference-counted handles and bindings that they clone and drop at *)
(* any time, also while the device thread is inside coalesce().  The loop  *)
(* of coalesce() is therefore modelled one slice at a time.                *)
(*                                                                         *)
(* Slice positions are 1-based here and 0-based in the code; 0 is the      *)
(* uninitialised location.                                                 *)
(***************************************************************************)
EXTENDS Slices, Sequences, SequencesExt

CONSTANTS
  PageSize,     \* size of the storage buffer of the page
  Sizes,        \* sizes a client may ask for
  MaxRefs       \* bound on the clones of one handle held at a time

ASSUME PageAssumption ==
  /\ PageSize \in Nat
  /\ Alignment \in Nat \ {0}
  /\ Sizes \subseteq Nat
  /\ MaxRefs \in Nat \ {0}

VARIABLES
  slices,     \* MemoryPage::slices
  slicesTmp,  \* MemoryPage::slices_tmp, filled by coalesce()
  location,   \* slice position stored in each descriptor
  refs,       \* references to each descriptor held outside the page
  pc,         \* where the device thread is: "idle", "coalesce", "reserve"
  request,    \* argument of the try_reserve() in progress
  job,        \* MemoryJob of the coalesce() in progress: the runs to merge
  index,      \* loop index of coalesce()
  merge       \* locals offset and size of coalesce()

vars == <<slices, slicesTmp, location, refs, pc, request, job, index, merge>>

callVars == <<slicesTmp, job, index, merge>>

(***************************************************************************)
(* Helpers.                                                                *)
(***************************************************************************)
\* Strong count of a descriptor the page holds is 1 + refs.
IsFree(d) == refs[d] = 0

\* Descriptors the page still holds: in the middle of coalesce() the slices
\* before index have been drained into slicesTmp or dropped.
Rest == IF pc = "coalesce" THEN index..Len(slices) ELSE DOMAIN slices
Moved == IF pc = "coalesce" THEN DOMAIN slicesTmp ELSE {}
InPage(d) == \/ \E i \in Rest : slices[i].handle = d
             \/ \E k \in Moved : slicesTmp[k].handle = d

\* A descriptor nobody references: gen_id() never returns one in use.
Fresh(d) == refs[d] = 0 /\ ~InPage(d)

\* Mutant: a run may start in the middle of free slices.
MemoryJobInner ==
  LET free(i) == i \in DOMAIN slices /\ IsFree(slices[i].handle)
  IN { r \in (DOMAIN slices) \X (DOMAIN slices) :
         r[1] < r[2] /\ (\A i \in r[1]..r[2] : free(i)) /\ ~free(r[2] + 1) }

\* memory_job(): the maximal runs of at least two free slices.
MemoryJob ==
  LET free(i) == i \in DOMAIN slices /\ IsFree(slices[i].handle)
  IN { r \in (DOMAIN slices) \X (DOMAIN slices) :
         /\ r[1] < r[2]
         /\ \A i \in r[1]..r[2] : free(i)
         /\ ~free(r[1] - 1)
         /\ ~free(r[2] + 1) }

\* Mutant: a slice in use is as good as a free one.
CanUseAny(s, size) == s.size >= size + CalculatePadding(size)

CanUse(s, size) ==
  s.size >= size + CalculatePadding(size) /\ IsFree(s.handle)

FirstFit(i) ==
  /\ i \in DOMAIN slices
  /\ CanUse(slices[i], request)
  /\ \A j \in 1..(i - 1) : ~CanUse(slices[j], request)

\* Mutant: the slice is padded but not trimmed.
TakenUntrimmed(s) == [s EXCEPT !.padding = CalculatePadding(request)]

\* try_reserve() takes all of slice s or its first units.
Taken(s) == [s EXCEPT !.size = request, !.padding = CalculatePadding(request)]

\* Mutant: no renumbering.
RelocateNone(seq) == location

\* update_slice() on every slice of a rebuilt page
Relocate(seq) ==
  [d \in Descriptors |->
     IF \E i \in DOMAIN seq : seq[i].handle = d
     THEN CHOOSE i \in DOMAIN seq : seq[i].handle = d
     ELSE location[d]]

NoMerge == [offset |-> 0, size |-> 0]
-----------------------------------------------------------------------------
\* MemoryPage::new(): one free slice over the whole storage.
Init ==
  /\ \E d \in Descriptors :
       /\ slices = <<NewSlice(0, PageSize, d)>>
       /\ location = [e \in Descriptors |-> IF e = d THEN 1 ELSE 0]
  /\ slicesTmp = <<>>
  /\ refs = [d \in Descriptors |-> 0]
  /\ pc = "idle"
  /\ request = 0
  /\ job = {}
  /\ index = 1
  /\ merge = NoMerge

(***************************************************************************)
(* User threads.                                                           *)
(***************************************************************************)
\* ManagedMemoryHandle::new(): an unbound handle, location uninitialised.
NewHandle(d) ==
  /\ Fresh(d)
  /\ refs' = [refs EXCEPT ![d] = 1]
  /\ UNCHANGED <<slices, location, pc, request, callVars>>

\* Clone of a handle or of a binding.
Clone(d) ==
  /\ refs[d] \in 1..(MaxRefs - 1)
  /\ refs' = [refs EXCEPT ![d] = @ + 1]
  /\ UNCHANGED <<slices, location, pc, request, callVars>>

\* Drop of a handle or of a binding.
Release(d) ==
  /\ refs[d] > 0
  /\ refs' = [refs EXCEPT ![d] = @ - 1]
  /\ UNCHANGED <<slices, location, pc, request, callVars>>

(***************************************************************************)
(* Device thread: SlicedPool::try_reserve() calls coalesce(), then         *)
(* try_reserve() on the page.                                              *)
(***************************************************************************)
\* coalesce() up to its loop; it returns at once when there is no task.
StartReserve(size) ==
  /\ pc = "idle"
  /\ request' = size
  /\ job' = MemoryJob
  /\ slicesTmp' = <<>>
  /\ index' = 1
  /\ pc' = IF MemoryJob = {} THEN "reserve" ELSE "coalesce"
  /\ UNCHANGED <<slices, location, refs, merge>>

Looping == pc = "coalesce" /\ index \in DOMAIN slices

\* The drained slice is dropped, and its descriptor with it.
DropSlice == location' = [location EXCEPT ![slices[index].handle] = 0]

\* MemoryTaskStatus::StartMerging: the slice is dropped, its extent kept.
StartMerging ==
  /\ Looping
  /\ \E r \in job : index = r[1]
  /\ merge' = [offset |-> slices[index].offset,
               size |-> EffectiveSize(slices[index])]
  /\ DropSlice
  /\ index' = index + 1
  /\ UNCHANGED <<slices, slicesTmp, refs, pc, request, job>>

\* Mutant: a slice inside a run is dropped and its size forgotten.
MergingForgets ==
  /\ Looping
  /\ \E r \in job : r[1] < index /\ index < r[2]
  /\ DropSlice
  /\ index' = index + 1
  /\ UNCHANGED <<slices, slicesTmp, refs, pc, request, job, merge>>

\* MemoryTaskStatus::Merging
Merging ==
  /\ Looping
  /\ \E r \in job : r[1] < index /\ index < r[2]
  /\ merge' = [merge EXCEPT !.size = @ + EffectiveSize(slices[index])]
  /\ DropSlice
  /\ index' = index + 1
  /\ UNCHANGED <<slices, slicesTmp, refs, pc, request, job>>

\* MemoryTaskStatus::Completed: one new slice stands for the whole run.
Completed ==
  /\ Looping
  /\ \E r \in job : index = r[2]
  /\ \E d \in Descriptors :
       LET size == merge.size + EffectiveSize(slices[index])
       IN /\ Fresh(d)
          /\ slicesTmp' = Append(slicesTmp, NewSlice(merge.offset, size, d))
          /\ location' = [location EXCEPT ![d] = Len(slicesTmp) + 1,
                                        ![slices[index].handle] = 0]
  /\ merge' = NoMerge
  /\ index' = index + 1
  /\ UNCHANGED <<slices, refs, pc, request, job>>

\* MemoryTaskStatus::Ignoring: the slice moves to its new position.
Ignoring ==
  /\ Looping
  /\ \A r \in job : index \notin r[1]..r[2]
  /\ slicesTmp' = Append(slicesTmp, slices[index])
  /\ location' = [location EXCEPT ![slices[index].handle] = Len(slicesTmp) + 1]
  /\ index' = index + 1
  /\ UNCHANGED <<slices, refs, pc, request, job, merge>>

\* End of the loop: mem::swap(slices, slices_tmp).
FinishCoalesce ==
  /\ pc = "coalesce"
  /\ index = Len(slices) + 1
  /\ slices' = slicesTmp
  /\ slicesTmp' = <<>>
  /\ job' = {}
  /\ index' = 1
  /\ pc' = "reserve"
  /\ UNCHANGED <<location, refs, request, merge>>

\* try_reserve() on a slice of exactly the size it needs.
ReserveWhole ==
  /\ pc = "reserve"
  /\ \E i \in DOMAIN slices :
       /\ FirstFit(i)
       /\ slices[i].size = request + CalculatePadding(request)
       /\ slices' = [slices EXCEPT ![i] = Taken(@)]
       /\ refs' = [refs EXCEPT ![slices[i].handle] = 1]
  /\ pc' = "idle"
  /\ request' = 0
  /\ UNCHANGED <<location, callVars>>

\* try_reserve() on a larger slice: add_new_slice() inserts the remainder
\* after it and renumbers every slice of the page.
ReserveSplit ==
  /\ pc = "reserve"
  /\ \E i \in DOMAIN slices, d \in Descriptors :
       LET s == slices[i]
           used == request + CalculatePadding(request)
           split == InsertAt([slices EXCEPT ![i] = Taken(@)], i + 1,
                             NewSlice(s.offset + used, s.size - used, d))
       IN /\ FirstFit(i)
          /\ s.size > used
          /\ Fresh(d)
          /\ slices' = split
          /\ location' = Relocate(split)
          /\ refs' = [refs EXCEPT ![s.handle] = 1]
  /\ pc' = "idle"
  /\ request' = 0
  /\ UNCHANGED callVars

\* try_reserve() finds no slice and returns None.
ReserveNone ==
  /\ pc = "reserve"
  /\ \A i \in DOMAIN slices : ~CanUse(slices[i], request)
  /\ pc' = "idle"
  /\ request' = 0
  /\ UNCHANGED <<slices, location, refs, callVars>>

\* bind(): the slot of a reserved handle passes to the user's own handle.
\* The device gives up its only reference to the reserved handle.
Bind(reserved, new) ==
  /\ pc = "idle"
  /\ refs[reserved] = 1
  /\ InPage(reserved)
  /\ refs[new] > 0
  /\ ~InPage(new)
  /\ location' = [location EXCEPT ![new] = location[reserved],
                                ![reserved] = 0]
  /\ slices' = [slices EXCEPT ![location[reserved]].handle = new]
  /\ refs' = [refs EXCEPT ![reserved] = 0]
  /\ UNCHANGED <<pc, request, callVars>>

Coalesce == StartMerging \/ Merging \/ Completed \/ Ignoring \/ FinishCoalesce

TryReserve == ReserveWhole \/ ReserveSplit \/ ReserveNone

User(d) == NewHandle(d) \/ Clone(d) \/ Release(d)

Next ==
  \/ \E d \in Descriptors : User(d)
  \/ \E size \in Sizes : StartReserve(size)
  \/ Coalesce
  \/ TryReserve
  \/ \E reserved, new \in Descriptors : Bind(reserved, new)

Spec == Init /\ [][Next]_vars
-----------------------------------------------------------------------------
(***************************************************************************)
(* Properties.                                                             *)
(***************************************************************************)
\* The slices the page holds, wherever coalesce() has them at this instant.
Held == {slices[i] : i \in Rest} \cup {slicesTmp[k] : k \in Moved}

End(s) == s.offset + EffectiveSize(s)

\* Every variable keeps its type; index stays within the loop's range.
TypeOK ==
  /\ slices \in Seq(Slice)
  /\ slicesTmp \in Seq(Slice)
  /\ location \in [Descriptors -> Nat]
  /\ refs \in [Descriptors -> 0..MaxRefs]
  /\ pc \in {"idle", "coalesce", "reserve"}
  /\ request \in Nat
  /\ job \subseteq Nat \X Nat
  /\ index \in Nat \ {0}
  /\ pc = "coalesce" => index <= Len(slices) + 1
  /\ merge \in [offset: Nat, size: Nat]

\* Slices never overlap and never leave the buffer: no split, merge or reuse,
\* and no drop by another thread in between, gives two tensors the same bytes.
NoOverlap ==
  /\ \A i, j \in Rest : i < j => End(slices[i]) <= slices[j].offset
  /\ \A k, l \in Moved : k < l => End(slicesTmp[k]) <= slicesTmp[l].offset
  /\ \A k \in Moved, i \in Rest : End(slicesTmp[k]) <= slices[i].offset
  /\ \A s \in Held : End(s) <= PageSize

\* Whenever the device may look a binding up, the position stored in its
\* descriptor leads to its own slice (the assert_eq! of find()), and a handle
\* that is not bound yet is still marked uninitialised.
HandleFindsSlice ==
  pc # "coalesce" =>
    \A d \in Descriptors :
      refs[d] > 0 =>
        IF InPage(d)
        THEN location[d] \in DOMAIN slices /\ slices[location[d]].handle = d
        ELSE location[d] = 0

\* Every slice starts at an aligned offset, whatever sequence of splits and
\* merges made it.
AlignedOffsets == \A s \in Held : s.offset % Alignment = 0

\* Whether coalesce() is in the middle of a run.
InRun == \E r \in job : r[1] < index /\ index <= r[2]

\* What the first n slices of a vector add up to.
Bytes(list, n) == Total([i \in DOMAIN list |-> EffectiveSize(list[i])])[n]

\* coalesce() moves bytes between slices and loses none: at every turn of its
\* loop what it moved and what it is merging add up to what it drained.
CoalesceKeepsBytes ==
  pc = "coalesce" =>
    Bytes(slicesTmp, Len(slicesTmp)) + (IF InRun THEN merge.size ELSE 0)
      = Bytes(slices, index - 1)

\* A region in use stays where it is: as long as a descriptor is referenced and
\* the page holds it, its slice keeps its offset, size and padding, except that
\* bind() hands the slot of the reserved handle over to the new one.
RegionStable ==
  [][\A s \in Held :
       refs[s.handle] > 0 /\ refs'[s.handle] > 0 => s \in Held']_vars

(***************************************************************************)
(* The inductive invariant behind NoOverlap, HandleFindsSlice and          *)
(* RegionStable.                                                           *)
(***************************************************************************)
\* No two slices share a descriptor.
DistinctHandles ==
  /\ \A i, j \in Rest : slices[i].handle = slices[j].handle => i = j
  /\ \A k, l \in Moved : slicesTmp[k].handle = slicesTmp[l].handle => k = l
  /\ \A k \in Moved, i \in Rest : slicesTmp[k].handle # slices[i].handle

\* Descriptors know their position, in the vector their slice is in.
Positions ==
  /\ \A i \in Rest : location[slices[i].handle] = i
  /\ \A k \in Moved : location[slicesTmp[k].handle] = k
  /\ \A d \in Descriptors : ~InPage(d) => location[d] = 0

\* The runs of the job are disjoint, inside the page and still free.
JobFree ==
  pc = "coalesce" =>
    /\ \A r \in job :
         /\ 1 <= r[1] /\ r[1] < r[2] /\ r[2] <= Len(slices)
         /\ \A i \in r[1]..r[2] : i >= index => IsFree(slices[i].handle)
    /\ \A r, s \in job : r = s \/ r[2] < s[1] \/ s[2] < r[1]

\* A run being merged lies between what was moved and what is left.
MergeFits ==
  pc = "coalesce" =>
    \A r \in job : r[1] < index /\ index <= r[2] =>
      /\ \A k \in Moved : End(slicesTmp[k]) <= merge.offset
      /\ \A i \in Rest : merge.offset + merge.size <= slices[i].offset

PageInv == /\ TypeOK
           /\ NoOverlap
           /\ DistinctHandles
           /\ Positions
           /\ JobFree
           /\ MergeFits

\* The page implements the allocator it promises to be.
Owned == { [handle |-> s.handle, offset |-> s.offset, size |-> EffectiveSize(s)] :
             s \in {t \in Held : refs[t.handle] > 0} }

Allocator == INSTANCE RegionAllocator WITH owned <- Owned

RefinesAllocator == Allocator!Spec
=============================================================================
