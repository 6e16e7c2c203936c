-------------------------- MODULE MemoryPageProofs --------------------------
(***************************************************************************)
(* Proofs about MemoryPage for every set of descriptors, page size,        *)
(* alignment and set of request sizes.                                     *)
(***************************************************************************)
EXTENDS MemoryPage, CommonProofs

(***************************************************************************)
(* Inserting one element in a sequence shifts what follows by one.         *)
(***************************************************************************)
LEMMA InsertAtProperties ==
  ASSUME NEW S, NEW s \in Seq(S), NEW i \in 1..(Len(s) + 1), NEW e \in S
  PROVE  /\ InsertAt(s, i, e) \in Seq(S)
         /\ Len(InsertAt(s, i, e)) = Len(s) + 1
         /\ \A k \in 1..(Len(s) + 1) :
              InsertAt(s, i, e)[k] =
                IF k < i THEN s[k] ELSE IF k = i THEN e ELSE s[k - 1]
<1>0. Len(s) \in Nat /\ i \in Nat
  BY LenProperties
<1> DEFINE head == SubSeq(s, 1, i - 1)
           tail == SubSeq(s, i, Len(s))
<1>1. /\ head \in Seq(S)
      /\ Len(head) = i - 1
      /\ \A k \in 1..(i - 1) : head[k] = s[k]
  <2>1. \A k \in 1..(i - 1) : s[k] \in S
    BY ElementOfSeq, LenProperties
  <2> QED BY <2>1, SubSeqProperties, LenProperties
<1>2. /\ tail \in Seq(S)
      /\ Len(tail) = Len(s) + 1 - i
      /\ \A k \in 1..(Len(s) + 1 - i) : tail[k] = s[i + k - 1]
  <2>1. \A k \in i..Len(s) : s[k] \in S
    BY ElementOfSeq, LenProperties
  <2> QED BY <2>1, SubSeqProperties, LenProperties
<1>3. <<e>> \in Seq(S) /\ Len(<<e>>) = 1 /\ <<e>>[1] = e
  OBVIOUS
<1> HIDE DEF head, tail
<1> DEFINE front == head \o <<e>>
<1>4. /\ front \in Seq(S)
      /\ Len(front) = i
      /\ \A k \in 1..i : front[k] = IF k < i THEN s[k] ELSE e
  BY <1>1, <1>3, ConcatProperties, LenProperties
<1> HIDE DEF front
<1>5. /\ front \o tail \in Seq(S)
      /\ Len(front \o tail) = Len(s) + 1
      /\ \A k \in 1..(Len(s) + 1) : (front \o tail)[k] =
           IF k <= i THEN front[k] ELSE tail[k - i]
  <2>1. Len(front) + Len(tail) = Len(s) + 1
    BY <1>2, <1>4, LenProperties
  <2>2. /\ front \o tail \in Seq(S)
        /\ Len(front \o tail) = Len(front) + Len(tail)
        /\ \A k \in 1..(Len(front) + Len(tail)) : (front \o tail)[k] =
             IF k <= Len(front) THEN front[k] ELSE tail[k - Len(front)]
    BY <1>2, <1>4, ConcatProperties
  <2> QED BY <1>4, <2>1, <2>2
<1>6. InsertAt(s, i, e) = front \o tail
  BY DEF InsertAt, front, head, tail
<1>7. ASSUME NEW k \in 1..(Len(s) + 1)
      PROVE (front \o tail)[k] =
              IF k < i THEN s[k] ELSE IF k = i THEN e ELSE s[k - 1]
  <2>1. CASE k <= i
    BY <1>4, <1>5, <2>1
  <2>2. CASE k > i
    <3>1. k - i \in 1..(Len(s) + 1 - i) /\ i + (k - i) - 1 = k - 1
      BY <2>2, LenProperties
    <3> QED BY <1>2, <1>5, <2>2, <3>1
  <2>3. k <= i \/ k > i
    BY <1>0
  <2> QED BY <2>1, <2>2, <2>3
<1> QED BY <1>5, <1>6, <1>7

\* The padding of a request is a natural number.
LEMMA PaddingType ==
  ASSUME NEW size \in Nat
  PROVE  CalculatePadding(size) \in Nat
BY PageAssumption, PaddingForms DEF CalculatePadding

\* A slice has a natural extent.
LEMMA EndType ==
  ASSUME NEW s \in Slice
  PROVE  /\ s.offset \in Nat /\ s.size \in Nat /\ s.padding \in Nat
         /\ s.handle \in Descriptors
         /\ EffectiveSize(s) \in Nat /\ End(s) \in Nat
         /\ End(s) = s.offset + EffectiveSize(s)
BY DEF Slice, EffectiveSize, End

LEMMA NewSliceType ==
  ASSUME NEW offset \in Nat, NEW size \in Nat, NEW d \in Descriptors
  PROVE  /\ NewSlice(offset, size, d) \in Slice
         /\ NewSlice(offset, size, d).handle = d
         /\ NewSlice(offset, size, d).offset = offset
         /\ End(NewSlice(offset, size, d)) = offset + size
BY DEF NewSlice, Slice, End, EffectiveSize

\* What TypeOK says of single slices.
LEMMA SliceTypes ==
  ASSUME TypeOK
  PROVE  /\ Len(slices) \in Nat /\ DOMAIN slices = 1..Len(slices)
         /\ Len(slicesTmp) \in Nat /\ DOMAIN slicesTmp = 1..Len(slicesTmp)
         /\ \A i \in 1..Len(slices) : slices[i] \in Slice
         /\ \A k \in 1..Len(slicesTmp) : slicesTmp[k] \in Slice
         /\ Rest \subseteq 1..Len(slices)
         /\ Moved \subseteq 1..Len(slicesTmp)
<1>1. /\ Len(slices) \in Nat /\ DOMAIN slices = 1..Len(slices)
      /\ Len(slicesTmp) \in Nat /\ DOMAIN slicesTmp = 1..Len(slicesTmp)
  BY LenProperties DEF TypeOK
<1>2. /\ \A i \in 1..Len(slices) : slices[i] \in Slice
      /\ \A k \in 1..Len(slicesTmp) : slicesTmp[k] \in Slice
  BY ElementOfSeq DEF TypeOK
<1>3. Rest \subseteq 1..Len(slices)
  BY <1>1 DEF TypeOK, Rest
<1>4. Moved \subseteq 1..Len(slicesTmp)
  BY <1>1 DEF Moved
<1> QED BY <1>1, <1>2, <1>3, <1>4

(***************************************************************************)
(* The inductive invariant.                                                *)
(***************************************************************************)
\* A new page satisfies the invariant.
LEMMA InitPageInv == Init => PageInv
<1> SUFFICES ASSUME Init PROVE PageInv
  OBVIOUS
<1>1. PICK d \in Descriptors :
        /\ slices = <<NewSlice(0, PageSize, d)>>
        /\ location = [e \in Descriptors |-> IF e = d THEN 1 ELSE 0]
  BY DEF Init
<1>2. NewSlice(0, PageSize, d) \in Slice
  BY PageAssumption DEF NewSlice, Slice
<1>3. slices \in Seq(Slice) /\ Len(slices) = 1 /\ slices[1] = NewSlice(0, PageSize, d)
  BY <1>1, <1>2
<1>4. TypeOK
  BY <1>1, <1>3, PageAssumption DEF Init, TypeOK, NoMerge
<1>5. Rest = {1} /\ Moved = {}
  BY <1>3, LenProperties DEF Init, Rest, Moved
<1>6. NoOverlap
  BY <1>3, <1>5, PageAssumption
  DEF NoOverlap, Held, End, EffectiveSize, NewSlice
<1>7. DistinctHandles
  BY <1>5 DEF DistinctHandles
<1>8. Positions
  BY <1>1, <1>3, <1>5 DEF Positions, InPage, NewSlice
<1>9. JobFree /\ MergeFits
  BY DEF Init, JobFree, MergeFits
<1> QED BY <1>4, <1>6, <1>7, <1>8, <1>9 DEF PageInv

\* User threads change reference counts only; the slices of a run that is being
\* merged stay free because nobody is left to clone them.
LEMMA UserPageInv ==
  ASSUME PageInv, NEW d \in Descriptors, User(d)
  PROVE  PageInv'
<1>1. UNCHANGED <<slices, slicesTmp, location, pc, request, job, index, merge>>
  BY DEF User, NewHandle, Clone, Release, callVars
<1>2. refs' \in [Descriptors -> 0..MaxRefs]
  <2>1. refs \in [Descriptors -> 0..MaxRefs]
    BY DEF PageInv, TypeOK
  <2>2. CASE NewHandle(d)
    BY <2>1, <2>2, PageAssumption DEF NewHandle
  <2>3. CASE Clone(d)
    BY <2>1, <2>3, PageAssumption DEF Clone
  <2>4. CASE Release(d)
    BY <2>1, <2>4, PageAssumption DEF Release
  <2> QED BY <2>2, <2>3, <2>4 DEF User
<1>3. TypeOK'
  <2>1. TypeOK
    BY DEF PageInv
  <2> QED BY <1>1, <1>2, <2>1 DEF TypeOK
<1>4. Rest' = Rest /\ Moved' = Moved /\ Held' = Held
  BY <1>1 DEF Rest, Moved, Held
<1>5. NoOverlap'
  BY <1>1, <1>4 DEF PageInv, NoOverlap, End, EffectiveSize
<1>6. DistinctHandles'
  BY <1>1, <1>4 DEF PageInv, DistinctHandles
<1>7. Positions'
  BY <1>1, <1>4 DEF PageInv, Positions, InPage
<1>8. JobFree'
  <2>1. ASSUME NEW i \in Rest, IsFree(slices[i].handle)
        PROVE IsFree(slices[i].handle)'
    <3>1. slices[i].handle \in Descriptors
      BY SliceTypes DEF PageInv, Slice
    <3>2. refs[slices[i].handle] = 0
      BY <2>1 DEF IsFree
    <3>3. InPage(slices[i].handle)
      BY DEF InPage
    <3>4. refs'[slices[i].handle] = 0
      <4>1. CASE NewHandle(d)
        BY <3>1, <3>2, <3>3, <4>1 DEF NewHandle, Fresh, PageInv, TypeOK
      <4>2. CASE Clone(d)
        BY <3>1, <3>2, <4>2 DEF Clone, PageInv, TypeOK
      <4>3. CASE Release(d)
        BY <3>1, <3>2, <4>3 DEF Release, PageInv, TypeOK
      <4> QED BY <4>1, <4>2, <4>3 DEF User
    <3> QED BY <1>1, <3>4 DEF IsFree
  <2> SUFFICES ASSUME pc = "coalesce" PROVE JobFree'
    BY <1>1 DEF JobFree
  <2>2. ASSUME NEW r \in job, NEW i \in r[1]..r[2], i >= index
        PROVE IsFree(slices[i].handle)'
    <3>1. i \in Rest /\ IsFree(slices[i].handle)
      BY <2>2 DEF PageInv, JobFree, TypeOK, Rest
    <3> QED BY <2>1, <3>1
  <2> QED BY <1>1, <2>2 DEF PageInv, JobFree
<1>9. MergeFits'
  BY <1>1, <1>4 DEF PageInv, MergeFits, End, EffectiveSize
<1> QED BY <1>3, <1>5, <1>6, <1>7, <1>8, <1>9 DEF PageInv

\* The runs memory_job() collects are inside the page, free and disjoint.
LEMMA MemoryJobRuns ==
  ASSUME TypeOK
  PROVE  /\ \A r \in MemoryJob :
              /\ r \in Nat \X Nat
              /\ 1 <= r[1] /\ r[1] < r[2] /\ r[2] <= Len(slices)
              /\ \A i \in r[1]..r[2] : IsFree(slices[i].handle)
         /\ \A r, s \in MemoryJob : r = s \/ r[2] < s[1] \/ s[2] < r[1]
<1> DEFINE free(i) == i \in DOMAIN slices /\ IsFree(slices[i].handle)
<1>1. \A r \in MemoryJob :
        /\ r[1] \in 1..Len(slices) /\ r[2] \in 1..Len(slices)
        /\ r = <<r[1], r[2]>>
        /\ r[1] < r[2]
        /\ \A i \in r[1]..r[2] : free(i)
        /\ ~free(r[1] - 1)
        /\ ~free(r[2] + 1)
  BY SliceTypes DEF MemoryJob
<1> HIDE DEF free
<1>2. \A r \in MemoryJob :
        /\ r \in Nat \X Nat
        /\ 1 <= r[1] /\ r[1] < r[2] /\ r[2] <= Len(slices)
        /\ \A i \in r[1]..r[2] : IsFree(slices[i].handle)
  BY <1>1, SliceTypes DEF free
<1>3. ASSUME NEW r \in MemoryJob, NEW s \in MemoryJob,
             s[1] <= r[2], r[1] <= s[2]
      PROVE  r = s
  <2>1. r[1] \in Nat /\ r[2] \in Nat /\ s[1] \in Nat /\ s[2] \in Nat
    BY <1>2
  <2>2. ~(r[1] < s[1])
    <3>1. r[1] < s[1] => s[1] - 1 \in r[1]..r[2]
      BY <1>3, <2>1
    <3> QED BY <1>1, <3>1
  <2>3. ~(s[1] < r[1])
    <3>1. s[1] < r[1] => r[1] - 1 \in s[1]..s[2]
      BY <1>3, <2>1
    <3> QED BY <1>1, <3>1
  <2>4. r[1] = s[1]
    BY <2>1, <2>2, <2>3
  <2>5. ~(r[2] < s[2])
    <3>1. r[2] < s[2] => r[2] + 1 \in s[1]..s[2]
      BY <1>1, <2>1, <2>4
    <3> QED BY <1>1, <3>1
  <2>6. ~(s[2] < r[2])
    <3>1. s[2] < r[2] => s[2] + 1 \in r[1]..r[2]
      BY <1>1, <2>1, <2>4
    <3> QED BY <1>1, <3>1
  <2>7. r[2] = s[2]
    BY <2>1, <2>5, <2>6
  <2> QED BY <1>1, <2>4, <2>7
<1>4. ASSUME NEW r \in MemoryJob, NEW s \in MemoryJob
      PROVE  r = s \/ r[2] < s[1] \/ s[2] < r[1]
  <2>1. r[1] \in Nat /\ r[2] \in Nat /\ s[1] \in Nat /\ s[2] \in Nat
    BY <1>2
  <2>2. CASE s[1] <= r[2] /\ r[1] <= s[2]
    BY <1>3, <2>2
  <2>3. CASE ~(s[1] <= r[2] /\ r[1] <= s[2])
    BY <2>1, <2>3
  <2> QED BY <2>2, <2>3
<1> QED BY <1>2, <1>4

\* The call of coalesce() up to its loop.
LEMMA StartReservePageInv ==
  ASSUME PageInv, NEW size \in Sizes, StartReserve(size)
  PROVE  PageInv'
<1>1. /\ pc = "idle" /\ pc' \in {"coalesce", "reserve"}
      /\ slicesTmp' = <<>> /\ index' = 1 /\ job' = MemoryJob /\ request' = size
      /\ UNCHANGED <<slices, location, refs, merge>>
  BY DEF StartReserve
<1>2. TypeOK
  BY DEF PageInv
<1>3. TypeOK'
  <2>1. slicesTmp' \in Seq(Slice)
    BY <1>1, EmptySeq
  <2>2. job' \subseteq Nat \X Nat
    BY <1>1, <1>2, MemoryJobRuns
  <2>3. index' \in Nat \ {0} /\ index' <= Len(slices') + 1
    BY <1>1, <1>2, SliceTypes
  <2> QED BY <1>1, <1>2, <2>1, <2>2, <2>3, PageAssumption DEF TypeOK
<1>4. Rest' = Rest /\ Moved' = {} /\ Moved = {}
  BY <1>1, <1>2, SliceTypes DEF Rest, Moved
<1>5. Held' = Held
  BY <1>1, <1>4 DEF Held
<1>6. NoOverlap'
  BY <1>1, <1>4, <1>5 DEF PageInv, NoOverlap, End, EffectiveSize
<1>7. DistinctHandles'
  BY <1>1, <1>4 DEF PageInv, DistinctHandles
<1>8. Positions'
  BY <1>1, <1>4 DEF PageInv, Positions, InPage
<1>9. JobFree'
  BY <1>1, <1>2, MemoryJobRuns DEF JobFree, IsFree
<1>10. MergeFits'
  BY <1>1, <1>2, MemoryJobRuns DEF MergeFits
<1> QED BY <1>3, <1>6, <1>7, <1>8, <1>9, <1>10 DEF PageInv

\* Where the loop of coalesce() stands when it looks at slice index.
LEMMA LoopFacts ==
  ASSUME PageInv, Looping
  PROVE  /\ pc = "coalesce" /\ TypeOK
         /\ Rest = index..Len(slices) /\ index \in Rest
         /\ Moved = 1..Len(slicesTmp)
         /\ index \in Nat /\ index >= 1 /\ index <= Len(slices)
         /\ slices[index] \in Slice
         /\ slices[index] \in Held
<1>1. TypeOK /\ pc = "coalesce" /\ index \in DOMAIN slices
  BY DEF PageInv, Looping
<1>2. index \in 1..Len(slices) /\ Len(slices) \in Nat
  BY <1>1, SliceTypes
<1>3. Rest = index..Len(slices) /\ Moved = 1..Len(slicesTmp)
  BY <1>1, SliceTypes DEF Rest, Moved
<1>4. index \in Rest
  BY <1>2, <1>3
<1> QED BY <1>1, <1>2, <1>3, <1>4, SliceTypes DEF Held

\* Both ways of draining a slice into the run being merged (StartMerging and
\* Merging) drop it; the other slices keep what they have.
LEMMA DrainPageInv ==
  ASSUME PageInv, Looping, DropSlice,
         merge' \in [offset: Nat, size: Nat],
         index' = index + 1,
         UNCHANGED <<slices, slicesTmp, refs, pc, request, job>>,
         \A r \in job : r[1] < index + 1 /\ index + 1 <= r[2] =>
           /\ \A k \in Moved : End(slicesTmp[k]) <= merge'.offset
           /\ \A i \in Rest \ {index} :
                merge'.offset + merge'.size <= slices[i].offset
  PROVE  PageInv'
<1>1. /\ pc = "coalesce" /\ TypeOK
      /\ Rest = index..Len(slices) /\ index \in Rest
      /\ index \in Nat /\ index >= 1 /\ index <= Len(slices)
      /\ slices[index] \in Slice
      /\ Len(slices) \in Nat
  BY LoopFacts, SliceTypes
<1>2. Rest' = Rest \ {index} /\ Moved' = Moved
  BY <1>1 DEF Rest, Moved
<1>3. Held' \subseteq Held
  BY <1>2 DEF Held
<1>4. slices[index].handle \in Descriptors
  BY <1>1 DEF Slice
<1>5. TypeOK'
  BY <1>1, <1>4 DEF TypeOK, DropSlice
<1>6. NoOverlap'
  BY <1>2, <1>3 DEF PageInv, NoOverlap, End, EffectiveSize
<1>7. DistinctHandles'
  BY <1>2 DEF PageInv, DistinctHandles
<1>8. Positions'
  <2>1. ASSUME NEW i \in Rest' PROVE location'[slices'[i].handle] = i
    <3>1. i \in Rest /\ i # index /\ slices[i].handle # slices[index].handle
      BY <1>1, <1>2 DEF PageInv, DistinctHandles
    <3> QED BY <1>1, <3>1 DEF PageInv, Positions, DropSlice, TypeOK
  <2>2. ASSUME NEW k \in Moved' PROVE location'[slicesTmp'[k].handle] = k
    <3>1. k \in Moved /\ slicesTmp[k].handle # slices[index].handle
      BY <1>1, <1>2 DEF PageInv, DistinctHandles
    <3> QED BY <1>1, <3>1 DEF PageInv, Positions, DropSlice, TypeOK
  <2>3. ASSUME NEW d \in Descriptors, ~InPage(d)' PROVE location'[d] = 0
    <3>1. CASE d = slices[index].handle
      BY <1>1, <3>1 DEF DropSlice, TypeOK
    <3>2. CASE d # slices[index].handle
      <4>1. ~InPage(d)
        BY <1>2, <2>3, <3>2 DEF InPage
      <4> QED BY <1>1, <3>2, <4>1 DEF PageInv, Positions, DropSlice, TypeOK
    <3> QED BY <3>1, <3>2
  <2> QED BY <2>1, <2>2, <2>3 DEF Positions
<1>9. JobFree'
  BY <1>1, SMTT(30) DEF PageInv, JobFree, IsFree, TypeOK
<1>10. MergeFits'
  BY <1>1, <1>2 DEF MergeFits, End, EffectiveSize
<1> QED BY <1>5, <1>6, <1>7, <1>8, <1>9, <1>10 DEF PageInv

LEMMA StartMergingPageInv ==
  ASSUME PageInv, StartMerging
  PROVE  PageInv'
<1>1. Looping /\ DropSlice /\ index' = index + 1
  BY DEF StartMerging
<1>2. UNCHANGED <<slices, slicesTmp, refs, pc, request, job>>
  BY DEF StartMerging
<1>3. merge' = [offset |-> slices[index].offset,
                size |-> EffectiveSize(slices[index])]
  BY DEF StartMerging
<1>4. merge' \in [offset: Nat, size: Nat]
  BY <1>1, <1>3, LoopFacts DEF Slice, EffectiveSize
<1>5. \A k \in Moved : End(slicesTmp[k]) <= merge'.offset
  BY <1>1, <1>3, LoopFacts DEF PageInv, NoOverlap
<1>6. \A i \in Rest \ {index} : merge'.offset + merge'.size <= slices[i].offset
  BY <1>1, <1>3, LoopFacts DEF PageInv, NoOverlap, End
<1> QED BY <1>1, <1>2, <1>4, <1>5, <1>6, DrainPageInv

LEMMA MergingPageInv ==
  ASSUME PageInv, Merging
  PROVE  PageInv'
<1>1. Looping /\ DropSlice /\ index' = index + 1
  BY DEF Merging
<1>2. UNCHANGED <<slices, slicesTmp, refs, pc, request, job>>
  BY DEF Merging
<1>3. /\ merge \in [offset: Nat, size: Nat]
      /\ merge' = [merge EXCEPT !.size = @ + EffectiveSize(slices[index])]
  BY DEF Merging, PageInv, TypeOK
<1>4. /\ merge'.offset = merge.offset
      /\ merge'.size = merge.size + EffectiveSize(slices[index])
      /\ EffectiveSize(slices[index]) \in Nat /\ slices[index].offset \in Nat
      /\ merge' \in [offset: Nat, size: Nat]
  <2>1. EffectiveSize(slices[index]) \in Nat /\ slices[index].offset \in Nat
    BY <1>1, LoopFacts DEF Slice, EffectiveSize
  <2> QED BY <1>3, <2>1
<1>5. /\ \A k \in Moved : End(slicesTmp[k]) <= merge.offset
      /\ merge.offset + merge.size <= slices[index].offset
  <2>1. PICK r \in job : r[1] < index /\ index < r[2]
    BY DEF Merging
  <2>2. r[2] \in Nat /\ index \in Nat /\ index \in Rest /\ pc = "coalesce"
    BY <1>1, LoopFacts DEF TypeOK
  <2>3. MergeFits /\ index <= r[2]
    BY <2>1, <2>2 DEF PageInv
  <2> QED BY <2>1, <2>2, <2>3 DEF MergeFits
<1>6. ASSUME NEW i \in Rest \ {index} PROVE End(slices[index]) <= slices[i].offset
  <2>1. index \in Rest /\ index < i
    BY <1>1, LoopFacts
  <2>2. NoOverlap
    BY DEF PageInv
  <2> QED BY <2>1, <2>2 DEF NoOverlap
<1>7. ASSUME NEW i \in Rest \ {index}
      PROVE  merge'.offset + merge'.size <= slices[i].offset
  <2>1. slices[i].offset \in Nat
    BY <1>1, LoopFacts, SliceTypes DEF Slice
  <2> QED BY <1>3, <1>4, <1>5, <1>6, <2>1 DEF End
<1> QED BY <1>1, <1>2, <1>4, <1>5, <1>7, DrainPageInv

\* Both ways of appending a slice to slices_tmp (Completed and Ignoring): the
\* slice x replaces what was drained, starts after everything moved and ends no
\* later than the slice at index.
LEMMA AppendPageInv ==
  ASSUME PageInv, Looping, NEW x \in Slice,
         slicesTmp' = Append(slicesTmp, x),
         index' = index + 1,
         merge' \in [offset: Nat, size: Nat],
         UNCHANGED <<slices, refs, pc, request, job>>,
         location' \in [Descriptors -> Nat],
         location'[x.handle] = Len(slicesTmp) + 1,
         \A d \in Descriptors :
           d # x.handle =>
             location'[d] = IF d = slices[index].handle THEN 0 ELSE location[d],
         x.handle = slices[index].handle \/ ~InPage(x.handle),
         End(x) <= End(slices[index]),
         \A k \in Moved : End(slicesTmp[k]) <= x.offset,
         \A r \in job : ~(r[1] < index + 1 /\ index + 1 <= r[2])
  PROVE  PageInv'
<1> DEFINE n == Len(slicesTmp) + 1
<1>1. /\ pc = "coalesce" /\ TypeOK
      /\ Rest = index..Len(slices) /\ index \in Rest
      /\ Moved = 1..Len(slicesTmp)
      /\ index \in Nat /\ index >= 1 /\ index <= Len(slices)
      /\ slices[index] \in Slice /\ slices[index] \in Held
      /\ Len(slices) \in Nat /\ Len(slicesTmp) \in Nat
  BY LoopFacts, SliceTypes
<1>2. /\ slicesTmp' \in Seq(Slice) /\ Len(slicesTmp') = n
      /\ \A k \in 1..Len(slicesTmp) : slicesTmp'[k] = slicesTmp[k]
      /\ slicesTmp'[n] = x
  BY <1>1, AppendProperties DEF TypeOK
<1>3. Rest' = Rest \ {index}
  BY <1>1 DEF Rest
<1>4. Moved' = Moved \cup {n} /\ n \notin Moved
  BY <1>1, <1>2, LenProperties DEF Moved
<1>5. TypeOK'
  BY <1>1, <1>2 DEF TypeOK
<1>6. /\ \A i \in Rest : slices[i] \in Slice
      /\ \A k \in Moved : slicesTmp[k] \in Slice
  BY <1>1, SliceTypes
<1>7. NoOverlap'
  <2>1. ASSUME NEW i \in Rest', NEW j \in Rest', i < j
        PROVE  End(slices[i]) <= slices[j].offset
    BY <1>3, <2>1 DEF PageInv, NoOverlap
  <2>2. ASSUME NEW k \in Moved', NEW l \in Moved', k < l
        PROVE  End(slicesTmp'[k]) <= slicesTmp'[l].offset
    <3>1. CASE l = n
      BY <1>1, <1>2, <1>4, <2>2, <3>1
    <3>2. CASE l # n
      <4>1. k \in Moved /\ l \in Moved
        BY <1>1, <1>4, <2>2, <3>2
      <4> QED BY <1>1, <1>2, <2>2, <4>1 DEF PageInv, NoOverlap
    <3> QED BY <3>1, <3>2
  <2>3. ASSUME NEW k \in Moved', NEW i \in Rest'
        PROVE  End(slicesTmp'[k]) <= slices[i].offset
    <3>1. CASE k = n
      <4>1. End(slices[index]) <= slices[i].offset
        BY <1>1, <1>3 DEF PageInv, NoOverlap
      <4>2. End(x) \in Nat /\ End(slices[index]) \in Nat /\ slices[i].offset \in Nat
        BY <1>1, <1>3, <1>6, EndType
      <4> QED BY <1>2, <3>1, <4>1, <4>2
    <3>2. CASE k # n
      BY <1>1, <1>2, <1>3, <1>4, <3>2 DEF PageInv, NoOverlap
    <3> QED BY <3>1, <3>2
  <2>4. ASSUME NEW s \in Held' PROVE End(s) <= PageSize
    <3>1. s = x \/ s \in Held
      BY <1>1, <1>2, <1>3, <1>4 DEF Held
    <3>2. End(x) <= PageSize
      <4>1. End(slices[index]) <= PageSize
        BY <1>1 DEF PageInv, NoOverlap
      <4>2. End(x) \in Nat /\ End(slices[index]) \in Nat
        BY <1>1, EndType
      <4> QED BY <4>1, <4>2, PageAssumption
    <3> QED BY <3>1, <3>2 DEF PageInv, NoOverlap
  <2> QED BY <2>1, <2>2, <2>3, <2>4 DEF NoOverlap, End, EffectiveSize
<1>8. /\ \A i \in Rest' : slices[i].handle # x.handle
      /\ \A k \in Moved : slicesTmp[k].handle # x.handle
  <2>1. DistinctHandles
    BY DEF PageInv
  <2> QED BY <1>1, <1>3, <2>1 DEF DistinctHandles, InPage
<1>9. DistinctHandles'
  <2>1. ASSUME NEW k \in Moved', NEW l \in Moved',
               slicesTmp'[k].handle = slicesTmp'[l].handle
        PROVE  k = l
    BY <1>1, <1>2, <1>4, <1>8, <2>1 DEF PageInv, DistinctHandles
  <2>2. ASSUME NEW k \in Moved', NEW i \in Rest'
        PROVE  slicesTmp'[k].handle # slices[i].handle
    BY <1>1, <1>2, <1>3, <1>4, <1>8 DEF PageInv, DistinctHandles
  <2>3. ASSUME NEW i \in Rest', NEW j \in Rest', slices[i].handle = slices[j].handle
        PROVE  i = j
    BY <1>3, <2>3 DEF PageInv, DistinctHandles
  <2> QED BY <2>1, <2>2, <2>3 DEF DistinctHandles
<1>10. Positions'
  <2>1. ASSUME NEW i \in Rest' PROVE location'[slices'[i].handle] = i
    <3>1. i \in Rest /\ slices[i].handle # slices[index].handle
      BY <1>1, <1>3 DEF PageInv, DistinctHandles
    <3>2. slices[i].handle \in Descriptors
      BY <1>6, <3>1 DEF Slice
    <3> QED BY <1>8, <3>1, <3>2 DEF PageInv, Positions
  <2>2. ASSUME NEW k \in Moved' PROVE location'[slicesTmp'[k].handle] = k
    <3>1. CASE k = n
      BY <1>2, <3>1
    <3>2. CASE k # n
      <4>1. k \in Moved /\ slicesTmp'[k] = slicesTmp[k]
        BY <1>1, <1>2, <1>4, <3>2
      <4>2. slicesTmp[k].handle # slices[index].handle
        BY <1>1, <4>1 DEF PageInv, DistinctHandles
      <4>3. slicesTmp[k].handle \in Descriptors
        BY <1>6, <4>1 DEF Slice
      <4> QED BY <1>8, <4>1, <4>2, <4>3 DEF PageInv, Positions
    <3> QED BY <3>1, <3>2
  <2>3. ASSUME NEW d \in Descriptors, ~InPage(d)' PROVE location'[d] = 0
    <3>1. d # x.handle
      BY <1>2, <1>4, <2>3 DEF InPage
    <3>2. CASE d = slices[index].handle
      BY <3>1, <3>2
    <3>3. CASE d # slices[index].handle
      <4>1. ~InPage(d)
        BY <1>1, <1>2, <1>3, <1>4, <2>3, <3>3 DEF InPage
      <4> QED BY <3>1, <3>3, <4>1 DEF PageInv, Positions
    <3> QED BY <3>2, <3>3
  <2> QED BY <2>1, <2>2, <2>3 DEF Positions
<1>11. JobFree'
  BY <1>1 DEF PageInv, JobFree, IsFree, TypeOK
<1>12. MergeFits'
  BY <1>1 DEF MergeFits
<1> QED BY <1>5, <1>7, <1>9, <1>10, <1>11, <1>12 DEF PageInv

LEMMA CompletedPageInv ==
  ASSUME PageInv, Completed
  PROVE  PageInv'
<1>1. Looping /\ index' = index + 1
  BY DEF Completed
<1>2. UNCHANGED <<slices, refs, pc, request, job>> /\ merge' = NoMerge
  BY DEF Completed
<1>3. PICK r0 \in job : index = r0[2]
  BY DEF Completed
<1> DEFINE size == merge.size + EffectiveSize(slices[index])
<1>4. PICK d \in Descriptors :
        /\ Fresh(d)
        /\ slicesTmp' = Append(slicesTmp, NewSlice(merge.offset, size, d))
        /\ location' = [location EXCEPT ![d] = Len(slicesTmp) + 1,
                                      ![slices[index].handle] = 0]
  BY DEF Completed
<1> DEFINE x == NewSlice(merge.offset, size, d)
<1>5. /\ pc = "coalesce" /\ TypeOK
      /\ index \in Nat /\ index \in Rest
      /\ slices[index] \in Slice
      /\ merge.offset \in Nat /\ merge.size \in Nat
      /\ Len(slicesTmp) \in Nat
  BY <1>1, LoopFacts, SliceTypes DEF TypeOK
<1>6. x \in Slice /\ x.handle = d /\ x.offset = merge.offset
      /\ End(x) = merge.offset + size
  <2>1. size \in Nat
    BY <1>5, EndType
  <2>2. merge.offset \in Nat
    BY <1>5
  <2> HIDE DEF size
  <2> QED BY ONLY <2>1, <2>2, NewSliceType, d \in Descriptors
<1>7. ~InPage(d) /\ d # slices[index].handle
  BY <1>4, <1>5 DEF Fresh, InPage
<1>8. /\ r0[1] \in Nat /\ r0[2] \in Nat /\ r0[1] < index /\ index <= r0[2]
  BY <1>3, <1>5 DEF PageInv, JobFree, TypeOK
<1>9. /\ \A k \in Moved : End(slicesTmp[k]) <= merge.offset
      /\ merge.offset + merge.size <= slices[index].offset
  BY <1>5, <1>8 DEF PageInv, MergeFits
<1>10. End(x) <= End(slices[index])
  <2>1. /\ slices[index].offset \in Nat
        /\ EffectiveSize(slices[index]) \in Nat
        /\ End(slices[index]) = slices[index].offset + EffectiveSize(slices[index])
    BY <1>5, EndType
  <2> HIDE DEF x
  <2> QED BY <1>5, <1>6, <1>9, <2>1
<1>11. ASSUME NEW r \in job PROVE ~(r[1] < index + 1 /\ index + 1 <= r[2])
  <2>1. r[1] \in Nat /\ r[2] \in Nat
    BY <1>5 DEF TypeOK
  <2>2. r = r0 \/ r[2] < r0[1] \/ r0[2] < r[1]
    BY <1>5 DEF PageInv, JobFree
  <2> QED BY <1>3, <1>5, <1>8, <2>1, <2>2
<1>12. merge' \in [offset: Nat, size: Nat]
  BY <1>2 DEF NoMerge
<1>13. /\ location' \in [Descriptors -> Nat]
       /\ location'[d] = Len(slicesTmp) + 1
       /\ \A e \in Descriptors :
            e # d =>
              location'[e] = IF e = slices[index].handle THEN 0 ELSE location[e]
  <2>1. location \in [Descriptors -> Nat] /\ slices[index].handle \in Descriptors
    BY <1>5, EndType DEF TypeOK
  <2>2. Len(slicesTmp) + 1 \in Nat
    BY <1>5
  <2> QED BY <1>4, <1>7, <2>1, <2>2
<1> HIDE DEF x, size
<1>14. slicesTmp' = Append(slicesTmp, x)
  BY <1>4 DEF x, size
<1> QED BY <1>1, <1>2, <1>6, <1>7, <1>9, <1>10, <1>11, <1>12, <1>13, <1>14,
           AppendPageInv

LEMMA IgnoringPageInv ==
  ASSUME PageInv, Ignoring
  PROVE  PageInv'
<1> DEFINE x == slices[index]
<1>1. Looping /\ index' = index + 1
  BY DEF Ignoring
<1>2. UNCHANGED <<slices, refs, pc, request, job, merge>>
      /\ slicesTmp' = Append(slicesTmp, x)
      /\ location' = [location EXCEPT ![x.handle] = Len(slicesTmp) + 1]
  BY DEF Ignoring
<1>3. /\ pc = "coalesce" /\ TypeOK
      /\ index \in Nat /\ index \in Rest
      /\ x \in Slice
      /\ Len(slicesTmp) \in Nat
  BY <1>1, LoopFacts, SliceTypes
<1>4. \A k \in Moved : End(slicesTmp[k]) <= x.offset
  BY <1>3 DEF PageInv, NoOverlap
<1>5. End(x) <= End(slices[index])
  BY <1>3, EndType
<1>6. ASSUME NEW r \in job PROVE ~(r[1] < index + 1 /\ index + 1 <= r[2])
  <2>1. r[1] \in Nat /\ r[2] \in Nat
    BY <1>3 DEF TypeOK
  <2>2. index \notin r[1]..r[2]
    BY DEF Ignoring
  <2> QED BY <1>3, <2>1, <2>2
<1>7. /\ location' \in [Descriptors -> Nat]
      /\ location'[x.handle] = Len(slicesTmp) + 1
      /\ \A e \in Descriptors :
           e # x.handle =>
             location'[e] = IF e = slices[index].handle THEN 0 ELSE location[e]
  BY <1>2, <1>3, EndType, SMTT(30) DEF TypeOK
<1>8. merge' \in [offset: Nat, size: Nat]
  BY <1>2, <1>3 DEF TypeOK
<1>9. x.handle = slices[index].handle
  OBVIOUS
<1> HIDE DEF x
<1> QED BY <1>1, <1>2, <1>3, <1>4, <1>5, <1>6, <1>7, <1>8, <1>9, AppendPageInv

\* The swap at the end of coalesce(): every slice has been moved or merged.
LEMMA FinishCoalescePageInv ==
  ASSUME PageInv, FinishCoalesce
  PROVE  PageInv'
<1>1. /\ pc = "coalesce" /\ index = Len(slices) + 1 /\ TypeOK
      /\ slices' = slicesTmp /\ slicesTmp' = <<>> /\ pc' = "reserve"
      /\ job' = {} /\ index' = 1
      /\ UNCHANGED <<location, refs, request, merge>>
  BY DEF FinishCoalesce, PageInv
<1>2. TypeOK'
  <2>1. <<>> \in Seq(Slice)
    BY EmptySeq
  <2> QED BY <1>1, <2>1 DEF TypeOK
<1>3. Rest = {} /\ Moved = DOMAIN slicesTmp
  BY <1>1, SliceTypes DEF Rest, Moved
<1>4. Rest' = Moved /\ Moved' = {}
  BY <1>1, <1>3 DEF Rest, Moved
<1>5. Held' = Held
  BY <1>1, <1>3, <1>4 DEF Held
<1>6. NoOverlap'
  BY <1>1, <1>4, <1>5 DEF PageInv, NoOverlap, End, EffectiveSize
<1>7. DistinctHandles'
  BY <1>1, <1>4 DEF PageInv, DistinctHandles
<1>8. Positions'
  BY <1>1, <1>3, <1>4 DEF PageInv, Positions, InPage
<1>9. JobFree' /\ MergeFits'
  BY <1>1 DEF JobFree, MergeFits
<1> QED BY <1>2, <1>6, <1>7, <1>8, <1>9 DEF PageInv

\* Outside coalesce() the page is the sequence slices.
LEMMA OutsideLoop ==
  ASSUME TypeOK, pc # "coalesce"
  PROVE  /\ Rest = 1..Len(slices) /\ Moved = {}
         /\ Held = {slices[i] : i \in 1..Len(slices)}
BY SliceTypes DEF Rest, Moved, Held

\* Between two slots of the page, for the proofs of try_reserve() and bind():
\* a change of slices outside coalesce() keeps the invariant when the new
\* slices are in order, have distinct handles and know their positions.
LEMMA RebuildPageInv ==
  ASSUME PageInv, pc # "coalesce", pc' = "idle", request' \in Nat,
         slices' \in Seq(Slice),
         location' \in [Descriptors -> Nat],
         refs' \in [Descriptors -> 0..MaxRefs],
         UNCHANGED <<slicesTmp, job, index, merge>>,
         \A i, j \in 1..Len(slices') :
           i < j => End(slices'[i]) <= slices'[j].offset,
         \A i \in 1..Len(slices') : End(slices'[i]) <= PageSize,
         \A i, j \in 1..Len(slices') :
           slices'[i].handle = slices'[j].handle => i = j,
         \A i \in 1..Len(slices') : location'[slices'[i].handle] = i,
         \A d \in Descriptors :
           (\A i \in 1..Len(slices') : slices'[i].handle # d) => location'[d] = 0
  PROVE  PageInv'
<1>1. TypeOK'
  BY DEF PageInv, TypeOK
<1>2. DOMAIN slices' = 1..Len(slices')
  BY LenProperties
<1>3. Rest' = 1..Len(slices') /\ Moved' = {}
  BY <1>2 DEF Rest, Moved
<1>4. Held' = {slices'[i] : i \in 1..Len(slices')}
  BY <1>3 DEF Held
<1>5. NoOverlap'
  BY <1>3, <1>4 DEF NoOverlap, End, EffectiveSize
<1>6. DistinctHandles'
  BY <1>3 DEF DistinctHandles
<1>7. Positions'
  BY <1>3 DEF Positions, InPage
<1>8. JobFree' /\ MergeFits'
  BY DEF JobFree, MergeFits
<1> QED BY <1>1, <1>5, <1>6, <1>7, <1>8 DEF PageInv

\* What the invariant says outside coalesce().
LEMMA PageInvOutsideLoop ==
  ASSUME PageInv, pc # "coalesce"
  PROVE  /\ TypeOK
         /\ slices \in Seq(Slice) /\ Len(slices) \in Nat
         /\ \A i \in 1..Len(slices) : slices[i] \in Slice
         /\ \A i, j \in 1..Len(slices) :
              i < j => End(slices[i]) <= slices[j].offset
         /\ \A i \in 1..Len(slices) : End(slices[i]) <= PageSize
         /\ \A i, j \in 1..Len(slices) :
              slices[i].handle = slices[j].handle => i = j
         /\ \A i \in 1..Len(slices) : location[slices[i].handle] = i
         /\ \A d \in Descriptors :
              (\A i \in 1..Len(slices) : slices[i].handle # d) => location[d] = 0
<1>1. TypeOK
  BY DEF PageInv
<1>2. Rest = 1..Len(slices) /\ Moved = {}
      /\ Held = {slices[i] : i \in 1..Len(slices)}
  BY <1>1, OutsideLoop
<1>3. /\ \A i \in 1..Len(slices) : slices[i] \in Slice
      /\ slices \in Seq(Slice) /\ Len(slices) \in Nat
  BY <1>1, <1>2, SliceTypes DEF TypeOK
<1>4. NoOverlap /\ DistinctHandles /\ Positions
  BY DEF PageInv
<1>5. /\ \A i, j \in 1..Len(slices) :
           i < j => End(slices[i]) <= slices[j].offset
      /\ \A i \in 1..Len(slices) : End(slices[i]) <= PageSize
  BY <1>2, <1>4 DEF NoOverlap
<1>6. /\ \A i, j \in 1..Len(slices) :
           slices[i].handle = slices[j].handle => i = j
      /\ \A i \in 1..Len(slices) : location[slices[i].handle] = i
      /\ \A d \in Descriptors :
           (\A i \in 1..Len(slices) : slices[i].handle # d) => location[d] = 0
  BY <1>2, <1>4 DEF DistinctHandles, Positions, InPage
<1> QED BY <1>1, <1>3, <1>5, <1>6

\* try_reserve() on slice i keeps its place and takes no more than its room.
LEMMA TakenFits ==
  ASSUME PageInv, NEW s \in Slice, CanUse(s, request)
  PROVE  /\ Taken(s) \in Slice
         /\ Taken(s).handle = s.handle /\ Taken(s).offset = s.offset
         /\ End(Taken(s)) = s.offset + (request + CalculatePadding(request))
         /\ request + CalculatePadding(request) \in Nat
         /\ request + CalculatePadding(request) <= s.size
         /\ End(Taken(s)) <= End(s)
<1>1. request \in Nat /\ CalculatePadding(request) \in Nat
  BY PaddingType DEF PageInv, TypeOK
<1>2. request + CalculatePadding(request) <= s.size
  BY <1>1 DEF CanUse, Slice
<1>3. /\ Taken(s) \in Slice
      /\ Taken(s).handle = s.handle /\ Taken(s).offset = s.offset
      /\ Taken(s).size = request /\ Taken(s).padding = CalculatePadding(request)
  BY <1>1 DEF Taken, Slice
<1> QED BY <1>1, <1>2, <1>3 DEF End, EffectiveSize, Slice

LEMMA ReserveWholePageInv ==
  ASSUME PageInv, ReserveWhole
  PROVE  PageInv'
<1>1. /\ pc = "reserve" /\ pc' = "idle" /\ request' = 0
      /\ UNCHANGED <<location, slicesTmp, job, index, merge>>
  BY DEF ReserveWhole, callVars
<1>2. PICK i \in DOMAIN slices :
        /\ FirstFit(i)
        /\ slices' = [slices EXCEPT ![i] = Taken(@)]
        /\ refs' = [refs EXCEPT ![slices[i].handle] = 1]
  BY DEF ReserveWhole
<1>3. /\ TypeOK
      /\ slices \in Seq(Slice) /\ Len(slices) \in Nat
      /\ i \in 1..Len(slices)
      /\ \A k \in 1..Len(slices) : slices[k] \in Slice
  BY <1>1, PageInvOutsideLoop, SliceTypes
<1>4. /\ Taken(slices[i]) \in Slice
      /\ Taken(slices[i]).handle = slices[i].handle
      /\ Taken(slices[i]).offset = slices[i].offset
      /\ End(Taken(slices[i])) <= End(slices[i])
  BY <1>2, <1>3, TakenFits DEF FirstFit
<1>5. /\ slices' \in Seq(Slice) /\ Len(slices') = Len(slices)
      /\ \A k \in 1..Len(slices) :
           slices'[k] = IF k = i THEN Taken(slices[i]) ELSE slices[k]
  BY <1>2, <1>3, <1>4, ExceptSeq
<1>6. ASSUME NEW k \in 1..Len(slices)
      PROVE  /\ slices'[k] \in Slice
             /\ slices'[k].handle = slices[k].handle
             /\ slices'[k].offset = slices[k].offset
             /\ End(slices'[k]) <= End(slices[k])
             /\ End(slices'[k]) \in Nat /\ End(slices[k]) \in Nat
             /\ slices[k].offset \in Nat
  <2>1. slices[k] \in Slice /\ slices'[k] \in Slice
    BY <1>3, <1>4, <1>5
  <2>2. /\ End(slices'[k]) \in Nat /\ End(slices[k]) \in Nat
        /\ slices[k].offset \in Nat
    BY <2>1, EndType
  <2>3. CASE k = i
    BY <1>4, <1>5, <2>1, <2>2, <2>3
  <2>4. CASE k # i
    BY <1>5, <2>1, <2>2, <2>4
  <2> QED BY <2>3, <2>4
<1>7. refs' \in [Descriptors -> 0..MaxRefs]
  <2>1. 1 \in 0..MaxRefs
    BY PageAssumption
  <2> QED BY <1>2, <1>3, <2>1 DEF TypeOK
<1>8. ASSUME NEW j \in 1..Len(slices'), NEW k \in 1..Len(slices'), j < k
      PROVE  End(slices'[j]) <= slices'[k].offset
  <2>1. End(slices[j]) <= slices[k].offset
    BY <1>1, <1>5, <1>8, PageInvOutsideLoop
  <2> QED BY <1>5, <1>6, <2>1
<1>9. ASSUME NEW k \in 1..Len(slices') PROVE End(slices'[k]) <= PageSize
  <2>1. End(slices[k]) <= PageSize
    BY <1>1, <1>5, PageInvOutsideLoop
  <2> QED BY <1>5, <1>6, <2>1, PageAssumption
<1>10. /\ \A j, k \in 1..Len(slices') :
            slices'[j].handle = slices'[k].handle => j = k
       /\ \A k \in 1..Len(slices') : location'[slices'[k].handle] = k
       /\ \A d \in Descriptors :
            (\A k \in 1..Len(slices') : slices'[k].handle # d) => location'[d] = 0
  BY <1>1, <1>5, <1>6, PageInvOutsideLoop
<1>11. location' \in [Descriptors -> Nat]
  BY <1>1, <1>3 DEF TypeOK
<1> QED BY <1>1, <1>5, <1>7, <1>8, <1>9, <1>10, <1>11, RebuildPageInv

\* add_new_slice() cuts slice i in two and moves the slices after it by one.
LEMMA ReserveSplitPageInv ==
  ASSUME PageInv, ReserveSplit
  PROVE  PageInv'
<1>1. /\ pc = "reserve" /\ pc' = "idle" /\ request' = 0
      /\ UNCHANGED <<slicesTmp, job, index, merge>>
  BY DEF ReserveSplit, callVars
<1> DEFINE used == request + CalculatePadding(request)
           rest(i, d) == NewSlice(slices[i].offset + used, slices[i].size - used, d)
           split(i, d) == InsertAt([slices EXCEPT ![i] = Taken(@)], i + 1, rest(i, d))
<1>2. PICK i \in DOMAIN slices, d \in Descriptors :
        /\ FirstFit(i) /\ slices[i].size > used /\ Fresh(d)
        /\ slices' = split(i, d)
        /\ location' = Relocate(split(i, d))
        /\ refs' = [refs EXCEPT ![slices[i].handle] = 1]
  BY DEF ReserveSplit
<1> DEFINE x == rest(i, d)
           taken == Taken(slices[i])
           n == Len(slices)
<1>3. /\ TypeOK
      /\ slices \in Seq(Slice) /\ n \in Nat
      /\ i \in 1..n
      /\ \A k \in 1..n : slices[k] \in Slice
  BY <1>1, PageInvOutsideLoop, SliceTypes
<1>4. /\ taken \in Slice /\ taken.handle = slices[i].handle
      /\ taken.offset = slices[i].offset
      /\ End(taken) = slices[i].offset + used
      /\ used \in Nat
  BY <1>2, <1>3, TakenFits DEF FirstFit
<1>5. /\ slices[i].offset \in Nat /\ slices[i].size \in Nat
      /\ slices[i].size - used \in Nat
      /\ slices[i].offset + slices[i].size <= End(slices[i])
      /\ End(slices[i]) \in Nat
  <2>1. slices[i] \in Slice
    BY <1>3
  <2>2. /\ slices[i].offset \in Nat /\ slices[i].size \in Nat
        /\ slices[i].padding \in Nat
    BY <2>1, EndType
  <2> HIDE DEF used
  <2> QED BY <1>2, <1>4, <2>2 DEF End, EffectiveSize
<1> HIDE DEF used
<1>6. /\ x \in Slice /\ x.handle = d
      /\ x.offset = slices[i].offset + used
      /\ End(x) = slices[i].offset + slices[i].size
  <2> DEFINE offset == slices[i].offset + used
             size == slices[i].size - used
  <2>1. offset \in Nat /\ size \in Nat /\ offset + size = slices[i].offset + slices[i].size
    BY <1>4, <1>5
  <2>2. x = NewSlice(offset, size, d) /\ offset = slices[i].offset + used
    OBVIOUS
  <2> HIDE DEF x, offset, size
  <2>3. x \in Slice /\ x.handle = d /\ x.offset = offset /\ End(x) = offset + size
    BY <2>1, <2>2, NewSliceType
  <2> QED BY <2>1, <2>2, <2>3
<1> HIDE DEF x, taken
<1>7. \A k \in 1..n : slices[k].handle # d
  BY <1>1, <1>2, <1>3, OutsideLoop DEF Fresh, InPage
<1>8. /\ slices' \in Seq(Slice) /\ Len(slices') = n + 1
      /\ \A k \in 1..(n + 1) :
           slices'[k] = IF k < i THEN slices[k] ELSE IF k = i THEN taken
                        ELSE IF k = i + 1 THEN x ELSE slices[k - 1]
  <2> DEFINE s1 == [slices EXCEPT ![i] = taken]
  <2>1. /\ s1 \in Seq(Slice) /\ Len(s1) = n
        /\ \A k \in 1..n : s1[k] = IF k = i THEN taken ELSE slices[k]
    BY <1>3, <1>4, ExceptSeq
  <2>2. slices' = InsertAt(s1, i + 1, x)
    BY <1>2 DEF x, taken
  <2> HIDE DEF s1
  <2>3. i + 1 \in 1..(Len(s1) + 1)
    BY <1>3, <2>1
  <2>4. /\ slices' \in Seq(Slice) /\ Len(slices') = n + 1
        /\ \A k \in 1..(n + 1) :
             slices'[k] = IF k < i + 1 THEN s1[k]
                          ELSE IF k = i + 1 THEN x ELSE s1[k - 1]
    <3>1. /\ slices' \in Seq(Slice) /\ Len(slices') = Len(s1) + 1
          /\ \A k \in 1..(Len(s1) + 1) :
               slices'[k] = IF k < i + 1 THEN s1[k]
                            ELSE IF k = i + 1 THEN x ELSE s1[k - 1]
      <4> DEFINE j == i + 1
      <4>1. s1 \in Seq(Slice) /\ j \in 1..(Len(s1) + 1) /\ x \in Slice
        BY <1>6, <2>1, <2>3
      <4>2. slices' = InsertAt(s1, j, x)
        BY <2>2
      <4>3. i + 1 = j
        OBVIOUS
      <4> HIDE DEF j
      <4>4. /\ InsertAt(s1, j, x) \in Seq(Slice)
            /\ Len(InsertAt(s1, j, x)) = Len(s1) + 1
            /\ \A k \in 1..(Len(s1) + 1) :
                 InsertAt(s1, j, x)[k] = IF k < j THEN s1[k]
                                         ELSE IF k = j THEN x ELSE s1[k - 1]
        BY <4>1, InsertAtProperties, SMTT(30)
      <4> QED BY <4>2, <4>3, <4>4
    <3> QED BY <2>1, <3>1
  <2>5. ASSUME NEW k \in 1..(n + 1)
        PROVE slices'[k] = IF k < i THEN slices[k] ELSE IF k = i THEN taken
                           ELSE IF k = i + 1 THEN x ELSE slices[k - 1]
    <3>1. CASE k < i + 1
      <4>1. k \in 1..n /\ slices'[k] = s1[k] /\ (k < i \/ k = i)
        BY <1>3, <2>4, <3>1
      <4> QED BY <1>3, <2>1, <4>1
    <3>2. CASE k = i + 1
      BY <1>3, <2>4, <3>2
    <3>3. CASE k > i + 1
      <4>1. k - 1 \in 1..n /\ slices'[k] = s1[k - 1] /\ k - 1 # i
        BY <1>3, <2>4, <3>3
      <4>2. s1[k - 1] = slices[k - 1]
        BY <2>1, <4>1
      <4> QED BY <1>3, <3>3, <4>1, <4>2
    <3> QED BY <1>3, <3>1, <3>2, <3>3
  <2> QED BY <2>4, <2>5
\* Where each slice of the new page comes from.
<1> DEFINE old(k) == IF k <= i THEN k ELSE k - 1
<1>9. ASSUME NEW k \in 1..(n + 1)
      PROVE  /\ old(k) \in 1..n
             /\ slices'[k] \in Slice
             /\ End(slices'[k]) \in Nat /\ End(slices[old(k)]) \in Nat
             /\ slices'[k].offset \in Nat /\ slices[old(k)].offset \in Nat
             /\ End(slices'[k]) <= End(slices[old(k)])
             /\ slices[old(k)].offset <= slices'[k].offset
             /\ slices'[k].handle = IF k = i + 1 THEN d ELSE slices[old(k)].handle
  <2>1. old(k) \in 1..n
    BY <1>3
  <2>2. slices'[k] \in Slice /\ slices[old(k)] \in Slice
    BY <1>3, <1>8, <2>1, ElementOfSeq
  <2>3. /\ End(slices'[k]) \in Nat /\ End(slices[old(k)]) \in Nat
        /\ slices'[k].offset \in Nat /\ slices[old(k)].offset \in Nat
    BY <2>2, EndType
  <2>4. CASE k = i
    <3>1. slices'[k] = taken /\ old(k) = i /\ k # i + 1
      BY <1>3, <1>8, <2>4
    <3>2. End(taken) <= End(slices[i])
      BY <1>2, <1>4, <1>5
    <3> HIDE DEF old
    <3> QED BY <1>4, <1>5, <2>1, <2>2, <2>3, <3>1, <3>2
  <2>5. CASE k = i + 1
    <3>1. slices'[k] = x /\ old(k) = i
      BY <1>3, <1>8, <2>5
    <3>2. End(x) <= End(slices[i]) /\ slices[i].offset <= x.offset
      BY <1>4, <1>5, <1>6
    <3>3. x.handle = d
      BY <1>6
    <3> HIDE DEF old
    <3> QED BY ONLY <2>1, <2>2, <2>3, <2>5, <3>1, <3>2, <3>3
  <2>6. CASE k # i /\ k # i + 1
    <3>1. slices'[k] = slices[old(k)]
      BY <1>3, <1>8, <2>6
    <3> QED BY <2>1, <2>2, <2>3, <2>6, <3>1
  <2> QED BY <2>4, <2>5, <2>6
<1>10. ASSUME NEW j \in 1..Len(slices'), NEW k \in 1..Len(slices'), j < k
       PROVE  End(slices'[j]) <= slices'[k].offset
  <2>1. j \in 1..(n + 1) /\ k \in 1..(n + 1)
    BY <1>8
  <2>2. CASE j = i /\ k = i + 1
    <3>1. slices'[j] = taken /\ slices'[k] = x
      BY <1>3, <1>8, <2>1, <2>2
    <3> QED BY <1>4, <1>5, <1>6, <3>1
  <2>3. CASE ~(j = i /\ k = i + 1)
    <3>1. old(j) < old(k)
      BY <1>3, <1>10, <2>1, <2>3
    <3> HIDE DEF old
    <3>2. End(slices[old(j)]) <= slices[old(k)].offset
      BY <1>1, <1>9, <2>1, <3>1, PageInvOutsideLoop
    <3>3. /\ End(slices'[j]) \in Nat /\ End(slices[old(j)]) \in Nat
          /\ End(slices'[j]) <= End(slices[old(j)])
      BY <1>9, <2>1
    <3>4. /\ slices'[k].offset \in Nat /\ slices[old(k)].offset \in Nat
          /\ slices[old(k)].offset <= slices'[k].offset
      BY <1>9, <2>1
    <3> QED BY ONLY <3>2, <3>3, <3>4
  <2> QED BY <2>2, <2>3
<1>11. ASSUME NEW k \in 1..Len(slices') PROVE End(slices'[k]) <= PageSize
  <2>1. k \in 1..(n + 1)
    BY <1>8
  <2> HIDE DEF old
  <2>2. End(slices[old(k)]) <= PageSize
    BY <1>1, <1>9, <2>1, PageInvOutsideLoop
  <2> QED BY <1>9, <2>1, <2>2, PageAssumption
<1>12. ASSUME NEW j \in 1..Len(slices'), NEW k \in 1..Len(slices'),
              slices'[j].handle = slices'[k].handle
       PROVE  j = k
  <2>1. j \in 1..(n + 1) /\ k \in 1..(n + 1)
    BY <1>8
  <2>2. j = i + 1 <=> k = i + 1
    BY <1>7, <1>9, <1>12, <2>1
  <2>3. CASE j # i + 1 /\ k # i + 1
    <3>1. old(j) = old(k)
      <4>1. /\ old(j) \in 1..n /\ old(k) \in 1..n
            /\ slices[old(j)].handle = slices[old(k)].handle
        BY <1>9, <1>12, <2>1, <2>3
      <4> HIDE DEF old
      <4> QED BY <1>1, <4>1, PageInvOutsideLoop
    <3> QED BY <1>3, <2>1, <2>3, <3>1
  <2> QED BY <2>2, <2>3
<1>13. DOMAIN slices' = 1..Len(slices')
  BY <1>8, LenProperties
<1>14. /\ \A k \in 1..Len(slices') : slices'[k].handle \in Descriptors
       /\ \A e \in Descriptors :
            location'[e] =
              IF \E k \in DOMAIN slices' : slices'[k].handle = e
              THEN CHOOSE k \in DOMAIN slices' : slices'[k].handle = e
              ELSE location[e]
  <2>1. \A k \in 1..Len(slices') : slices'[k].handle \in Descriptors
    BY <1>8, <1>9, EndType
  <2> HIDE DEF split
  <2> QED BY <1>2, <2>1 DEF Relocate
<1>15. ASSUME NEW k \in 1..Len(slices') PROVE location'[slices'[k].handle] = k
  BY <1>12, <1>13, <1>14
<1>16. ASSUME NEW e \in Descriptors,
              \A k \in 1..Len(slices') : slices'[k].handle # e
       PROVE  location'[e] = 0
  <2>1. location'[e] = location[e]
    BY <1>13, <1>14, <1>16
  <2>2. ASSUME NEW k \in 1..n PROVE slices[k].handle # e
    <3>1. CASE k <= i
      <4>1. k \in 1..(n + 1) /\ old(k) = k /\ k # i + 1
        BY <1>3, <3>1
      <4> QED BY <1>8, <1>9, <1>16, <4>1
    <3>2. CASE k > i
      <4>1. k + 1 \in 1..(n + 1) /\ old(k + 1) = k /\ k + 1 # i + 1
        BY <1>3, <3>2
      <4> QED BY <1>8, <1>9, <1>16, <4>1
    <3>3. k <= i \/ k > i
      BY <1>3
    <3> QED BY <3>1, <3>2, <3>3
  <2> QED BY <1>1, <2>1, <2>2, PageInvOutsideLoop
<1>17. location' \in [Descriptors -> Nat]
  <2>1. ASSUME NEW e \in Descriptors PROVE location'[e] \in Nat
    <3>1. CASE \E k \in DOMAIN slices' : slices'[k].handle = e
      BY <1>8, <1>13, <1>15, <3>1
    <3>2. CASE ~\E k \in DOMAIN slices' : slices'[k].handle = e
      BY <1>13, <1>16, <3>2
    <3> QED BY <3>1, <3>2
  <2> HIDE DEF split
  <2> QED BY <1>2, <2>1 DEF Relocate
<1>18. refs' \in [Descriptors -> 0..MaxRefs]
  <2>1. 1 \in 0..MaxRefs
    BY PageAssumption
  <2> QED BY <1>2, <1>3, <2>1 DEF TypeOK
<1> QED BY <1>1, <1>8, <1>10, <1>11, <1>12, <1>15, <1>16, <1>17, <1>18,
           RebuildPageInv

\* bind() replaces one handle by another one the page does not hold yet.
LEMMA BindPageInv ==
  ASSUME PageInv, NEW reserved \in Descriptors, NEW new \in Descriptors,
         Bind(reserved, new)
  PROVE  PageInv'
<1> DEFINE n == Len(slices)
           i == location[reserved]
           x == [slices[i] EXCEPT !.handle = new]
<1>1. /\ pc = "idle" /\ pc' = "idle" /\ request' = request
      /\ UNCHANGED <<slicesTmp, job, index, merge>>
      /\ refs[reserved] = 1 /\ InPage(reserved) /\ ~InPage(new)
      /\ slices' = [slices EXCEPT ![i].handle = new]
      /\ location' = [location EXCEPT ![new] = i, ![reserved] = 0]
      /\ refs' = [refs EXCEPT ![reserved] = 0]
  BY DEF Bind, callVars
<1>2. /\ TypeOK
      /\ slices \in Seq(Slice) /\ n \in Nat
      /\ \A k \in 1..n : slices[k] \in Slice
  BY <1>1, PageInvOutsideLoop
<1>3. i \in 1..n /\ slices[i].handle = reserved
  <2>1. PICK k \in 1..n : slices[k].handle = reserved
    BY <1>1, <1>2, OutsideLoop DEF InPage
  <2> QED BY <1>1, <2>1, PageInvOutsideLoop
<1>4. \A k \in 1..n : slices[k].handle # new
  BY <1>1, <1>2, OutsideLoop DEF InPage
<1>5. reserved # new
  BY <1>3, <1>4
<1>6. /\ x \in Slice /\ x.handle = new
      /\ x.offset = slices[i].offset /\ End(x) = End(slices[i])
  BY <1>2, <1>3 DEF Slice, End, EffectiveSize
<1>7. /\ slices' \in Seq(Slice) /\ Len(slices') = n
      /\ \A k \in 1..n : slices'[k] = IF k = i THEN x ELSE slices[k]
  <2>1. slices' = [slices EXCEPT ![i] = x]
    BY <1>1
  <2> QED BY <1>2, <1>3, <1>6, <2>1, ExceptSeq
<1> HIDE DEF x, i
<1>8. ASSUME NEW k \in 1..n
      PROVE  /\ slices'[k].offset = slices[k].offset
             /\ End(slices'[k]) = End(slices[k])
             /\ slices'[k].handle = IF k = i THEN new ELSE slices[k].handle
  BY <1>6, <1>7
<1>9. /\ \A j, k \in 1..Len(slices') :
           j < k => End(slices'[j]) <= slices'[k].offset
      /\ \A k \in 1..Len(slices') : End(slices'[k]) <= PageSize
  <2>1. /\ \A j, k \in 1..n : j < k => End(slices[j]) <= slices[k].offset
        /\ \A k \in 1..n : End(slices[k]) <= PageSize
    BY <1>1, PageInvOutsideLoop
  <2> QED BY <1>7, <1>8, <2>1
<1>10. \A j, k \in 1..Len(slices') :
         slices'[j].handle = slices'[k].handle => j = k
  BY <1>1, <1>4, <1>7, <1>8, PageInvOutsideLoop
<1>11. location \in [Descriptors -> Nat] /\ refs \in [Descriptors -> 0..MaxRefs]
  BY <1>2 DEF TypeOK
<1>12. ASSUME NEW k \in 1..Len(slices') PROVE location'[slices'[k].handle] = k
  <2>1. CASE k = i
    BY <1>1, <1>3, <1>5, <1>7, <1>8, <1>11, <2>1
  <2>2. CASE k # i
    <3>1. slices'[k].handle = slices[k].handle /\ slices[k].handle # reserved
      BY <1>1, <1>3, <1>7, <1>8, <2>2, PageInvOutsideLoop
    <3>2. slices[k].handle # new /\ slices[k].handle \in Descriptors
      BY <1>2, <1>4, <1>7, EndType
    <3> QED BY <1>1, <1>7, <1>11, <3>1, <3>2, PageInvOutsideLoop
  <2> QED BY <2>1, <2>2
<1>13. ASSUME NEW d \in Descriptors,
              \A k \in 1..Len(slices') : slices'[k].handle # d
       PROVE  location'[d] = 0
  <2>1. d # new
    BY <1>3, <1>7, <1>8, <1>13
  <2>2. CASE d = reserved
    BY <1>1, <1>11, <2>2
  <2>3. CASE d # reserved
    <3>1. \A k \in 1..n : slices[k].handle # d
      BY <1>3, <1>7, <1>8, <1>13, <2>3
    <3>2. location[d] = 0
      BY <1>1, <3>1, PageInvOutsideLoop
    <3> QED BY <1>1, <1>11, <2>1, <2>3, <3>2
  <2> QED BY <2>2, <2>3
<1>14. location' \in [Descriptors -> Nat] /\ refs' \in [Descriptors -> 0..MaxRefs]
  <2>1. i \in Nat /\ 0 \in 0..MaxRefs
    BY <1>2, <1>3, PageAssumption
  <2> QED BY <1>1, <1>11, <2>1
<1>15. request' \in Nat
  BY <1>1, <1>2 DEF TypeOK
<1> QED BY <1>1, <1>7, <1>9, <1>10, <1>12, <1>13, <1>14, <1>15, RebuildPageInv

\* try_reserve() that fails changes nothing but the request.
LEMMA ReserveNonePageInv ==
  ASSUME PageInv, ReserveNone
  PROVE  PageInv'
<1>1. /\ pc = "reserve" /\ pc' = "idle" /\ request' = 0
      /\ UNCHANGED <<slices, location, refs, slicesTmp, job, index, merge>>
  BY DEF ReserveNone, callVars
<1>2. TypeOK'
  BY <1>1 DEF PageInv, TypeOK
<1>3. Rest' = Rest /\ Moved' = Moved /\ Held' = Held
  BY <1>1 DEF Rest, Moved, Held
<1>4. NoOverlap' /\ DistinctHandles' /\ Positions'
  BY <1>1, <1>3
  DEF PageInv, NoOverlap, End, EffectiveSize, DistinctHandles, Positions, InPage
<1> QED BY <1>1, <1>2, <1>4 DEF PageInv, JobFree, MergeFits

(***************************************************************************)
(* The invariant is inductive.                                             *)
(***************************************************************************)
THEOREM PageInvariance == Spec => []PageInv
<1>1. Init => PageInv
  BY InitPageInv
<1>2. PageInv /\ [Next]_vars => PageInv'
  <2> SUFFICES ASSUME PageInv, [Next]_vars PROVE PageInv'
    OBVIOUS
  <2>1. ASSUME NEW d \in Descriptors, User(d) PROVE PageInv'
    BY <2>1, UserPageInv
  <2>2. ASSUME NEW size \in Sizes, StartReserve(size) PROVE PageInv'
    BY <2>2, StartReservePageInv
  <2>3. CASE Coalesce
    BY <2>3, StartMergingPageInv, MergingPageInv, CompletedPageInv,
       IgnoringPageInv, FinishCoalescePageInv DEF Coalesce
  <2>4. CASE TryReserve
    BY <2>4, ReserveWholePageInv, ReserveSplitPageInv, ReserveNonePageInv
    DEF TryReserve
  <2>5. ASSUME NEW reserved \in Descriptors, NEW new \in Descriptors,
               Bind(reserved, new)
        PROVE PageInv'
    BY <2>5, BindPageInv
  <2>6. CASE UNCHANGED vars
    <3>1. /\ UNCHANGED <<slices, slicesTmp, location, refs, pc>>
          /\ UNCHANGED <<request, job, index, merge>>
      BY <2>6 DEF vars
    <3>2. Rest' = Rest /\ Moved' = Moved /\ Held' = Held
      BY <3>1 DEF Rest, Moved, Held
    <3> QED BY <3>1, <3>2
        DEF PageInv, TypeOK, NoOverlap, End, EffectiveSize, DistinctHandles,
            Positions, InPage, JobFree, IsFree, MergeFits
  <2> QED BY <2>1, <2>2, <2>3, <2>4, <2>5, <2>6 DEF Next
<1> QED BY <1>1, <1>2, PTL DEF Spec

\* No two slices of a page share a byte, at any instant (NoOverlap).
THEOREM PageNoOverlap == Spec => []NoOverlap
<1>1. PageInv => NoOverlap
  BY DEF PageInv
<1> QED BY <1>1, PageInvariance, PTL

\* Type correctness.
THEOREM PageTypeOK == Spec => []TypeOK
<1>1. PageInv => TypeOK
  BY DEF PageInv
<1> QED BY <1>1, PageInvariance, PTL

\* The assert_eq! of find() cannot fail (HandleFindsSlice).
THEOREM PageHandleFindsSlice == Spec => []HandleFindsSlice
<1>1. PageInv => HandleFindsSlice
  <2> SUFFICES ASSUME PageInv, pc # "coalesce", NEW d \in Descriptors
               PROVE IF InPage(d)
                     THEN location[d] \in DOMAIN slices /\ slices[location[d]].handle = d
                     ELSE location[d] = 0
    BY DEF HandleFindsSlice
  <2>1. CASE InPage(d)
    <3>1. TypeOK
      BY DEF PageInv
    <3>2. PICK i \in 1..Len(slices) : slices[i].handle = d
      BY <2>1, <3>1, OutsideLoop DEF InPage
    <3>3. location[d] = i
      BY <3>2, PageInvOutsideLoop
    <3> QED BY <2>1, <3>1, <3>2, <3>3, SliceTypes
  <2>2. CASE ~InPage(d)
    BY <2>2 DEF PageInv, Positions
  <2> QED BY <2>1, <2>2
<1> QED BY <1>1, PageInvariance, PTL

(***************************************************************************)
(* Regions in use.                                                         *)
(***************************************************************************)
Live == {t \in Held : refs[t.handle] > 0}

\* coalesce() moves the slices in use and leaves out free ones only.
LEMMA CoalesceLive ==
  ASSUME PageInv, Coalesce
  PROVE  Live' = Live /\ refs' = refs
<1>1. TypeOK /\ refs' = refs
  BY DEF PageInv, Coalesce, StartMerging, Merging, Completed, Ignoring,
         FinishCoalesce
<1>2. ASSUME Looping, NEW r \in job, index \in r[1]..r[2]
      PROVE  ~(refs[slices[index].handle] > 0)
  <2>1. index \in Nat /\ pc = "coalesce"
    BY <1>2, LoopFacts
  <2>2. IsFree(slices[index].handle)
    BY <1>2, <2>1 DEF PageInv, JobFree
  <2> QED BY <2>2 DEF IsFree
<1>3. ASSUME Looping, index' = index + 1, UNCHANGED <<slices, pc>>
      PROVE  Rest' = Rest \ {index}
  BY <1>1, <1>3, LoopFacts, SliceTypes DEF Rest
<1>4. ASSUME StartMerging \/ Merging
      PROVE  Live' = Live
  <2>1. /\ Looping /\ index' = index + 1
        /\ UNCHANGED <<slices, slicesTmp, pc>>
        /\ \E r \in job : index \in r[1]..r[2]
    <3>1. /\ Looping /\ index' = index + 1
          /\ UNCHANGED <<slices, slicesTmp, pc>>
          /\ \E r \in job : index = r[1] \/ (r[1] < index /\ index < r[2])
      BY <1>4 DEF StartMerging, Merging
    <3>2. \A r \in job : r[1] \in Nat /\ r[2] \in Nat /\ r[1] < r[2]
      BY <1>1, <3>1, LoopFacts DEF PageInv, JobFree, TypeOK
    <3>3. index \in Nat
      BY <3>1, LoopFacts
    <3> QED BY <3>1, <3>2, <3>3
  <2>2. Rest' = Rest \ {index} /\ Moved' = Moved
    BY <1>3, <2>1 DEF Moved
  <2>3. ~(refs[slices[index].handle] > 0)
    BY <1>2, <2>1
  <2>4. Held' \subseteq Held
    BY <2>1, <2>2 DEF Held
  <2>5. ASSUME NEW t \in Held, refs[t.handle] > 0 PROVE t \in Held'
    BY <2>1, <2>2, <2>3, <2>5 DEF Held
  <2> QED BY <1>1, <2>4, <2>5 DEF Live
<1>5. ASSUME NEW x \in Slice, Looping, index' = index + 1,
             UNCHANGED <<slices, pc>>, slicesTmp' = Append(slicesTmp, x)
      PROVE  /\ Held' = {slices[i] : i \in Rest \ {index}}
                         \cup {slicesTmp[k] : k \in Moved} \cup {x}
             /\ Held = {slices[i] : i \in Rest \ {index}}
                         \cup {slicesTmp[k] : k \in Moved} \cup {slices[index]}
  <2>1. /\ pc = "coalesce" /\ Len(slicesTmp) \in Nat
        /\ Moved = 1..Len(slicesTmp) /\ index \in Rest
    BY <1>1, <1>5, LoopFacts, SliceTypes
  <2>2. /\ slicesTmp' \in Seq(Slice) /\ Len(slicesTmp') = Len(slicesTmp) + 1
        /\ \A k \in 1..Len(slicesTmp) : slicesTmp'[k] = slicesTmp[k]
        /\ slicesTmp'[Len(slicesTmp) + 1] = x
    BY <1>1, <1>5, AppendProperties DEF TypeOK
  <2>3. Moved' = Moved \cup {Len(slicesTmp) + 1}
    BY <1>5, <2>1, <2>2, LenProperties DEF Moved
  <2>4. Rest' = Rest \ {index}
    BY <1>3, <1>5
  <2> QED BY <1>5, <2>1, <2>2, <2>3, <2>4 DEF Held
<1>6. CASE Completed
  <2>1. PICK d \in Descriptors :
          /\ Fresh(d)
          /\ slicesTmp' = Append(slicesTmp,
               NewSlice(merge.offset, merge.size + EffectiveSize(slices[index]), d))
    BY <1>6 DEF Completed
  <2>2. /\ Looping /\ index' = index + 1 /\ UNCHANGED <<slices, pc>>
        /\ \E r \in job : index = r[2]
    BY <1>6 DEF Completed
  <2> DEFINE size == merge.size + EffectiveSize(slices[index])
             x == NewSlice(merge.offset, size, d)
  <2>3. merge.offset \in Nat /\ size \in Nat
    <3>1. slices[index] \in Slice /\ merge \in [offset: Nat, size: Nat]
      BY <1>1, <2>2, LoopFacts DEF TypeOK
    <3>2. EffectiveSize(slices[index]) \in Nat
      BY <3>1, EndType
    <3> QED BY <3>1, <3>2
  <2>4. slicesTmp' = Append(slicesTmp, x)
    BY <2>1
  <2> HIDE DEF size
  <2>5. x \in Slice /\ x.handle = d
    BY <2>3, NewSliceType
  <2> HIDE DEF x
  <2>6. ~(refs[d] > 0)
    BY <2>1 DEF Fresh
  <2>7. \E r \in job : index \in r[1]..r[2]
    <3>1. \A r \in job : r[1] \in Nat /\ r[2] \in Nat /\ r[1] < r[2]
      BY <1>1, <2>2, LoopFacts DEF PageInv, JobFree, TypeOK
    <3> QED BY <2>2, <3>1
  <2>8. ~(refs[slices[index].handle] > 0)
    BY <1>2, <2>2, <2>7
  <2>9. /\ Held' = {slices[i] : i \in Rest \ {index}}
                     \cup {slicesTmp[k] : k \in Moved} \cup {x}
        /\ Held = {slices[i] : i \in Rest \ {index}}
                     \cup {slicesTmp[k] : k \in Moved} \cup {slices[index]}
    BY <1>5, <2>2, <2>4, <2>5
  <2> QED BY <1>1, <2>5, <2>6, <2>8, <2>9 DEF Live
<1>7. CASE Ignoring
  <2>1. /\ Looping /\ index' = index + 1 /\ UNCHANGED <<slices, pc>>
        /\ slicesTmp' = Append(slicesTmp, slices[index])
    BY <1>7 DEF Ignoring
  <2>2. slices[index] \in Slice
    BY <2>1, LoopFacts
  <2>3. Held' = Held
    BY <1>5, <2>1, <2>2
  <2> QED BY <1>1, <2>3 DEF Live
<1>8. CASE FinishCoalesce
  <2>1. /\ pc = "coalesce" /\ index = Len(slices) + 1
        /\ slices' = slicesTmp /\ pc' = "reserve"
    BY <1>8 DEF FinishCoalesce
  <2>2. Rest = {} /\ Moved = DOMAIN slicesTmp /\ Rest' = Moved /\ Moved' = {}
    BY <1>1, <2>1, SliceTypes DEF Rest, Moved
  <2>3. Held' = Held
    BY <2>1, <2>2 DEF Held
  <2> QED BY <1>1, <2>3 DEF Live
<1> QED BY <1>1, <1>4, <1>6, <1>7, <1>8 DEF Coalesce

\* A reserve that succeeds puts one free slice in use, trimmed to the request.
LEMMA ReserveLive ==
  ASSUME PageInv, ReserveWhole \/ ReserveSplit
  PROVE  \E s \in Held :
           /\ s \in Slice /\ ~(refs[s.handle] > 0)
           /\ CanUse(s, request)
           /\ Live' = Live \cup {Taken(s)}
           /\ refs' = [refs EXCEPT ![s.handle] = 1]
<1> DEFINE n == Len(slices)
<1>1. pc = "reserve" /\ pc' = "idle"
  BY DEF ReserveWhole, ReserveSplit
<1>2. /\ TypeOK /\ slices \in Seq(Slice) /\ n \in Nat
      /\ \A k \in 1..n : slices[k] \in Slice
      /\ DOMAIN slices = 1..n
      /\ Held = {slices[k] : k \in 1..n}
  BY <1>1, PageInvOutsideLoop, OutsideLoop, SliceTypes
<1>3. PageInv' /\ Held' = {slices'[k] : k \in 1..Len(slices')}
  <2>1. PageInv'
    BY ReserveWholePageInv, ReserveSplitPageInv
  <2>2. DOMAIN slices' = 1..Len(slices')
    BY <2>1, LenProperties DEF PageInv, TypeOK
  <2> QED BY <1>1, <2>1, <2>2 DEF Held, Rest, Moved
<1>4. PICK i \in 1..n :
        /\ FirstFit(i)
        /\ refs' = [refs EXCEPT ![slices[i].handle] = 1]
        /\ \/ slices' = [slices EXCEPT ![i] = Taken(@)]
           \/ \E d \in Descriptors, x \in Slice :
                /\ Fresh(d) /\ x.handle = d
                /\ slices' = InsertAt([slices EXCEPT ![i] = Taken(@)], i + 1, x)
  <2>1. CASE ReserveWhole
    BY <1>2, <2>1 DEF ReserveWhole
  <2>2. CASE ReserveSplit
    <3> DEFINE used == request + CalculatePadding(request)
               x(i, d) == NewSlice(slices[i].offset + used, slices[i].size - used, d)
    <3>1. PICK i \in DOMAIN slices, d \in Descriptors :
            /\ FirstFit(i) /\ slices[i].size > used /\ Fresh(d)
            /\ slices' = InsertAt([slices EXCEPT ![i] = Taken(@)], i + 1, x(i, d))
            /\ refs' = [refs EXCEPT ![slices[i].handle] = 1]
      BY <2>2 DEF ReserveSplit
    <3>2. slices[i] \in Slice /\ used \in Nat
      BY <1>2, <3>1, TakenFits DEF FirstFit
    <3> DEFINE offset == slices[i].offset + used
               size == slices[i].size - used
    <3>3. offset \in Nat /\ size \in Nat
      <4> HIDE DEF used
      <4> QED BY <3>1, <3>2, EndType
    <3>4. x(i, d) = NewSlice(offset, size, d)
      OBVIOUS
    <3> HIDE DEF offset, size, used
    <3>5. x(i, d) \in Slice /\ x(i, d).handle = d
      BY <3>3, <3>4, NewSliceType
    <3> HIDE DEF x
    <3> QED BY <1>2, <3>1, <3>5
  <2> QED BY <2>1, <2>2
<1> DEFINE taken == Taken(slices[i])
           s1 == [slices EXCEPT ![i] = taken]
<1>5. /\ slices[i] \in Slice /\ slices[i] \in Held /\ CanUse(slices[i], request)
      /\ ~(refs[slices[i].handle] > 0)
  BY <1>2, <1>4 DEF FirstFit, CanUse, IsFree
<1>6. taken \in Slice /\ taken.handle = slices[i].handle
  BY <1>5, TakenFits
<1> HIDE DEF taken
<1>7. /\ s1 \in Seq(Slice) /\ Len(s1) = n
      /\ \A k \in 1..n : s1[k] = IF k = i THEN taken ELSE slices[k]
  BY <1>2, <1>6, ExceptSeq
<1>8. \/ slices' = s1
      \/ \E x \in Slice : Fresh(x.handle) /\ slices' = InsertAt(s1, i + 1, x)
  BY <1>4 DEF taken
<1> HIDE DEF s1
\* Apart from a free remainder, the new page holds the old slices and taken.
<1>9. \E F \in SUBSET Slice :
        /\ \A x \in F : Fresh(x.handle)
        /\ Held' = {s1[k] : k \in 1..n} \cup F
  <2>1. CASE slices' = s1
    <3>1. Held' = {s1[k] : k \in 1..n}
      BY <1>3, <1>7, <2>1
    <3>2. Held' = {s1[k] : k \in 1..n} \cup {}
      BY <3>1
    <3>3. {} \in SUBSET Slice /\ \A x \in {} : Fresh(x.handle)
      OBVIOUS
    <3> QED BY <3>2, <3>3
  <2>2. ASSUME NEW x \in Slice, Fresh(x.handle), slices' = InsertAt(s1, i + 1, x)
        PROVE  Held' = {s1[k] : k \in 1..n} \cup {x}
    <3> DEFINE j == i + 1
    <3>1. s1 \in Seq(Slice) /\ j \in 1..(Len(s1) + 1) /\ i \in 1..n
      BY <1>2, <1>7
    <3>2. slices' = InsertAt(s1, j, x)
      BY <2>2
    <3> HIDE DEF j
    <3>3. /\ Len(slices') = n + 1
          /\ \A k \in 1..(n + 1) :
               slices'[k] = IF k < j THEN s1[k] ELSE IF k = j THEN x ELSE s1[k - 1]
      <4>1. /\ Len(InsertAt(s1, j, x)) = Len(s1) + 1
            /\ \A k \in 1..(Len(s1) + 1) :
                 InsertAt(s1, j, x)[k] = IF k < j THEN s1[k]
                                         ELSE IF k = j THEN x ELSE s1[k - 1]
        BY <3>1, InsertAtProperties, SMTT(30)
      <4> QED BY <1>7, <3>2, <4>1
    <3>4. j \in 1..(n + 1)
      BY <1>7, <3>1
    <3>5. ASSUME NEW k \in 1..(n + 1) PROVE slices'[k] \in {s1[l] : l \in 1..n} \cup {x}
      <4>1. k < j => k \in 1..n
        BY <1>2, <3>4
      <4>2. k > j => k - 1 \in 1..n
        BY <1>2, <3>4
      <4>3. k < j \/ k = j \/ k > j
        BY <1>2, <3>4
      <4>4. k > j => ~(k < j) /\ k # j
        BY <1>2, <3>4
      <4> QED BY <3>3, <4>1, <4>2, <4>3, <4>4
    <3>6. ASSUME NEW k \in 1..n PROVE \E l \in 1..(n + 1) : slices'[l] = s1[k]
      <4>1. CASE k < j
        <5>1. k \in 1..(n + 1)
          BY <1>2
        <5>2. slices'[k] = s1[k]
          BY <3>3, <4>1, <5>1
        <5> QED BY ONLY <5>1, <5>2
      <4>2. CASE ~(k < j)
        <5>1. k + 1 \in 1..(n + 1) /\ ~(k + 1 < j) /\ k + 1 # j /\ (k + 1) - 1 = k
          BY <1>2, <3>4, <4>2
        <5>2. slices'[k + 1] = s1[k]
          BY <3>3, <5>1
        <5> QED BY ONLY <5>1, <5>2
      <4> QED BY <4>1, <4>2
    <3>7. slices'[j] = x
      BY <1>2, <3>3, <3>4
    <3>8. Held' = {slices'[l] : l \in 1..(n + 1)}
      BY <1>3, <3>3
    <3> QED BY ONLY <3>4, <3>5, <3>6, <3>7, <3>8
  <2>3. CASE \E x \in Slice : Fresh(x.handle) /\ slices' = InsertAt(s1, i + 1, x)
    <3>1. PICK x \in Slice : Fresh(x.handle) /\ slices' = InsertAt(s1, i + 1, x)
      BY <2>3
    <3>2. {x} \in SUBSET Slice /\ \A y \in {x} : Fresh(y.handle)
      BY <3>1
    <3> QED BY <2>2, <3>1, <3>2
  <2> QED BY <1>8, <2>1, <2>3
<1>10. PICK F \in SUBSET Slice :
         /\ \A x \in F : Fresh(x.handle)
         /\ Held' = {s1[k] : k \in 1..n} \cup F
  BY <1>9
<1>11. \A k \in 1..n : k # i => slices[k].handle # slices[i].handle
  BY <1>1, PageInvOutsideLoop
<1>12. refs \in [Descriptors -> 0..MaxRefs] /\ slices[i].handle \in Descriptors
  BY <1>2, <1>5, EndType DEF TypeOK
<1>13. ASSUME NEW t \in Held', refs'[t.handle] > 0
       PROVE  t \in Live \cup {taken}
  <2>1. CASE t \in F
    <3>1. t.handle # slices[i].handle /\ refs[t.handle] = 0 /\ t.handle \in Descriptors
      BY <1>2, <1>5, <1>10, <2>1, EndType, OutsideLoop, <1>1 DEF Fresh, InPage
    <3>2. refs'[t.handle] = 0
      BY <1>4, <1>12, <3>1
    <3> QED BY <1>13, <3>2
  <2>2. CASE t \notin F
    <3>1. PICK k \in 1..n : t = s1[k]
      BY <1>10, <2>2
    <3>2. CASE k = i
      BY <1>7, <3>1, <3>2
    <3>3. CASE k # i
      <4>1. t = slices[k] /\ t \in Held /\ t.handle # slices[i].handle
        BY <1>2, <1>7, <1>11, <3>1, <3>3
      <4>2. t.handle \in Descriptors
        BY <1>2, <4>1, EndType
      <4>3. refs'[t.handle] = refs[t.handle]
        BY <1>4, <1>12, <4>1, <4>2
      <4> QED BY <1>13, <4>1, <4>3 DEF Live
    <3> QED BY <3>2, <3>3
  <2> QED BY <2>1, <2>2
<1>14. ASSUME NEW t \in Live PROVE t \in Held' /\ refs'[t.handle] > 0
  <2>1. PICK k \in 1..n : t = slices[k]
    BY <1>2 DEF Live
  <2>2. refs[t.handle] > 0 /\ k # i
    BY <1>5, <2>1 DEF Live
  <2>3. t = s1[k] /\ t.handle # slices[i].handle /\ t.handle \in Descriptors
    BY <1>2, <1>7, <1>11, <2>1, <2>2, EndType
  <2> QED BY <1>4, <1>10, <1>12, <2>2, <2>3
<1>15. taken \in Held' /\ refs'[taken.handle] > 0
  <2>1. taken = s1[i]
    BY <1>7
  <2>2. refs'[slices[i].handle] = 1
    BY <1>4, <1>12
  <2> QED BY <1>6, <1>10, <2>1, <2>2
<1>16. Live' = Live \cup {taken}
  BY <1>13, <1>14, <1>15 DEF Live
<1> QED BY <1>4, <1>5, <1>16 DEF taken

\* bind() changes the handle of one slice and nothing else.
LEMMA BindHeld ==
  ASSUME PageInv, NEW reserved \in Descriptors, NEW new \in Descriptors,
         Bind(reserved, new)
  PROVE  \E s \in Held :
           /\ s \in Slice /\ s.handle = reserved
           /\ Held' = (Held \ {s}) \cup {[s EXCEPT !.handle = new]}
<1> DEFINE n == Len(slices)
           i == location[reserved]
           x == [slices[i] EXCEPT !.handle = new]
<1>1. /\ pc = "idle" /\ pc' = "idle" /\ InPage(reserved)
      /\ slices' = [slices EXCEPT ![i] = x]
  BY DEF Bind
<1>2. /\ TypeOK /\ slices \in Seq(Slice) /\ n \in Nat
      /\ \A k \in 1..n : slices[k] \in Slice
      /\ Held = {slices[k] : k \in 1..n}
  BY <1>1, PageInvOutsideLoop, OutsideLoop
<1>3. i \in 1..n /\ slices[i].handle = reserved
  <2>1. PICK k \in 1..n : slices[k].handle = reserved
    BY <1>1, <1>2, OutsideLoop DEF InPage
  <2> QED BY <1>1, <2>1, PageInvOutsideLoop
<1>4. x \in Slice
  BY <1>2, <1>3 DEF Slice
<1>5. \A k \in 1..n : k # i => slices[k] # slices[i]
  BY <1>1, <1>3, PageInvOutsideLoop
<1> HIDE DEF i, x
<1>6. /\ slices' \in Seq(Slice) /\ Len(slices') = n
      /\ \A k \in 1..n : slices'[k] = IF k = i THEN x ELSE slices[k]
  BY <1>1, <1>2, <1>3, <1>4, ExceptSeq
<1>7. Held' = {slices'[k] : k \in 1..n}
  <2>1. DOMAIN slices' = 1..n
    BY <1>6, LenProperties
  <2> QED BY <1>1, <2>1 DEF Held, Rest, Moved
<1>8. Held' = (Held \ {slices[i]}) \cup {x}
  BY <1>2, <1>3, <1>5, <1>6, <1>7
<1> QED BY <1>2, <1>3, <1>8 DEF x

\* The other steps leave every slice as it is.
LEMMA HeldUnchanged ==
  ASSUME PageInv,
         \/ \E d \in Descriptors : User(d)
         \/ \E size \in Sizes : StartReserve(size)
         \/ ReserveNone
  PROVE  Held' = Held
<1>1. CASE \E d \in Descriptors : User(d)
  <2>1. UNCHANGED <<slices, slicesTmp, pc, index>>
    BY <1>1 DEF User, NewHandle, Clone, Release, callVars
  <2> QED BY <2>1 DEF Held, Rest, Moved
<1>2. CASE \E size \in Sizes : StartReserve(size)
  <2>1. /\ slices' = slices /\ slicesTmp' = <<>> /\ index' = 1
        /\ pc # "coalesce"
    BY <1>2 DEF StartReserve
  <2>2. DOMAIN slices = 1..Len(slices) /\ DOMAIN slicesTmp' = {}
    <3>1. TypeOK
      BY DEF PageInv
    <3> QED BY <2>1, <3>1, SliceTypes
  <2>3. Rest = 1..Len(slices) /\ Moved = {} /\ Rest' = 1..Len(slices) /\ Moved' = {}
    BY <2>1, <2>2 DEF Rest, Moved
  <2> QED BY <2>1, <2>3 DEF Held
<1>3. CASE ReserveNone
  <2>1. /\ pc # "coalesce" /\ pc' # "coalesce"
        /\ UNCHANGED <<slices, slicesTmp>>
    BY <1>3 DEF ReserveNone, callVars
  <2> QED BY <2>1 DEF Held, Rest, Moved
<1> QED BY <1>1, <1>2, <1>3

\* A region in use neither moves nor shrinks (RegionStable): for every page
\* size, alignment and sequence of calls, a tensor keeps its bytes until its
\* last reference is dropped, also while coalesce() rebuilds the slices.
THEOREM PageRegionStable == Spec => RegionStable
<1> DEFINE Stable == \A s \in Held :
             refs[s.handle] > 0 /\ refs'[s.handle] > 0 => s \in Held'
<1>1. PageInv /\ [Next]_vars => [Stable]_vars
  <2> SUFFICES ASSUME PageInv, Next PROVE Stable
    OBVIOUS
  <2> SUFFICES ASSUME NEW s \in Held, refs[s.handle] > 0, refs'[s.handle] > 0
               PROVE  s \in Held'
    OBVIOUS
  <2>1. CASE \/ \E d \in Descriptors : User(d)
             \/ \E size \in Sizes : StartReserve(size)
             \/ ReserveNone
    BY <2>1, HeldUnchanged
  <2>2. CASE Coalesce
    BY <2>2, CoalesceLive DEF Live
  <2>3. CASE ReserveWhole \/ ReserveSplit
    BY <2>3, ReserveLive DEF Live
  <2>4. ASSUME NEW reserved \in Descriptors, NEW new \in Descriptors,
               Bind(reserved, new)
        PROVE  s \in Held'
    <3>1. s.handle # reserved
      <4>1. refs'[reserved] = 0
        BY <2>4 DEF Bind, PageInv, TypeOK
      <4> QED BY <4>1
    <3> QED BY <2>4, <3>1, BindHeld
  <2> QED BY <2>1, <2>2, <2>3, <2>4 DEF Next, TryReserve
<1> QED BY <1>1, PageInvariance, PTL DEF Spec, RegionStable

(***************************************************************************)
(* Alignment.                                                              *)
(***************************************************************************)
IsAligned(n) == n % Alignment = 0

LEMMA AlignedSum ==
  ASSUME NEW m \in Nat, NEW n \in Nat, IsAligned(m), IsAligned(n)
  PROVE  IsAligned(m + n)
<1>1. Alignment \in Nat \ {0}
  BY PageAssumption
<1>2. PICK p \in Nat : m = Alignment * p
  <2>1. PICK p \in Nat : p = m \div Alignment
    BY <1>1, DivMod
  <2>2. m = Alignment * p + 0 /\ Alignment * p + 0 = Alignment * p
    BY <1>1, <2>1, DivMod DEF IsAligned
  <2> QED BY <2>2
<1>3. PICK q \in Nat : n = Alignment * q
  <2>1. PICK q \in Nat : q = n \div Alignment
    BY <1>1, DivMod
  <2>2. n = Alignment * q + 0 /\ Alignment * q + 0 = Alignment * q
    BY <1>1, <2>1, DivMod DEF IsAligned
  <2> QED BY <2>2
<1>4. m + n = Alignment * (p + q)
  BY <1>1, <1>2, <1>3
<1>5. (Alignment * (p + q)) % Alignment = 0
  BY <1>1
<1> QED BY <1>4, <1>5 DEF IsAligned

\* Slices start at aligned offsets in both vectors, and so does a run that is
\* being merged.
Aligned ==
  /\ \A i \in 1..Len(slices) : IsAligned(slices[i].offset)
  /\ \A k \in 1..Len(slicesTmp) : IsAligned(slicesTmp[k].offset)
  /\ IsAligned(merge.offset)

\* What try_reserve() leaves starts where a slice started, or after the padded
\* request at the start of one.
LEMMA ReserveOffsets ==
  ASSUME PageInv, ReserveWhole \/ ReserveSplit, NEW k \in 1..Len(slices')
  PROVE  \E i \in 1..Len(slices) :
           \/ slices'[k].offset = slices[i].offset
           \/ slices'[k].offset = slices[i].offset + (request + CalculatePadding(request))
<1> DEFINE used == request + CalculatePadding(request)
           n == Len(slices)
<1>1. /\ slices \in Seq(Slice) /\ n \in Nat /\ DOMAIN slices = 1..n
      /\ \A i \in 1..n : slices[i] \in Slice
  BY SliceTypes DEF PageInv, TypeOK
<1>2. CASE ReserveWhole
  <2>1. PICK i \in 1..n : /\ FirstFit(i)
                          /\ slices' = [slices EXCEPT ![i] = Taken(@)]
    BY <1>1, <1>2 DEF ReserveWhole
  <2>2. Taken(slices[i]) \in Slice /\ Taken(slices[i]).offset = slices[i].offset
    BY <1>1, <2>1, TakenFits DEF FirstFit
  <2>3. k \in 1..n /\ slices'[k] = IF k = i THEN Taken(slices[i]) ELSE slices[k]
    BY <1>1, <2>1, <2>2, ExceptSeq
  <2> QED BY <2>2, <2>3
<1>3. CASE ReserveSplit
  <2> DEFINE rest(i, d) == NewSlice(slices[i].offset + used, slices[i].size - used, d)
  <2>1. PICK i \in 1..n, d \in Descriptors :
          /\ FirstFit(i) /\ slices[i].size > used
          /\ slices' = InsertAt([slices EXCEPT ![i] = Taken(@)], i + 1, rest(i, d))
    BY <1>1, <1>3 DEF ReserveSplit
  <2>2. /\ Taken(slices[i]) \in Slice /\ Taken(slices[i]).offset = slices[i].offset
        /\ used \in Nat
    BY <1>1, <2>1, TakenFits DEF FirstFit
  <2> DEFINE s1 == [slices EXCEPT ![i] = Taken(@)]
             x == rest(i, d)
             offset == slices[i].offset + used
             size == slices[i].size - used
             j == i + 1
  <2>3. /\ s1 \in Seq(Slice) /\ Len(s1) = n
        /\ \A m \in 1..n : s1[m] = IF m = i THEN Taken(slices[i]) ELSE slices[m]
    BY <1>1, <2>2, ExceptSeq
  <2>4. \A m \in 1..n : s1[m].offset = slices[m].offset
    BY <2>2, <2>3
  <2>5. offset \in Nat /\ size \in Nat /\ x = NewSlice(offset, size, d)
    <3>1. slices[i].offset \in Nat /\ slices[i].size \in Nat /\ slices[i].size > used
      BY <1>1, <2>1, EndType
    <3> HIDE DEF used
    <3> QED BY <2>2, <3>1
  <2>6. x \in Slice /\ x.offset = slices[i].offset + used
    <3>1. offset = slices[i].offset + used /\ d \in Descriptors
      OBVIOUS
    <3> HIDE DEF offset, size, x, used
    <3>2. NewSlice(offset, size, d) \in Slice /\ NewSlice(offset, size, d).offset = offset
      BY <2>5, <3>1, NewSliceType
    <3> QED BY <2>5, <3>1, <3>2
  <2>7. j \in 1..(Len(s1) + 1) /\ slices' = InsertAt(s1, j, x)
    BY <1>1, <2>1, <2>3
  <2> HIDE DEF s1, x, j
  <2>8. /\ Len(slices') = n + 1
        /\ slices'[k] = IF k < j THEN s1[k] ELSE IF k = j THEN x ELSE s1[k - 1]
    <3>1. /\ Len(InsertAt(s1, j, x)) = Len(s1) + 1
          /\ \A m \in 1..(Len(s1) + 1) :
               InsertAt(s1, j, x)[m] = IF m < j THEN s1[m]
                                       ELSE IF m = j THEN x ELSE s1[m - 1]
      <4>1. s1 \in Seq(Slice) /\ j \in 1..(Len(s1) + 1) /\ x \in Slice
        BY <2>3, <2>6, <2>7
      <4>2. Len(InsertAt(s1, j, x)) = Len(s1) + 1
        BY ONLY <4>1, InsertAtProperties
      <4>3. \A m \in 1..(Len(s1) + 1) :
              InsertAt(s1, j, x)[m] = IF m < j THEN s1[m]
                                      ELSE IF m = j THEN x ELSE s1[m - 1]
        BY ONLY <4>1, InsertAtProperties
      <4> QED BY <4>2, <4>3
    <3>2. Len(slices') = n + 1
      BY <2>3, <2>7, <3>1
    <3>3. k \in 1..(Len(s1) + 1)
      BY <2>3, <3>2
    <3> QED BY <2>7, <3>1, <3>2, <3>3
  <2>9. CASE k = j
    BY <2>6, <2>8, <2>9
  <2>10. CASE k # j
    <3>1. PICK m \in 1..n : slices'[k] = s1[m]
      <4>1. k < j => k \in 1..n
        BY <1>1, <2>3, <2>7, <2>8
      <4>2. ~(k < j) => k - 1 \in 1..n
        BY <1>1, <2>3, <2>7, <2>8, <2>10
      <4> QED BY <2>8, <2>10, <4>1, <4>2
    <3> QED BY <2>4, <3>1
  <2> QED BY <2>9, <2>10
<1> QED BY <1>2, <1>3

LEMMA NextAligned ==
  ASSUME PageInv, Aligned, [Next]_vars
  PROVE  Aligned'
<1>1. /\ TypeOK /\ slices \in Seq(Slice) /\ slicesTmp \in Seq(Slice)
      /\ Len(slices) \in Nat /\ DOMAIN slices = 1..Len(slices)
      /\ Len(slicesTmp) \in Nat
      /\ \A i \in 1..Len(slices) : slices[i] \in Slice
      /\ merge \in [offset: Nat, size: Nat]
  BY SliceTypes DEF PageInv, TypeOK
<1>2. CASE UNCHANGED <<slices, slicesTmp, merge>>
  BY <1>2 DEF Aligned
<1>3. ASSUME NEW size \in Sizes, StartReserve(size) PROVE Aligned'
  <2>1. slices' = slices /\ merge' = merge /\ slicesTmp' = <<>>
    BY <1>3 DEF StartReserve
  <2>2. Len(slicesTmp') = 0
    BY <2>1
  <2> QED BY <2>1, <2>2 DEF Aligned
<1>4. CASE StartMerging \/ Merging
  <2>1. Looping /\ slices' = slices /\ slicesTmp' = slicesTmp
    BY <1>4 DEF StartMerging, Merging
  <2>2. index \in 1..Len(slices)
    BY <1>1, <2>1 DEF Looping
  <2>3. merge'.offset \in {merge.offset, slices[index].offset}
    <3>1. CASE StartMerging
      BY <3>1 DEF StartMerging
    <3>2. CASE Merging
      BY <1>1, <3>2 DEF Merging
    <3> QED BY <1>4, <3>1, <3>2
  <2> QED BY <2>1, <2>2, <2>3 DEF Aligned
<1>5. ASSUME NEW x \in Slice, IsAligned(x.offset), IsAligned(merge'.offset),
             slices' = slices, slicesTmp' = Append(slicesTmp, x)
      PROVE  Aligned'
  <2>1. /\ Len(slicesTmp') = Len(slicesTmp) + 1
        /\ \A k \in 1..Len(slicesTmp) : slicesTmp'[k] = slicesTmp[k]
        /\ slicesTmp'[Len(slicesTmp) + 1] = x
    BY <1>1, <1>5, AppendProperties
  <2>2. \A k \in 1..Len(slicesTmp') : k \in 1..Len(slicesTmp) \/ k = Len(slicesTmp) + 1
    BY <1>1, <2>1
  <2> QED BY <1>5, <2>1, <2>2 DEF Aligned
<1>6. CASE Completed
  <2>1. Looping /\ slices' = slices /\ merge' = NoMerge
    BY <1>6 DEF Completed
  <2>2. EffectiveSize(slices[index]) \in Nat
    BY <2>1, LoopFacts, EndType
  <2>3. PICK d \in Descriptors :
          slicesTmp' = Append(slicesTmp,
            NewSlice(merge.offset, merge.size + EffectiveSize(slices[index]), d))
    BY <1>6 DEF Completed
  <2>4. PICK size \in Nat : size = merge.size + EffectiveSize(slices[index])
    BY <1>1, <2>2
  <2>5. NewSlice(merge.offset, size, d) \in Slice
        /\ NewSlice(merge.offset, size, d).offset = merge.offset
    BY <1>1, NewSliceType
  <2>6. IsAligned(merge'.offset)
    <3>1. 0 % Alignment = 0
      BY PageAssumption
    <3> QED BY <2>1, <3>1 DEF NoMerge, IsAligned
  <2> QED BY <1>5, <2>1, <2>3, <2>4, <2>5, <2>6 DEF Aligned
<1>7. CASE Ignoring
  <2>1. Looping /\ slices' = slices /\ merge' = merge
        /\ slicesTmp' = Append(slicesTmp, slices[index])
    BY <1>7 DEF Ignoring
  <2>2. index \in 1..Len(slices)
    BY <1>1, <2>1 DEF Looping
  <2> QED BY <1>1, <1>5, <2>1, <2>2 DEF Aligned
<1>8. CASE FinishCoalesce
  <2>1. slices' = slicesTmp /\ slicesTmp' = <<>> /\ merge' = merge
    BY <1>8 DEF FinishCoalesce
  <2>2. Len(slicesTmp') = 0
    BY <2>1
  <2> QED BY <2>1, <2>2 DEF Aligned
<1>9. CASE ReserveWhole \/ ReserveSplit
  <2>1. slicesTmp' = slicesTmp /\ merge' = merge
    BY <1>9 DEF ReserveWhole, ReserveSplit, callVars
  <2>2. PICK used \in Nat : used = request + CalculatePadding(request)
    BY <1>1, PaddingType DEF TypeOK
  <2>3. IsAligned(used)
    BY <1>1, <2>2, PaddedAligned, PageAssumption DEF IsAligned, TypeOK, CalculatePadding
  <2>4. ASSUME NEW k \in 1..Len(slices') PROVE IsAligned(slices'[k].offset)
    <3>1. PICK i \in 1..Len(slices) : \/ slices'[k].offset = slices[i].offset
                                      \/ slices'[k].offset = slices[i].offset + used
      BY <1>9, <2>2, ReserveOffsets
    <3>2. slices[i].offset \in Nat /\ IsAligned(slices[i].offset)
      BY <1>1, EndType DEF Aligned
    <3> QED BY <2>3, <3>1, <3>2, AlignedSum
  <2> QED BY <2>1, <2>4 DEF Aligned
<1>10. ASSUME NEW reserved \in Descriptors, NEW new \in Descriptors,
              Bind(reserved, new)
       PROVE  Aligned'
  <2>1. /\ slicesTmp' = slicesTmp /\ merge' = merge
        /\ slices' = [slices EXCEPT ![location[reserved]].handle = new]
    BY <1>10 DEF Bind, callVars
  <2>2. Len(slices') = Len(slices)
        /\ \A k \in 1..Len(slices) : slices'[k].offset = slices[k].offset
    BY <1>1, <2>1, LenProperties DEF Slice
  <2> QED BY <2>1, <2>2 DEF Aligned
<1>11. CASE ReserveNone \/ UNCHANGED vars \/ \E d \in Descriptors : User(d)
  BY <1>2, <1>11 DEF ReserveNone, User, NewHandle, Clone, Release, callVars, vars
<1> QED BY <1>3, <1>4, <1>6, <1>7, <1>8, <1>9, <1>10, <1>11
        DEF Next, Coalesce, TryReserve

\* A tensor starts at an aligned offset (AlignedOffsets), whatever sizes were
\* asked for and however the page was split and merged.
THEOREM PageAligned == Spec => []AlignedOffsets
<1>1. Init => Aligned
  <2> SUFFICES ASSUME Init PROVE Aligned
    OBVIOUS
  <2>1. PICK d \in Descriptors : slices = <<NewSlice(0, PageSize, d)>>
    BY DEF Init
  <2>2. Len(slices) = 1 /\ slices[1] = NewSlice(0, PageSize, d)
    BY <2>1
  <2>3. Len(slicesTmp) = 0 /\ merge.offset = 0
    BY DEF Init, NoMerge
  <2>4. 0 % Alignment = 0
    BY PageAssumption
  <2> QED BY <2>2, <2>3, <2>4 DEF Aligned, IsAligned, NewSlice
<1>2. PageInv /\ Aligned => AlignedOffsets
  <2> SUFFICES ASSUME PageInv, Aligned, NEW s \in Held
               PROVE  s.offset % Alignment = 0
    BY DEF AlignedOffsets
  <2>1. /\ Rest \subseteq 1..Len(slices) /\ Moved \subseteq 1..Len(slicesTmp)
    BY SliceTypes DEF PageInv
  <2> QED BY <2>1 DEF Aligned, IsAligned, Held
<1>3. PageInv /\ Aligned /\ [Next]_vars => Aligned'
  BY NextAligned
<1> QED BY <1>1, <1>2, <1>3, PageInvariance, PTL DEF Spec

(***************************************************************************)
(* Bytes.                                                                  *)
(***************************************************************************)
LEMMA BytesForms ==
  ASSUME NEW list \in Seq(Slice)
  PROVE  /\ \A n \in 0..Len(list) : Bytes(list, n) \in Nat
         /\ Bytes(list, 0) = 0
         /\ \A n \in 1..Len(list) :
              Bytes(list, n) = Bytes(list, n - 1) + EffectiveSize(list[n])
<1> DEFINE w == [i \in DOMAIN list |-> EffectiveSize(list[i])]
<1>1. /\ Len(list) \in Nat /\ DOMAIN list = 1..Len(list)
      /\ \A i \in 1..Len(list) : EffectiveSize(list[i]) \in Nat
  BY LenProperties, ElementOfSeq, EndType
<1>2. w \in [1..Len(list) -> Nat]
  BY <1>1
<1>3. w \in Seq(Nat) /\ Len(w) = Len(list)
  <2> HIDE DEF w
  <2> QED BY <1>1, <1>2, SeqDef, LenProperties
<1>4. \A i \in 1..Len(list) : w[i] = EffectiveSize(list[i])
  BY <1>1
<1>5. \A n : Bytes(list, n) = Total(w)[n]
  BY DEF Bytes
<1> HIDE DEF w
<1> QED BY <1>1, <1>3, <1>4, <1>5, TotalForms, SMTT(30)

\* A slice at the end of a vector adds its bytes.
LEMMA BytesAppend ==
  ASSUME NEW list \in Seq(Slice), NEW x \in Slice
  PROVE  Bytes(Append(list, x), Len(list) + 1) = Bytes(list, Len(list)) + EffectiveSize(x)
<1> DEFINE l == Append(list, x)
           m == Len(list)
           S == {n \in 0..m : Bytes(l, n) = Bytes(list, n)}
<1>1. /\ l \in Seq(Slice) /\ m \in Nat /\ Len(l) = m + 1
      /\ \A i \in 1..m : l[i] = list[i]
      /\ l[m + 1] = x
  BY AppendProperties, LenProperties
<1> HIDE DEF l
<1>2. 0 \in S
  BY <1>1, BytesForms
<1>3. ASSUME NEW n \in 0..m - 1, n \in S PROVE n + 1 \in S
  <2>1. n + 1 \in 1..m /\ n + 1 \in 1..Len(l) /\ (n + 1) - 1 = n
    BY <1>1
  <2>2. /\ Bytes(l, n + 1) = Bytes(l, n) + EffectiveSize(l[n + 1])
        /\ Bytes(list, n + 1) = Bytes(list, n) + EffectiveSize(list[n + 1])
    BY <1>1, <2>1, BytesForms
  <2> QED BY <1>1, <1>3, <2>1, <2>2
<1>4. \A n \in 0..m : n \in S
  <2>1. \A n \in 0..m - 1 : n \in S => n + 1 \in S
    BY <1>3
  <2> HIDE DEF S
  <2> QED BY <1>1, <1>2, <2>1, Climb
<1>5. m + 1 \in 1..Len(l) /\ (m + 1) - 1 = m /\ m \in 0..m
  BY <1>1
<1>6. Bytes(l, m + 1) = Bytes(l, m) + EffectiveSize(l[m + 1])
  BY <1>1, <1>5, BytesForms
<1> QED BY <1>1, <1>4, <1>5, <1>6 DEF l

\* The turns of the loop: the next slice is drained, and what is moved or
\* merged grows by it.
LEMMA LoopKeepsBytes ==
  ASSUME PageInv, CoalesceKeepsBytes, StartMerging \/ Merging \/ Completed \/ Ignoring
  PROVE  CoalesceKeepsBytes'
<1> DEFINE eff == EffectiveSize(slices[index])
           moved == Bytes(slicesTmp, Len(slicesTmp))
<1>1. Looping
  BY DEF StartMerging, Merging, Completed, Ignoring
<1>2. /\ pc = "coalesce" /\ TypeOK /\ index \in 1..Len(slices) /\ Len(slices) \in Nat
      /\ slices \in Seq(Slice) /\ slicesTmp \in Seq(Slice) /\ slices[index] \in Slice
      /\ merge.size \in Nat /\ job \subseteq Nat \X Nat
      /\ Len(slicesTmp) \in Nat
  BY <1>1, LoopFacts, SliceTypes DEF TypeOK
<1>3. /\ index' = index + 1 /\ slices' = slices /\ job' = job /\ pc' = pc
  BY DEF StartMerging, Merging, Completed, Ignoring
<1>4. /\ eff \in Nat /\ moved \in Nat /\ Bytes(slices, index - 1) \in Nat
      /\ Bytes(slices', index' - 1) = Bytes(slices, index - 1) + eff
  <2>1. eff \in Nat
    BY <1>2, EndType
  <2>2. index - 1 \in 0..Len(slices) /\ Len(slicesTmp) \in 0..Len(slicesTmp)
        /\ index' - 1 = index
    BY <1>2, <1>3
  <2>3. Bytes(slices, index) = Bytes(slices, index - 1) + eff
    BY <1>2, BytesForms
  <2> QED BY <1>2, <1>3, <2>1, <2>2, <2>3, BytesForms
<1>5. moved + (IF InRun THEN merge.size ELSE 0) = Bytes(slices, index - 1)
  BY <1>2 DEF CoalesceKeepsBytes
<1>6. /\ \A r \in job : r[1] \in Nat /\ r[2] \in Nat /\ r[1] < r[2]
      /\ \A r, s \in job : r = s \/ r[2] < s[1] \/ s[2] < r[1]
  BY <1>2 DEF PageInv, JobFree
<1>7. InRun' <=> \E r \in job : r[1] < index + 1 /\ index + 1 <= r[2]
  BY <1>3 DEF InRun
<1> HIDE DEF eff, moved
<1>8. CASE StartMerging
  <2>1. slicesTmp' = slicesTmp /\ merge'.size = eff
    BY <1>8 DEF StartMerging, eff
  <2>2. PICK r \in job : index = r[1]
    BY <1>8 DEF StartMerging
  <2>3. InRun'
    BY <1>2, <1>6, <1>7, <2>2
  <2>4. ~InRun
    BY <1>2, <1>6, <2>2 DEF InRun
  <2>5. Bytes(slicesTmp', Len(slicesTmp')) = moved
    BY <2>1 DEF moved
  <2> QED BY <1>4, <1>5, <2>1, <2>3, <2>4, <2>5 DEF CoalesceKeepsBytes
<1>9. CASE Merging
  <2>1. slicesTmp' = slicesTmp /\ merge'.size = merge.size + eff
    BY <1>2, <1>9 DEF Merging, eff, TypeOK
  <2>2. InRun /\ InRun'
    BY <1>2, <1>6, <1>7, <1>9 DEF Merging, InRun
  <2>3. Bytes(slicesTmp', Len(slicesTmp')) = moved
    BY <2>1 DEF moved
  <2> QED BY <1>2, <1>4, <1>5, <2>1, <2>2, <2>3 DEF CoalesceKeepsBytes
<1>10. ASSUME NEW x \in Slice, slicesTmp' = Append(slicesTmp, x), ~InRun',
              EffectiveSize(x) = (IF InRun THEN merge.size ELSE 0) + eff
       PROVE  CoalesceKeepsBytes'
  <2>1. Len(slicesTmp') = Len(slicesTmp) + 1
    BY <1>2, <1>10, AppendProperties
  <2>2. Bytes(slicesTmp', Len(slicesTmp')) = moved + EffectiveSize(x)
    BY <1>2, <1>10, <2>1, BytesAppend DEF moved
  <2>3. Bytes(slicesTmp', Len(slicesTmp')) + 0 = Bytes(slices', index' - 1)
    BY <1>2, <1>4, <1>5, <1>10, <2>2
  <2> QED BY <1>10, <2>3 DEF CoalesceKeepsBytes
<1>11. CASE Completed
  <2>1. PICK r \in job : index = r[2]
    BY <1>11 DEF Completed
  <2>2. InRun
    BY <1>2, <1>6, <2>1 DEF InRun
  <2>3. ~InRun'
    BY <1>2, <1>6, <1>7, <2>1
  <2>4. PICK d \in Descriptors :
          slicesTmp' = Append(slicesTmp, NewSlice(merge.offset, merge.size + eff, d))
    BY <1>11 DEF Completed, eff
  <2>5. PICK size \in Nat : size = merge.size + eff
    BY <1>2, <1>4
  <2>6. /\ NewSlice(merge.offset, size, d) \in Slice
        /\ EffectiveSize(NewSlice(merge.offset, size, d)) = size
    BY <1>2 DEF NewSlice, Slice, EffectiveSize, TypeOK
  <2> QED BY <1>10, <2>2, <2>3, <2>4, <2>5, <2>6
<1>12. CASE Ignoring
  <2>1. slicesTmp' = Append(slicesTmp, slices[index])
    BY <1>12 DEF Ignoring
  <2>2. ~InRun
    BY <1>2, <1>6, <1>12 DEF Ignoring, InRun
  <2>3. ~InRun'
    BY <1>2, <1>6, <1>7, <1>12 DEF Ignoring
  <2>4. EffectiveSize(slices[index]) = 0 + eff
    BY <1>4 DEF eff
  <2> QED BY <1>2, <1>10, <2>1, <2>2, <2>3, <2>4
<1> QED BY <1>8, <1>9, <1>11, <1>12

\* coalesce() loses no byte (CoalesceKeepsBytes): the slices it builds and the
\* run it is merging stand for exactly what it has taken off the page.
THEOREM PageKeepsBytes == Spec => []CoalesceKeepsBytes
<1>1. Init => CoalesceKeepsBytes
  BY DEF Init, CoalesceKeepsBytes
<1>2. PageInv /\ CoalesceKeepsBytes /\ [Next]_vars => CoalesceKeepsBytes'
  <2> SUFFICES ASSUME PageInv, CoalesceKeepsBytes, [Next]_vars, pc' = "coalesce"
               PROVE  CoalesceKeepsBytes'
    BY DEF CoalesceKeepsBytes
  <2>1. CASE UNCHANGED <<slices, slicesTmp, pc, job, index, merge>>
    BY <2>1 DEF CoalesceKeepsBytes, InRun
  <2>2. CASE UNCHANGED vars \/ \E d \in Descriptors : User(d)
    BY <2>1, <2>2 DEF User, NewHandle, Clone, Release, callVars, vars
  <2>3. ASSUME NEW size \in Sizes, StartReserve(size) PROVE CoalesceKeepsBytes'
    <3>1. /\ slices' = slices /\ slicesTmp' = <<>> /\ job' = MemoryJob /\ index' = 1
          /\ slices \in Seq(Slice)
      BY <2>3 DEF StartReserve, PageInv, TypeOK
    <3>2. ~InRun'
      <4>1. \A r \in MemoryJob : ~(r[1] < 1)
        BY MemoryJobRuns DEF PageInv
      <4> QED BY <3>1, <4>1 DEF InRun
    <3>3. <<>> \in Seq(Slice) /\ Len(<<>>) = 0
      BY EmptySeq
    <3>4. Bytes(<<>>, 0) = 0 /\ Bytes(slices, 0) = 0
      BY <3>1, <3>3, BytesForms
    <3> QED BY <3>1, <3>2, <3>3, <3>4 DEF CoalesceKeepsBytes
  <2>4. CASE StartMerging \/ Merging \/ Completed \/ Ignoring
    BY <2>4, LoopKeepsBytes
  <2>5. pc' # "coalesce" \/ ~(FinishCoalesce \/ TryReserve)
    BY DEF FinishCoalesce, TryReserve, ReserveWhole, ReserveSplit, ReserveNone
  <2>6. ASSUME NEW reserved \in Descriptors, NEW new \in Descriptors,
               Bind(reserved, new)
        PROVE  FALSE
    BY <2>6 DEF Bind
  <2> QED BY <2>2, <2>3, <2>4, <2>5, <2>6 DEF Next, Coalesce
<1> QED BY <1>1, <1>2, PageInvariance, PTL DEF Spec

-----------------------------------------------------------------------------
(***************************************************************************)
(* A memory page implements RegionAllocator: every step of the page is an  *)
(* allocation, a release or a hand-over of one region, or changes no       *)
(* region at all.                                                          *)
(***************************************************************************)

RegionOf(s) ==
  [handle |-> s.handle, offset |-> s.offset, size |-> EffectiveSize(s)]

\* What PageInv says of the slices of the page as a set.
HeldDisjoint ==
  /\ \A s \in Held : s \in Slice /\ End(s) <= PageSize /\ InPage(s.handle)
  /\ \A s, t \in Held :
       s = t \/ (s.handle # t.handle
                 /\ (End(s) <= t.offset \/ End(t) <= s.offset))

LEMMA PageInvHeldDisjoint == PageInv => HeldDisjoint
<1> SUFFICES ASSUME PageInv PROVE HeldDisjoint
  OBVIOUS
<1>1. /\ TypeOK /\ NoOverlap /\ DistinctHandles
      /\ Len(slices) \in Nat /\ Len(slicesTmp) \in Nat
      /\ Rest \subseteq 1..Len(slices) /\ Moved \subseteq 1..Len(slicesTmp)
      /\ \A i \in Rest : slices[i] \in Slice
      /\ \A k \in Moved : slicesTmp[k] \in Slice
  BY SliceTypes DEF PageInv
<1>2. ASSUME NEW s \in Held
      PROVE  s \in Slice /\ End(s) <= PageSize /\ InPage(s.handle)
  BY <1>1, <1>2 DEF Held, NoOverlap, InPage
<1>3. ASSUME NEW s \in Held, NEW t \in Held, s # t
      PROVE  s.handle # t.handle /\ (End(s) <= t.offset \/ End(t) <= s.offset)
  <2>1. CASE \E i, j \in Rest : s = slices[i] /\ t = slices[j]
    <3>1. PICK i \in Rest, j \in Rest : s = slices[i] /\ t = slices[j]
      BY <2>1
    <3>2. i \in Nat /\ j \in Nat /\ i # j
      BY <1>1, <1>3, <3>1
    <3>3. i < j \/ j < i
      BY <3>2
    <3> QED BY <1>1, <3>1, <3>2, <3>3 DEF NoOverlap, DistinctHandles
  <2>2. CASE \E k, l \in Moved : s = slicesTmp[k] /\ t = slicesTmp[l]
    <3>1. PICK k \in Moved, l \in Moved : s = slicesTmp[k] /\ t = slicesTmp[l]
      BY <2>2
    <3>2. k \in Nat /\ l \in Nat /\ k # l
      BY <1>1, <1>3, <3>1
    <3>3. k < l \/ l < k
      BY <3>2
    <3> QED BY <1>1, <3>1, <3>2, <3>3 DEF NoOverlap, DistinctHandles
  <2>3. CASE \E k \in Moved, i \in Rest :
               \/ s = slicesTmp[k] /\ t = slices[i]
               \/ t = slicesTmp[k] /\ s = slices[i]
    BY <1>1, <2>3 DEF NoOverlap, DistinctHandles
  <2> QED BY <1>3, <2>1, <2>2, <2>3 DEF Held
<1> QED BY <1>2, <1>3 DEF HeldDisjoint

LEMMA HeldDisjointAfter == PageInv' => HeldDisjoint'
BY PageInvHeldDisjoint, PTL

LEMMA OwnedOfLive == Owned = {RegionOf(s) : s \in Live}
BY DEF Owned, Live, RegionOf

LEMMA RegionOfFields ==
  ASSUME NEW s \in Slice
  PROVE  /\ RegionOf(s).handle = s.handle /\ RegionOf(s).offset = s.offset
         /\ RegionOf(s).size = EffectiveSize(s)
         /\ RegionOf(s).offset + RegionOf(s).size = End(s)
         /\ s.offset \in Nat /\ EffectiveSize(s) \in Nat
         /\ End(s) = s.offset + EffectiveSize(s)
         /\ s.handle \in Descriptors
<1>1. /\ RegionOf(s).handle = s.handle /\ RegionOf(s).offset = s.offset
      /\ RegionOf(s).size = EffectiveSize(s)
  BY DEF RegionOf
<1> QED BY <1>1, EndType

LEMMA LiveStutters == ASSUME Live' = Live PROVE Owned' = Owned
<1>1. Owned' = {RegionOf(s) : s \in Live'}
  BY DEF Owned, Live, RegionOf, EffectiveSize
<1> QED BY <1>1, OwnedOfLive

\* A reserve is an allocation: the region is inside the buffer and meets none
\* of those in use, because it is a slice of the new page like them.
LEMMA ReserveAllocates ==
  ASSUME PageInv, PageInv', ReserveWhole \/ ReserveSplit
  PROVE  Allocator!Next
<1>1. PICK s \in Held :
        /\ s \in Slice /\ ~(refs[s.handle] > 0) /\ CanUse(s, request)
        /\ Live' = Live \cup {Taken(s)}
        /\ refs' = [refs EXCEPT ![s.handle] = 1]
  BY ReserveLive
<1> DEFINE t == Taken(s)
<1>2. t \in Slice /\ t.handle = s.handle
  BY <1>1, TakenFits
<1> HIDE DEF t
<1>3. Live' = Live \cup {t}
  BY <1>1 DEF t
<1>4. HeldDisjoint /\ HeldDisjoint' /\ Live' \subseteq Held' /\ Live \subseteq Held
  BY PageInvHeldDisjoint, HeldDisjointAfter DEF Live
<1>5. Owned' = Owned \cup {RegionOf(t)}
  <2>1. Owned' = {RegionOf(u) : u \in Live'}
    BY DEF Owned, Live, RegionOf, EffectiveSize
  <2> QED BY <1>3, <2>1, OwnedOfLive
<1>6. End(t) <= PageSize
  BY <1>3, <1>4 DEF HeldDisjoint, End, EffectiveSize
<1>7. RegionOf(t) \in Allocator!Region
  <2>1. /\ t.offset \in Nat /\ EffectiveSize(t) \in Nat /\ PageSize \in Nat
        /\ t.offset + EffectiveSize(t) <= PageSize /\ t.handle \in Descriptors
    BY <1>2, <1>6, RegionOfFields, PageAssumption
  <2>2. t.offset \in 0..PageSize /\ EffectiveSize(t) \in 0..PageSize
    BY <2>1
  <2> QED BY <2>1, <2>2 DEF Allocator!Region, RegionOf
<1>8. ASSUME NEW r \in Owned
      PROVE  r.handle # RegionOf(t).handle /\ Allocator!Disjoint(r, RegionOf(t))
  <2>1. PICK u \in Live : r = RegionOf(u)
    BY OwnedOfLive
  <2>2. u \in Slice /\ u.handle # t.handle
    BY <1>1, <1>2, <1>4, <2>1 DEF Live, HeldDisjoint
  <2>3. End(u) <= t.offset \/ End(t) <= u.offset
    BY <1>3, <1>4, <2>2 DEF HeldDisjoint, End, EffectiveSize
  <2> QED BY <1>2, <2>1, <2>2, <2>3, RegionOfFields DEF Allocator!Disjoint
<1>9. Allocator!Allocate(RegionOf(t))
  <2>1. RegionOf(t).offset + RegionOf(t).size <= PageSize
    BY <1>2, <1>6, RegionOfFields
  <2>2. \A r \in Owned :
          r.handle # RegionOf(t).handle /\ Allocator!Disjoint(r, RegionOf(t))
    BY <1>8
  <2>3. \A r \in Owned :
          r.handle # RegionOf(t).handle /\ Allocator!Disjoint(RegionOf(t), r)
    BY <2>2 DEF Allocator!Disjoint
  <2> QED BY <1>5, <1>7, <2>1, <2>2, <2>3 DEF Allocator!Allocate
<1>10. RegionOf(t) \in Owned'
  BY <1>5
<1> QED BY <1>9, <1>10 DEF Allocator!Next

\* A user's step frees at most the region whose last reference it drops.
LEMMA UserFrees ==
  ASSUME PageInv, NEW d \in Descriptors, User(d)
  PROVE  Allocator!Next \/ Owned' = Owned
<1>1. Held' = Held /\ HeldDisjoint /\ refs \in [Descriptors -> 0..MaxRefs]
  BY HeldUnchanged, PageInvHeldDisjoint DEF PageInv, TypeOK
<1> DEFINE n == refs'[d]
<1>2. refs' = [refs EXCEPT ![d] = n]
  BY <1>1 DEF User, NewHandle, Clone, Release
<1>2a. (n > 0 /\ (refs[d] > 0 \/ ~InPage(d))) \/ Release(d)
  <2>1. CASE NewHandle(d)
    BY <1>1, <2>1 DEF NewHandle, Fresh
  <2>2. CASE Clone(d)
    BY <1>1, <2>2, PageAssumption DEF Clone
  <2> QED BY <2>1, <2>2 DEF User
<1> HIDE DEF n
<1>3. \A s \in Held : s \in Slice /\ s.handle \in Descriptors
  BY <1>1, EndType DEF HeldDisjoint
<1>4. \A s \in Held : refs'[s.handle] = IF s.handle = d THEN n ELSE refs[s.handle]
  BY <1>1, <1>2, <1>3
<1>5. CASE n > 0 /\ (refs[d] > 0 \/ ~InPage(d))
  <2>1. \A s \in Held : refs'[s.handle] > 0 <=> refs[s.handle] > 0
    BY <1>1, <1>4, <1>5 DEF HeldDisjoint
  <2>2. Live' = Live
    BY <1>1, <2>1 DEF Live
  <2> QED BY <2>2, LiveStutters
<1>6. CASE Release(d)
  <2>1. refs[d] > 0
    BY <1>6 DEF Release
  <2>2. CASE n > 0 \/ ~InPage(d)
    <3>1. \A s \in Held : refs'[s.handle] > 0 <=> refs[s.handle] > 0
      BY <1>1, <1>4, <2>1, <2>2 DEF HeldDisjoint
    <3>2. Live' = Live
      BY <1>1, <3>1 DEF Live
    <3> QED BY <3>2, LiveStutters
  <2>3. CASE ~(n > 0) /\ InPage(d)
    <3>1. PICK s \in Held : s.handle = d
      BY <2>3 DEF InPage, Held
    <3>2. s \in Live
      BY <2>1, <3>1 DEF Live
    <3>3. \A t \in Held : t.handle = d <=> t = s
      BY <1>1, <3>1 DEF HeldDisjoint
    <3>4. Live' = Live \ {s}
      BY <1>1, <1>4, <2>3, <3>3 DEF Live
    <3>5. \A t \in Live : t # s => RegionOf(t) # RegionOf(s)
      BY <1>3, <3>1, <3>3, RegionOfFields DEF Live
    <3>6. Owned' = {RegionOf(u) : u \in Live'}
      BY DEF Owned, Live, RegionOf, EffectiveSize
    <3>7. Owned' = Owned \ {RegionOf(s)} /\ RegionOf(s) \in Owned
      BY <3>2, <3>4, <3>5, <3>6, OwnedOfLive
    <3> QED BY <3>7 DEF Allocator!Free, Allocator!Next
  <2> QED BY <2>2, <2>3
<1> QED BY <1>2a, <1>5, <1>6

\* bind() hands the region of the reserved handle over to the user's handle.
LEMMA BindRebinds ==
  ASSUME PageInv, NEW reserved \in Descriptors, NEW new \in Descriptors,
         Bind(reserved, new)
  PROVE  Allocator!Next
<1>1. PICK s \in Held :
        /\ s \in Slice /\ s.handle = reserved
        /\ Held' = (Held \ {s}) \cup {[s EXCEPT !.handle = new]}
  BY BindHeld
<1> DEFINE t == [s EXCEPT !.handle = new]
<1>2. /\ t.handle = new
      /\ RegionOf(t) = [RegionOf(s) EXCEPT !.handle = new]
  BY <1>1 DEF RegionOf, EffectiveSize, Slice
<1> HIDE DEF t
<1>3. Held' = (Held \ {s}) \cup {t}
  BY <1>1 DEF t
<1>4. HeldDisjoint /\ refs \in [Descriptors -> 0..MaxRefs]
  BY PageInvHeldDisjoint DEF PageInv, TypeOK
<1>5. refs[reserved] > 0 /\ refs[new] > 0 /\ ~InPage(new)
      /\ refs' = [refs EXCEPT ![reserved] = 0]
  BY DEF Bind
<1>6. \A u \in Held : u # s => u.handle # reserved
  BY <1>1, <1>4 DEF HeldDisjoint
<1>7. \A u \in Held : u \in Slice /\ u.handle \in Descriptors /\ u.handle # new
  BY <1>4, <1>5, EndType DEF HeldDisjoint
<1>8. Live' = (Live \ {s}) \cup {t}
  <2>1. \A u \in Held : u # s => refs'[u.handle] = refs[u.handle]
    BY <1>4, <1>5, <1>6, <1>7
  <2>2. refs'[new] > 0
    BY <1>1, <1>4, <1>5, <1>7
  <2> QED BY <1>2, <1>3, <2>1, <2>2 DEF Live
<1>9. s \in Live /\ RegionOf(s) \in Owned
  BY <1>1, <1>5, OwnedOfLive DEF Live
<1>10. \A u \in Live : u # s => RegionOf(u) # RegionOf(s)
  BY <1>1, <1>6, <1>7, RegionOfFields DEF Live
<1>11. Owned' = {RegionOf(u) : u \in Live'}
  BY DEF Owned, Live, RegionOf, EffectiveSize
<1>12. Owned' = (Owned \ {RegionOf(s)}) \cup {RegionOf(t)}
  BY <1>8, <1>10, <1>11, OwnedOfLive
<1>13. \A r \in Owned : r.handle # new
  BY <1>7, OwnedOfLive, RegionOfFields DEF Live
<1> QED BY <1>2, <1>9, <1>12, <1>13 DEF Allocator!Rebind, Allocator!Next

\* The page implements the allocator (RefinesAllocator), for every page size,
\* alignment and set of sizes: what coalesce(), padding and splitting do to the
\* slices is invisible to the owner of a region.
THEOREM PageRefinesAllocator == Spec => RefinesAllocator
<1>1. Init => Allocator!Init
  <2> SUFFICES ASSUME Init PROVE Owned = {}
    BY DEF Allocator!Init
  <2>1. \A d \in Descriptors : ~(refs[d] > 0)
    <3>1. refs = [d \in Descriptors |-> 0]
      BY DEF Init
    <3>2. ASSUME NEW d \in Descriptors PROVE refs[d] = 0
      BY <3>1
    <3>3. ~(0 > 0)
      OBVIOUS
    <3> QED BY <3>2, <3>3
  <2>2. \A s \in Held : s.handle \in Descriptors
    BY InitPageInv, PageInvHeldDisjoint, EndType DEF HeldDisjoint
  <2> QED BY <2>1, <2>2 DEF Owned
<1>2. PageInv /\ PageInv' /\ [Next]_vars => [Allocator!Next]_Owned
  <2> SUFFICES ASSUME PageInv, PageInv', [Next]_vars
               PROVE  Allocator!Next \/ Owned' = Owned
    OBVIOUS
  <2>1. CASE \E d \in Descriptors : User(d)
    BY <2>1, UserFrees
  <2>2. CASE (\E size \in Sizes : StartReserve(size)) \/ ReserveNone
    <3>1. Held' = Held
      BY <2>2, HeldUnchanged
    <3>2. refs' = refs
      BY <2>2 DEF StartReserve, ReserveNone
    <3>3. Live' = Live
      BY <3>1, <3>2 DEF Live
    <3> QED BY <3>3, LiveStutters
  <2>3. CASE Coalesce
    BY <2>3, CoalesceLive, LiveStutters
  <2>4. CASE ReserveWhole \/ ReserveSplit
    BY <2>4, ReserveAllocates
  <2>5. CASE \E reserved, new \in Descriptors : Bind(reserved, new)
    BY <2>5, BindRebinds
  <2>6. CASE UNCHANGED vars
    <3>1. UNCHANGED <<slices, slicesTmp, refs, pc, index>>
      BY <2>6 DEF vars
    <3> QED BY <3>1 DEF Owned, Held, Rest, Moved, EffectiveSize
  <2> QED BY <2>1, <2>2, <2>3, <2>4, <2>5, <2>6 DEF Next, TryReserve
<1> QED BY <1>1, <1>2, PageInvariance, PTL
    DEF Spec, RefinesAllocator, Allocator!Spec
=============================================================================
