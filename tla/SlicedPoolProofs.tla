-------------------------- MODULE SlicedPoolProofs --------------------------
(***************************************************************************)
(* Theorems about SlicedPool: the inductive invariant PoolInv, and what    *)
(* follows from it.                                                        *)
(***************************************************************************)
EXTENDS SlicedPool, CommonProofs

(***************************************************************************)
(* While cleanup() runs, the pool is in two vectors.  The page numbers     *)
(* that those it has kept and those still to drain have in use do not      *)
(* overlap, so both are one vector with a gap.                             *)
(***************************************************************************)
Numbers == RestPages \cup DOMAIN pagesTmp

At(n) == IF n \in DOMAIN pagesTmp THEN pagesTmp[n] ELSE pages[n]

Known(d) == \E n \in Numbers : Has(At(n).slices, d)

Distinct(slices) ==
  \A i, j \in DOMAIN slices : slices[i].handle = slices[j].handle => i = j

Arranged ==
  /\ \A n \in Numbers : Numbered(At(n), n) /\ LaidOut(At(n).slices)
  /\ \A d \in Descriptors : ~Known(d) => location[d] = Uninit
  /\ \A s : s \in storages <=> \E n \in Numbers : s = At(n).storage
  /\ \A m, n \in Numbers : At(m).storage = At(n).storage => m = n

ViewInv == TypeOK /\ InLoop /\ AllocFits /\ Arranged

LEMMA VectorForms ==
  ASSUME TypeOK
  PROVE  /\ Len(pages) \in Nat /\ DOMAIN pages = 1 .. Len(pages)
         /\ Len(pagesTmp) \in Nat /\ DOMAIN pagesTmp = 1 .. Len(pagesTmp)
         /\ \A p \in DOMAIN pages : pages[p] \in Page
         /\ \A q \in DOMAIN pagesTmp : pagesTmp[q] \in Page
         /\ index \in Nat \ {0} /\ index <= Len(pages) + 1
         /\ RestPages \subseteq DOMAIN pages
<1>1. pages \in Seq(Page) /\ pagesTmp \in Seq(Page)
  BY DEF TypeOK
<1>2. /\ Len(pages) \in Nat /\ DOMAIN pages = 1 .. Len(pages)
      /\ Len(pagesTmp) \in Nat /\ DOMAIN pagesTmp = 1 .. Len(pagesTmp)
  BY <1>1, LenProperties
<1>3. /\ \A p \in DOMAIN pages : pages[p] \in Page
      /\ \A q \in DOMAIN pagesTmp : pagesTmp[q] \in Page
  BY <1>1, <1>2, ElementOfSeq
<1>4. index \in Nat \ {0} /\ index <= Len(pages) + 1
  BY <1>2 DEF TypeOK
<1>5. RestPages \subseteq DOMAIN pages
  BY <1>2, <1>4 DEF RestPages
<1> QED BY <1>2, <1>3, <1>4, <1>5

LEMMA Numbering ==
  ASSUME TypeOK, InLoop
  PROVE  /\ \A p \in RestPages : p \notin DOMAIN pagesTmp /\ At(p) = pages[p]
         /\ \A q \in DOMAIN pagesTmp : At(q) = pagesTmp[q]
         /\ Numbers \subseteq Nat \ {0}
         /\ \A n \in Numbers : At(n) \in Page
         /\ PagesHeld = {At(n) : n \in Numbers}
         /\ \A d : InPool(d) <=> Known(d)
<1>1. \A p \in RestPages : p \notin DOMAIN pagesTmp
  <2>1. CASE pc \in {"cleanup", "summary"}
    BY <2>1, VectorForms DEF InLoop, RestPages
  <2>2. CASE pc \notin {"cleanup", "summary"}
    <3>1. pagesTmp = << >>
      BY <2>2 DEF InLoop
    <3> QED BY <3>1
  <2> QED BY <2>1, <2>2
<1>2. \A p \in RestPages : At(p) = pages[p]
  BY <1>1 DEF At
<1>3. \A q \in DOMAIN pagesTmp : At(q) = pagesTmp[q]
  BY DEF At
<1>4. Numbers \subseteq Nat \ {0}
  BY VectorForms DEF Numbers
<1>5. \A n \in Numbers : At(n) \in Page
  BY <1>2, <1>3, VectorForms DEF Numbers
<1>6. PagesHeld = {At(n) : n \in Numbers}
  BY <1>2, <1>3 DEF PagesHeld, Numbers
<1>7. \A d : InPool(d) <=> Known(d)
  BY <1>6 DEF InPool, Known
<1> QED BY <1>1, <1>2, <1>3, <1>4, <1>5, <1>6, <1>7

LEMMA ToView == PoolInv => ViewInv
<1> SUFFICES ASSUME PoolInv PROVE ViewInv
  OBVIOUS
<1>1. TypeOK /\ InLoop /\ AllocFits /\ Placed /\ Regions /\ StoragesOwned
  BY DEF PoolInv
<1>2. \A n \in Numbers : Numbered(At(n), n) /\ LaidOut(At(n).slices)
  <2>1. TAKE n \in Numbers
  <2>2. CASE n \in RestPages
    BY <1>1, <2>2, Numbering DEF Placed, Regions
  <2>3. CASE n \in DOMAIN pagesTmp
    BY <1>1, <2>3, Numbering DEF Placed, Regions
  <2> QED BY <2>2, <2>3 DEF Numbers
<1>3. \A d \in Descriptors : ~Known(d) => location[d] = Uninit
  BY <1>1, Numbering DEF Placed
<1>4. \A s : s \in storages <=> \E n \in Numbers : s = At(n).storage
  <2>1. storages = {page.storage : page \in PagesHeld}
    BY <1>1 DEF StoragesOwned
  <2>2. PagesHeld = {At(n) : n \in Numbers}
    BY <1>1, Numbering
  <2> QED BY <2>1, <2>2
<1>5. ASSUME NEW m \in Numbers, NEW n \in Numbers, At(m).storage = At(n).storage
      PROVE  m = n
  <2>1. m \in RestPages \/ m \in DOMAIN pagesTmp
    BY DEF Numbers
  <2>2. n \in RestPages \/ n \in DOMAIN pagesTmp
    BY DEF Numbers
  <2>3. /\ \A p \in RestPages : At(p) = pages[p]
        /\ \A q \in DOMAIN pagesTmp : At(q) = pagesTmp[q]
    BY <1>1, Numbering
  <2> QED BY <1>1, <1>5, <2>1, <2>2, <2>3 DEF StoragesOwned
<1> QED BY <1>1, <1>2, <1>3, <1>4, <1>5 DEF ViewInv, Arranged

LEMMA FromView == ViewInv => PoolInv
<1> SUFFICES ASSUME ViewInv PROVE PoolInv
  OBVIOUS
<1>1. TypeOK /\ InLoop /\ AllocFits /\ Arranged
  BY DEF ViewInv
<1>2. RestPages \subseteq Numbers /\ DOMAIN pagesTmp \subseteq Numbers
  BY DEF Numbers
<1>3. /\ \A p \in RestPages : p \notin DOMAIN pagesTmp /\ At(p) = pages[p]
      /\ \A q \in DOMAIN pagesTmp : At(q) = pagesTmp[q]
      /\ PagesHeld = {At(n) : n \in Numbers}
      /\ \A d : InPool(d) <=> Known(d)
  BY <1>1, Numbering
<1>4. Placed
  <2>1. \A p \in RestPages : Numbered(pages[p], p)
    BY <1>1, <1>2, <1>3 DEF Arranged
  <2>2. \A q \in DOMAIN pagesTmp : Numbered(pagesTmp[q], q)
    BY <1>1, <1>2, <1>3 DEF Arranged
  <2>3. \A d \in Descriptors : ~InPool(d) => location[d] = Uninit
    BY <1>1, <1>3 DEF Arranged
  <2> QED BY <2>1, <2>2, <2>3 DEF Placed
<1>5. Regions
  <2>1. \A p \in RestPages : LaidOut(pages[p].slices)
    BY <1>1, <1>2, <1>3 DEF Arranged
  <2>2. \A q \in DOMAIN pagesTmp : LaidOut(pagesTmp[q].slices)
    BY <1>1, <1>2, <1>3 DEF Arranged
  <2> QED BY <2>1, <2>2 DEF Regions
<1>6. StoragesOwned
  <2>1. storages = {page.storage : page \in PagesHeld}
    BY <1>1, <1>3 DEF Arranged
  <2>2. \A o, p \in RestPages : pages[o].storage = pages[p].storage => o = p
    BY <1>1, <1>2, <1>3 DEF Arranged
  <2>3. \A q, r \in DOMAIN pagesTmp : pagesTmp[q].storage = pagesTmp[r].storage => q = r
    BY <1>1, <1>2, <1>3 DEF Arranged
  <2>4. \A p \in RestPages, q \in DOMAIN pagesTmp : pages[p].storage # pagesTmp[q].storage
    <3>1. TAKE p \in RestPages, q \in DOMAIN pagesTmp
    <3>2. p # q /\ At(p) = pages[p] /\ At(q) = pagesTmp[q]
      BY <1>3
    <3>3. p \in Numbers /\ q \in Numbers
      BY <1>2
    <3> QED BY <1>1, <3>2, <3>3 DEF Arranged
  <2> QED BY <2>1, <2>2, <2>3, <2>4 DEF StoragesOwned
<1> QED BY <1>1, <1>4, <1>5, <1>6 DEF PoolInv

\* The slices of a page and their fields.
LEMMA SliceForms ==
  ASSUME NEW slices \in Seq(Slice)
  PROVE  /\ Len(slices) \in Nat
         /\ DOMAIN slices = 1 .. Len(slices)
         /\ \A i \in DOMAIN slices :
              /\ slices[i] \in Slice
              /\ slices[i].offset \in Nat
              /\ slices[i].size \in Nat
              /\ slices[i].padding \in Nat
              /\ slices[i].handle \in Descriptors
              /\ EffectiveSize(slices[i]) \in Nat
              /\ End(slices[i]) \in Nat
<1>1. Len(slices) \in Nat /\ DOMAIN slices = 1 .. Len(slices)
  BY LenProperties
<1>2. \A i \in DOMAIN slices : slices[i] \in Slice
  BY <1>1, ElementOfSeq
<1> QED BY <1>1, <1>2 DEF Slice, EffectiveSize, End

LEMMA SliceEnds ==
  ASSUME NEW s \in Slice
  PROVE  /\ s.offset \in Nat
         /\ s.size \in Nat
         /\ EffectiveSize(s) \in Nat
         /\ EffectiveSize(s) >= s.size
         /\ End(s) \in Nat
         /\ End(s) = s.offset + EffectiveSize(s)
<1>1. s.offset \in Nat /\ s.size \in Nat /\ s.padding \in Nat
  BY DEF Slice
<1>2. EffectiveSize(s) = s.size + s.padding
  BY DEF EffectiveSize
<1>3. End(s) = s.offset + EffectiveSize(s)
  BY DEF End
<1> QED BY <1>1, <1>2, <1>3

LEMMA PageForms ==
  ASSUME NEW page \in Page
  PROVE  page.storage \in Storages /\ page.base \in Nat /\ page.slices \in Seq(Slice)
BY DEF Page

\* A descriptor knows one place only, so it is in one slice of one page.
LEMMA Apart ==
  ASSUME ViewInv
  PROVE  /\ \A n \in Numbers : Distinct(At(n).slices)
         /\ \A m, n \in Numbers : \A d :
              Has(At(m).slices, d) /\ Has(At(n).slices, d) => m = n
<1>1. TypeOK /\ InLoop /\ Arranged
  BY DEF ViewInv
<1>2. \A n \in Numbers : n \in Nat /\ At(n) \in Page
  BY <1>1, Numbering
<1>3. ASSUME NEW n \in Numbers, NEW i \in DOMAIN At(n).slices
      PROVE  /\ location[At(n).slices[i].handle].page = n - 1
             /\ location[At(n).slices[i].handle].slice = i
  <2>1. location[At(n).slices[i].handle] = [page |-> n - 1, slice |-> i]
    BY <1>1, <1>3 DEF Arranged, Numbered
  <2> QED BY <2>1
<1>4. \A n \in Numbers : Distinct(At(n).slices)
  BY <1>3 DEF Distinct
<1>5. ASSUME NEW m \in Numbers, NEW n \in Numbers, NEW d,
             Has(At(m).slices, d), Has(At(n).slices, d)
      PROVE  m = n
  <2>1. location[d].page = m - 1 /\ location[d].page = n - 1
    BY <1>3, <1>5 DEF Has
  <2> QED BY <1>2, <2>1
<1> QED BY <1>4, <1>5

-----------------------------------------------------------------------------
(* One page *)

\* The slices a coalesce() leaves are still in their order.
LEMMA KeptLaidOut ==
  ASSUME NEW list \in Seq(Slice), NEW I \in SUBSET (1 .. Len(list)),
         \A i \in I : list[i].size > 0 /\ End(list[i]) <= PageSize,
         \A i, j \in I : i < j => End(list[i]) <= list[j].offset,
         \A i, j \in I : list[i].handle = list[j].handle => i = j
  PROVE  /\ Kept(list, I) \in Seq(Slice)
         /\ LaidOut(Kept(list, I))
         /\ Distinct(Kept(list, I))
         /\ \A n \in DOMAIN Kept(list, I) : \E i \in I : Kept(list, I)[n] = list[i]
<1> DEFINE k == Cardinality(I)
           f == InOrder(I)
           kept == Kept(list, I)
<1>1. /\ kept \in Seq(Slice)
      /\ DOMAIN kept = 1 .. k
      /\ f \in [1 .. k -> I]
      /\ \A n \in 1 .. k : kept[n] = list[f[n]]
      /\ \A m, n \in 1 .. k : m # n => f[m] # f[n]
  BY KeptForms
<1>2. \A m, n \in 1 .. k : m < n => f[m] < f[n]
  <2>1. Len(list) \in Nat
    BY LenProperties
  <2> QED BY <2>1, InOrderForms
<1> HIDE DEF k, f, kept
<1>3. \A n \in 1 .. k : f[n] \in I /\ kept[n] = list[f[n]]
  BY <1>1
<1>4. LaidOut(kept)
  <2>1. ASSUME NEW n \in DOMAIN kept PROVE kept[n].size > 0 /\ End(kept[n]) <= PageSize
    BY <1>1, <1>3
  <2>2. ASSUME NEW m \in DOMAIN kept, NEW n \in DOMAIN kept, m < n
        PROVE  End(kept[m]) <= kept[n].offset
    <3>1. f[m] \in I /\ f[n] \in I /\ f[m] < f[n]
      BY <1>1, <1>2, <1>3, <2>2
    <3>2. kept[m] = list[f[m]] /\ kept[n] = list[f[n]]
      BY <1>1, <1>3
    <3> QED BY <3>1, <3>2
  <2> QED BY <2>1, <2>2 DEF LaidOut
<1>5. Distinct(kept)
  <2>1. ASSUME NEW m \in DOMAIN kept, NEW n \in DOMAIN kept, kept[m].handle = kept[n].handle
        PROVE  m = n
    <3>1. f[m] \in I /\ f[n] \in I
      BY <1>1, <1>3
    <3>2. kept[m] = list[f[m]] /\ kept[n] = list[f[n]]
      BY <1>1, <1>3
    <3>3. f[m] = f[n]
      BY <2>1, <3>1, <3>2
    <3> QED BY <1>1, <3>3
  <2> QED BY <2>1 DEF Distinct
<1>6. \A n \in DOMAIN kept : \E i \in I : kept[n] = list[i]
  BY <1>1
<1> QED BY <1>1, <1>4, <1>5, <1>6 DEF kept

\* A run of free slices has a last one, and no head after its first.
LEMMA LastMergedForms ==
  ASSUME NEW slices \in Seq(Slice), NEW i \in DOMAIN slices
  PROVE  /\ LastMerged(slices, i) \in i .. Len(slices)
         /\ \A k \in (i + 1) .. LastMerged(slices, i) : k \notin Heads(slices)
<1>1. Len(slices) \in Nat /\ i \in 1 .. Len(slices)
  BY SliceForms
<1> DEFINE Later == {k \in (i + 1) .. Len(slices) : k \in Heads(slices)}
<1>2. \E j \in i .. Len(slices) :
        /\ \A k \in (i + 1) .. j : k \notin Heads(slices)
        /\ j < Len(slices) => j + 1 \in Heads(slices)
  <2>1. CASE Later = {}
    <3>1. Len(slices) \in i .. Len(slices)
      BY <1>1
    <3>2. \A k \in (i + 1) .. Len(slices) : k \notin Heads(slices)
      BY <2>1
    <3> QED BY <1>1, <3>1, <3>2
  <2>2. CASE Later # {}
    <3>1. Later \in SUBSET Nat
      BY <1>1
    <3>2. PICK n \in Later : \A k \in Later : n <= k
      <4> HIDE DEF Later
      <4> QED BY <2>2, <3>1, Smallest
    <3>3. n \in (i + 1) .. Len(slices) /\ n \in Heads(slices)
      OBVIOUS
    <3>4. n - 1 \in i .. Len(slices) /\ (n - 1) + 1 = n
      BY <1>1, <3>3
    <3>5. \A k \in (i + 1) .. (n - 1) : k \notin Heads(slices)
      <4>1. ASSUME NEW k \in (i + 1) .. (n - 1), k \in Heads(slices) PROVE FALSE
        <5>1. k \in (i + 1) .. Len(slices) /\ ~(n <= k)
          BY <1>1, <3>3
        <5>2. k \in Later
          BY <4>1, <5>1
        <5> QED BY <3>2, <5>1, <5>2
      <4> QED BY <4>1
    <3> HIDE DEF Later
    <3> QED BY <3>3, <3>4, <3>5
  <2> QED BY <2>1, <2>2
<1>3. LastMerged(slices, i) =
        CHOOSE j \in i .. Len(slices) :
          /\ \A k \in (i + 1) .. j : k \notin Heads(slices)
          /\ j < Len(slices) => j + 1 \in Heads(slices)
  BY DEF LastMerged
<1> HIDE DEF Later
<1> QED BY <1>2, <1>3

Lengths(slices) == [k \in DOMAIN slices |-> EffectiveSize(slices[k])]

\* Slices that follow each other are not longer together than the room from the
\* first of them to the end of the last.
LEMMA MergedFits ==
  ASSUME NEW slices \in Seq(Slice), LaidOut(slices),
         NEW i \in 1 .. Len(slices), NEW j \in i .. Len(slices)
  PROVE  /\ Total(Lengths(slices))[j] \in Nat
         /\ Total(Lengths(slices))[i - 1] \in Nat
         /\ Total(Lengths(slices))[j] - Total(Lengths(slices))[i - 1] >= slices[i].size
         /\ slices[i].offset + (Total(Lengths(slices))[j] - Total(Lengths(slices))[i - 1])
              <= End(slices[j])
<1> DEFINE w == Lengths(slices)
           t == Total(w)
<1>1. /\ Len(slices) \in Nat
      /\ DOMAIN slices = 1 .. Len(slices)
      /\ \A k \in 1 .. Len(slices) :
           /\ slices[k].offset \in Nat
           /\ slices[k].size \in Nat
           /\ slices[k].padding \in Nat
           /\ EffectiveSize(slices[k]) \in Nat
  BY SliceForms
<1>2. w \in [1 .. Len(slices) -> Nat]
  BY <1>1 DEF Lengths
<1>3. w \in Seq(Nat) /\ Len(w) = Len(slices)
  <2> HIDE DEF w
  <2>1. w \in Seq(Nat)
    <3>1. PICK n \in Nat : w \in [1 .. n -> Nat]
      BY <1>1, <1>2
    <3>2. Seq(Nat) = UNION {[1 .. m -> Nat] : m \in Nat}
      BY SeqDef
    <3> QED BY <3>1, <3>2
  <2>2. DOMAIN w = 1 .. Len(slices) /\ DOMAIN w = 1 .. Len(w) /\ Len(w) \in Nat
    BY <1>2, <2>1, LenProperties
  <2> QED BY <1>1, <2>1, <2>2
<1>4. \A k \in 1 .. Len(slices) : w[k] = EffectiveSize(slices[k])
  BY <1>1 DEF Lengths
<1> HIDE DEF w
<1>5. /\ t \in [0 .. Len(slices) -> Nat]
      /\ \A k \in 1 .. Len(slices) : t[k] = t[k - 1] + w[k]
  BY <1>3, TotalForms
<1>6. t[i - 1] + w[i] <= t[j]
  BY <1>3, TotalGrows
<1> HIDE DEF t
<1>7. i \in Nat /\ i >= 1 /\ j \in Nat /\ i <= j /\ i - 1 \in 0 .. Len(slices)
      /\ j \in 0 .. Len(slices) /\ j \in 1 .. Len(slices)
  BY <1>1
<1>8. t[i - 1] \in Nat /\ t[j] \in Nat
  BY <1>5, <1>7
<1>9. PICK base \in Nat : base = t[i - 1]
  BY <1>8
<1>10. PICK start \in Nat : start = slices[i].offset
  BY <1>1
<1> DEFINE S == {k \in i .. Len(slices) : start + t[k] <= base + End(slices[k])}
<1>11. \A k \in i .. Len(slices) : k \in 1 .. Len(slices) /\ t[k] \in Nat
                                  /\ End(slices[k]) = slices[k].offset + w[k]
                                  /\ slices[k].offset \in Nat /\ w[k] \in Nat
                                  /\ End(slices[k]) \in Nat
  <2>1. TAKE k \in i .. Len(slices)
  <2>2. k \in 1 .. Len(slices) /\ k \in 0 .. Len(slices)
    BY <1>1, <1>7
  <2>3. t[k] \in Nat
    BY <1>5, <2>2
  <2>4. w[k] \in Nat /\ w[k] = EffectiveSize(slices[k]) /\ slices[k].offset \in Nat
    BY <1>1, <1>2, <1>4, <2>2
  <2>5. End(slices[k]) = slices[k].offset + w[k]
    BY <2>4 DEF End
  <2> QED BY <2>2, <2>3, <2>4, <2>5
<1>12. i \in S
  <2>1. i \in i .. Len(slices) /\ t[i] = base + w[i]
    BY <1>1, <1>5, <1>9
  <2>2. w[i] \in Nat
    BY <1>2, <1>1
  <2>3. End(slices[i]) = start + w[i]
    BY <1>10, <1>11, <2>1
  <2>4. start + (base + w[i]) <= base + (start + w[i])
    BY <2>2
  <2> QED BY <2>1, <2>3, <2>4
<1>13. ASSUME NEW k \in i .. Len(slices) - 1, k \in S PROVE k + 1 \in S
  <2>1. /\ k \in i .. Len(slices) /\ k + 1 \in i .. Len(slices) /\ (k + 1) - 1 = k
        /\ k \in DOMAIN slices /\ k + 1 \in DOMAIN slices /\ k < k + 1
    BY <1>1, <1>7
  <2>2. t[k + 1] = t[k] + w[k + 1] /\ t[k] \in Nat /\ w[k + 1] \in Nat
    BY <1>1, <1>2, <1>5, <1>11, <2>1
  <2>3. End(slices[k]) <= slices[k + 1].offset
    BY <2>1 DEF LaidOut
  <2>4. End(slices[k]) \in Nat /\ slices[k + 1].offset \in Nat
        /\ End(slices[k + 1]) = slices[k + 1].offset + w[k + 1]
    BY <1>11, <2>1
  <2>5. start + t[k] <= base + End(slices[k])
    BY <1>13
  <2>6. \A a, b, c, d, e, f \in Nat : a + b <= c + d /\ d <= e => a + (b + f) <= c + (e + f)
    OBVIOUS
  <2>7. start + (t[k] + w[k + 1]) <= base + (slices[k + 1].offset + w[k + 1])
    BY <2>2, <2>3, <2>4, <2>5, <2>6
  <2>8. start + t[k + 1] <= base + End(slices[k + 1])
    BY <2>2, <2>4, <2>7
  <2> QED BY <2>1, <2>8
<1>14. \A k \in i .. Len(slices) : k \in S
  <2>1. \A k \in i .. Len(slices) - 1 : k \in S => k + 1 \in S
    BY <1>13
  <2> HIDE DEF S
  <2> QED BY <1>1, <1>7, <1>12, <2>1, Climb
<1>15. start + t[j] <= base + End(slices[j])
  BY <1>14
<1>16. w[i] >= slices[i].size /\ w[i] \in Nat /\ slices[i].size \in Nat
  BY <1>1, <1>2, <1>4 DEF EffectiveSize
<1>17. End(slices[j]) \in Nat
  BY <1>1, <1>7 DEF End
<1>18. \A a, b, c, d \in Nat : a + b <= c + d => a + (b - c) <= d
  OBVIOUS
<1>19. start + (t[j] - base) <= End(slices[j])
  BY <1>8, <1>15, <1>17, <1>18
<1>20. \A a, b, c, d \in Nat : a + b <= c /\ b >= d => c - a >= d
  OBVIOUS
<1>21. t[j] - t[i - 1] >= slices[i].size
  BY <1>6, <1>8, <1>16, <1>20
<1> QED BY <1>8, <1>9, <1>10, <1>19, <1>21 DEF t, w

\* A page whose free slices are together as long as the page has no other slice.
LEMMA NothingLeft ==
  ASSUME NEW slices \in Seq(Slice), LaidOut(slices), NEW f,
         f = [i \in DOMAIN slices |->
                IF IsFree(slices[i].handle) THEN EffectiveSize(slices[i]) ELSE 0],
         Total(f)[Len(f)] = PageSize
  PROVE  \A i \in DOMAIN slices : IsFree(slices[i].handle)
<1> SUFFICES ASSUME NEW j \in DOMAIN slices, ~IsFree(slices[j].handle) PROVE FALSE
  OBVIOUS
<1>1. PICK w : w = Lengths(slices)
  OBVIOUS
<1>2. PICK top \in Nat : top = Len(slices) /\ DOMAIN slices = 1 .. top
  BY SliceForms
<1>3. \A i \in 1 .. top : EffectiveSize(slices[i]) \in Nat
  BY <1>2, SliceForms
<1>4. /\ w \in [1 .. top -> Nat] /\ f \in [1 .. top -> Nat]
      /\ \A i \in 1 .. top : f[i] <= w[i]
      /\ f[j] = 0 /\ w[j] = EffectiveSize(slices[j])
  BY <1>1, <1>2, <1>3 DEF Lengths
<1>5. /\ w \in Seq(Nat) /\ Len(w) = top
      /\ f \in Seq(Nat) /\ Len(f) = top
  <2>1. \A v \in [1 .. top -> Nat] : v \in Seq(Nat) /\ Len(v) = top
    <3>1. TAKE v \in [1 .. top -> Nat]
    <3>2. Seq(Nat) = UNION {[1 .. m -> Nat] : m \in Nat}
      BY SeqDef
    <3>3. v \in Seq(Nat)
      BY <3>2
    <3>4. DOMAIN v = 1 .. top /\ DOMAIN v = 1 .. Len(v) /\ Len(v) \in Nat
      BY <3>3, LenProperties
    <3> QED BY <3>3, <3>4
  <2> QED BY <1>4, <2>1
<1>6. PICK t, g : t = Total(w) /\ g = Total(f)
  OBVIOUS
<1>7. /\ t \in [0 .. top -> Nat] /\ t[0] = 0
      /\ \A k \in 1 .. top : t[k] = t[k - 1] + w[k]
      /\ g \in [0 .. top -> Nat] /\ g[0] = 0
      /\ \A k \in 1 .. top : g[k] = g[k - 1] + f[k]
  BY <1>5, <1>6, TotalForms
<1>8. w[j] > 0 /\ j \in 1 .. top
  BY <1>2, <1>4, SliceForms, SliceEnds DEF LaidOut
<1> DEFINE S == {k \in 0 .. top : g[k] <= t[k] /\ (k >= j => g[k] < t[k])}
<1>9. 0 \in S
  BY <1>7, <1>8
<1>10. ASSUME NEW k \in 0 .. top - 1, k \in S PROVE k + 1 \in S
  <2>1. k + 1 \in 1 .. top /\ (k + 1) - 1 = k /\ k \in 0 .. top
    OBVIOUS
  <2>2. PICK a \in Nat, b \in Nat, c \in Nat, d \in Nat :
          a = g[k] /\ b = f[k + 1] /\ c = t[k] /\ d = w[k + 1]
    BY <1>4, <1>7, <2>1
  <2>3. g[k + 1] = a + b /\ t[k + 1] = c + d /\ b <= d
    BY <1>4, <1>7, <2>1, <2>2
  <2>4. a <= c /\ (k >= j => a < c)
    BY <1>10, <2>2
  <2>5. k + 1 = j => b < d
    BY <1>4, <1>8, <2>2
  <2>6. k + 1 >= j => k >= j \/ k + 1 = j
    BY <1>8
  <2>7. a + b <= c + d /\ (k + 1 >= j => a + b < c + d)
    BY <2>3, <2>4, <2>5, <2>6
  <2> QED BY <2>1, <2>3, <2>7
<1>11. top \in S
  <2>1. \A k \in 0 .. top - 1 : k \in S => k + 1 \in S
    BY <1>10
  <2>2. \A k \in 0 .. top : k \in S
    <3> HIDE DEF S
    <3> QED BY <1>9, <2>1, Climb
  <2> QED BY <2>2
<1>12. g[top] < t[top]
  BY <1>8, <1>11
<1>13. t[top] <= PageSize
  <2>1. 1 \in 1 .. Len(slices) /\ top \in 1 .. Len(slices) /\ 1 - 1 = 0
    BY <1>2, <1>8
  <2>2. slices[1].offset + (t[top] - t[0]) <= End(slices[top])
    BY <1>1, <1>6, <2>1, MergedFits
  <2>3. slices[1].offset \in Nat /\ End(slices[top]) \in Nat /\ t[top] \in Nat
        /\ End(slices[top]) <= PageSize /\ PageSize \in Nat
    BY <1>2, <1>7, <2>1, SliceForms, PoolAssumption DEF LaidOut
  <2>4. t[0] = 0
    BY <1>7
  <2>5. \A a, b, c, d \in Nat : a + (b - 0) <= c /\ c <= d => b <= d
    OBVIOUS
  <2>6. slices[1].offset + (t[top] - 0) <= End(slices[top])
    BY <2>2, <2>4
  <2> HIDE DEF S
  <2> QED BY <2>3, <2>5, <2>6
<1>14. g[top] = PageSize
  BY <1>5, <1>6
<1>15. g[top] \in Nat /\ t[top] \in Nat /\ PageSize \in Nat
  BY <1>7, PoolAssumption
<1> QED BY <1>12, <1>13, <1>14, <1>15

\* What coalesce() makes of the slices of a page: they still follow each other,
\* each is an old one or has a new descriptor, and those in use are all there.
LEMMA Coalesces ==
  ASSUME NEW slices \in Seq(Slice), LaidOut(slices), Distinct(slices),
         NEW new \in [Merges(slices) -> Descriptors], IsInjective(new),
         \A i \in Merges(slices) : ~Has(slices, new[i])
  PROVE  /\ Coalesced(slices, new) \in Seq(Slice)
         /\ LaidOut(Coalesced(slices, new))
         /\ Distinct(Coalesced(slices, new))
         /\ \A n \in DOMAIN Coalesced(slices, new) :
              \/ \E i \in DOMAIN slices : Coalesced(slices, new)[n] = slices[i]
              \/ \E i \in Merges(slices) : Coalesced(slices, new)[n].handle = new[i]
         /\ \A i \in DOMAIN slices : ~IsFree(slices[i].handle) =>
              \E n \in DOMAIN Coalesced(slices, new) : Coalesced(slices, new)[n] = slices[i]
<1> DEFINE last(i) == LastMerged(slices, i)
           total == Total(Lengths(slices))
           size(i) == total[last(i)] - total[i - 1]
           list == [i \in DOMAIN slices |->
                      IF i \in Merges(slices) THEN NewSlice(slices[i].offset, size(i), new[i])
                      ELSE slices[i]]
           I == Heads(slices)
           kept == Kept(list, I)
<1>1. Coalesced(slices, new) = kept
  BY DEF Coalesced, Lengths
<1>2. /\ Len(slices) \in Nat
      /\ DOMAIN slices = 1 .. Len(slices)
      /\ \A i \in DOMAIN slices :
           /\ slices[i] \in Slice
           /\ slices[i].offset \in Nat
           /\ slices[i].size \in Nat
           /\ slices[i].handle \in Descriptors
           /\ End(slices[i]) \in Nat
  BY SliceForms
<1>3. I \subseteq DOMAIN slices /\ Merges(slices) \subseteq I
  BY DEF Heads, Merges
<1>4. \A i \in DOMAIN slices :
        /\ last(i) \in i .. Len(slices)
        /\ last(i) \in DOMAIN slices
        /\ \A k \in (i + 1) .. last(i) : k \notin I
  <2>1. TAKE i \in DOMAIN slices
  <2>2. /\ LastMerged(slices, i) \in i .. Len(slices)
        /\ \A k \in (i + 1) .. LastMerged(slices, i) : k \notin Heads(slices)
    BY LastMergedForms
  <2>3. last(i) \in DOMAIN slices
    BY <1>2, <2>2
  <2> QED BY <2>2, <2>3
<1> HIDE DEF last
<1>5. \A i \in DOMAIN slices :
        /\ size(i) \in Nat
        /\ size(i) >= slices[i].size
        /\ slices[i].offset + size(i) <= End(slices[last(i)])
  <2>1. TAKE i \in DOMAIN slices
  <2>2. i \in 1 .. Len(slices) /\ last(i) \in i .. Len(slices)
    BY <1>2, <1>4
  <2>3. PICK j \in i .. Len(slices) : j = last(i)
    BY <2>2
  <2>4. /\ total[j] \in Nat
        /\ total[i - 1] \in Nat
        /\ total[j] - total[i - 1] >= slices[i].size
        /\ slices[i].offset + (total[j] - total[i - 1]) <= End(slices[j])
    BY <2>2, MergedFits
  <2> HIDE DEF total
  <2>5. slices[i].size \in Nat
    BY <1>2
  <2>6. total[j] - total[i - 1] \in Nat
    BY <2>4, <2>5
  <2> QED BY <2>3, <2>4, <2>6
<1> HIDE DEF size
<1>6. \A i \in DOMAIN slices :
        /\ i \in Merges(slices) =>
             list[i] = [offset |-> slices[i].offset, size |-> size(i),
                        padding |-> 0, handle |-> new[i]]
        /\ i \notin Merges(slices) => list[i] = slices[i]
  BY DEF NewSlice
<1>7. \A i \in DOMAIN slices :
        i \in Merges(slices) => /\ list[i].offset = slices[i].offset
                                /\ list[i].size = size(i)
                                /\ list[i].padding = 0
                                /\ list[i].handle = new[i]
  BY DEF NewSlice
<1>8. list \in Seq(Slice) /\ Len(list) = Len(slices)
  <2>1. \A i \in DOMAIN slices : list[i] \in Slice
    <3>1. TAKE i \in DOMAIN slices
    <3>2. CASE i \in Merges(slices)
      <4>1. slices[i].offset \in Nat /\ size(i) \in Nat /\ new[i] \in Descriptors
        BY <1>2, <1>5, <3>2
      <4>2. list[i] = [offset |-> slices[i].offset, size |-> size(i),
                       padding |-> 0, handle |-> new[i]]
        BY <1>6, <3>2
      <4> HIDE DEF list
      <4> QED BY <4>1, <4>2 DEF Slice
    <3>3. CASE i \notin Merges(slices)
      BY <1>2, <1>6, <3>3
    <3> QED BY <3>2, <3>3
  <2>2. list \in [1 .. Len(slices) -> Slice]
    BY <1>2, <2>1
  <2> HIDE DEF list
  <2>3. list \in Seq(Slice)
    <3>1. PICK n \in Nat : list \in [1 .. n -> Slice]
      BY <1>2, <2>2
    <3>2. Seq(Slice) = UNION {[1 .. m -> Slice] : m \in Nat}
      BY SeqDef
    <3> QED BY <3>1, <3>2
  <2>4. DOMAIN list = 1 .. Len(slices) /\ DOMAIN list = 1 .. Len(list) /\ Len(list) \in Nat
    BY <2>2, <2>3, LenProperties
  <2> QED BY <1>2, <2>3, <2>4
<1> HIDE DEF list
<1>9. \A i \in DOMAIN slices :
        /\ list[i].offset = slices[i].offset
        /\ list[i].size >= slices[i].size
        /\ End(list[i]) <= End(slices[last(i)])
  <2>1. TAKE i \in DOMAIN slices
  <2>2. CASE i \in Merges(slices)
    <3>1. /\ list[i].offset = slices[i].offset
          /\ list[i].size = size(i)
          /\ list[i].padding = 0
      BY <1>7, <2>2
    <3>2. End(list[i]) = slices[i].offset + size(i)
      BY <1>2, <1>5, <3>1 DEF End, EffectiveSize
    <3> QED BY <1>5, <3>1, <3>2
  <2>3. CASE i \notin Merges(slices)
    <3>1. list[i] = slices[i]
      BY <1>6, <2>3
    <3>2. i = last(i) \/ i < last(i)
      BY <1>2, <1>4
    <3>3. CASE i < last(i)
      <4>1. End(slices[i]) <= slices[last(i)].offset
        BY <1>4, <3>3 DEF LaidOut
      <4>2. slices[last(i)] \in Slice
        BY <1>2, <1>4
      <4>3. slices[last(i)].offset <= End(slices[last(i)])
        BY <4>2, SliceEnds
      <4>4. /\ End(slices[i]) \in Nat /\ slices[last(i)].offset \in Nat
            /\ End(slices[last(i)]) \in Nat
        BY <1>2, <1>4
      <4> QED BY <1>2, <3>1, <4>1, <4>3, <4>4
    <3> QED BY <1>2, <3>1, <3>2, <3>3
  <2> QED BY <2>2, <2>3
<1>10. PageSize \in Nat
  BY PoolAssumption
<1>11. \A i \in I : list[i].size > 0 /\ End(list[i]) <= PageSize
  <2>1. TAKE i \in I
  <2>2. i \in DOMAIN slices /\ last(i) \in DOMAIN slices
    BY <1>3, <1>4
  <2>3. slices[i].size > 0 /\ End(slices[last(i)]) <= PageSize
    BY <2>2 DEF LaidOut
  <2>4. /\ list[i] \in Slice /\ list[i].size >= slices[i].size
        /\ End(list[i]) <= End(slices[last(i)])
    BY <1>2, <1>8, <1>9, <2>2, ElementOfSeq
  <2>5. list[i].size \in Nat /\ End(list[i]) \in Nat
    BY <2>4, SliceEnds
  <2>6. slices[i].size \in Nat /\ End(slices[last(i)]) \in Nat
    BY <1>2, <2>2
  <2> QED BY <1>10, <2>3, <2>4, <2>5, <2>6
<1>12. \A i, j \in I : i < j => End(list[i]) <= list[j].offset
  <2>1. ASSUME NEW i \in I, NEW j \in I, i < j
        PROVE  End(list[i]) <= list[j].offset
    <3>1. i \in DOMAIN slices /\ j \in DOMAIN slices /\ last(i) \in DOMAIN slices
      BY <1>3, <1>4
    <3>2. last(i) < j
      <4>1. ~(j \in (i + 1) .. last(i))
        BY <1>4, <3>1
      <4> QED BY <1>2, <2>1, <3>1, <4>1
    <3>3. End(slices[last(i)]) <= slices[j].offset
      BY <3>1, <3>2 DEF LaidOut
    <3>4. End(list[i]) <= End(slices[last(i)]) /\ list[j].offset = slices[j].offset
      BY <1>9, <3>1
    <3>5. list[i] \in Slice
      BY <1>2, <1>8, <3>1, ElementOfSeq
    <3>6. End(list[i]) \in Nat
      BY <3>5, SliceEnds
    <3>7. End(slices[last(i)]) \in Nat /\ slices[j].offset \in Nat
      BY <1>2, <3>1
    <3> QED BY <3>3, <3>4, <3>6, <3>7
  <2> QED BY <2>1
<1>13. \A i, j \in I : list[i].handle = list[j].handle => i = j
  <2>1. ASSUME NEW i \in I, NEW j \in I, list[i].handle = list[j].handle
        PROVE  i = j
    <3>1. i \in DOMAIN slices /\ j \in DOMAIN slices
      BY <1>3
    <3>2. /\ i \in Merges(slices) => list[i].handle = new[i]
          /\ j \in Merges(slices) => list[j].handle = new[j]
          /\ i \notin Merges(slices) => list[i].handle = slices[i].handle
          /\ j \notin Merges(slices) => list[j].handle = slices[j].handle
      BY <1>6, <1>7, <3>1
    <3>3. CASE i \in Merges(slices) /\ j \in Merges(slices)
      BY <2>1, <3>2, <3>3 DEF IsInjective
    <3>4. CASE i \notin Merges(slices) /\ j \notin Merges(slices)
      BY <2>1, <3>1, <3>2, <3>4 DEF Distinct
    <3>5. CASE i \in Merges(slices) /\ j \notin Merges(slices)
      BY <2>1, <3>1, <3>2, <3>5 DEF Has
    <3>6. CASE i \notin Merges(slices) /\ j \in Merges(slices)
      BY <2>1, <3>1, <3>2, <3>6 DEF Has
    <3> QED BY <3>3, <3>4, <3>5, <3>6
  <2> QED BY <2>1
<1>14. I \in SUBSET (1 .. Len(list))
  BY <1>2, <1>3, <1>8
<1>15. /\ kept \in Seq(Slice)
       /\ LaidOut(kept)
       /\ Distinct(kept)
       /\ \A n \in DOMAIN kept : \E i \in I : kept[n] = list[i]
  <2> HIDE DEF I
  <2> QED BY <1>8, <1>11, <1>12, <1>13, <1>14, KeptLaidOut
<1>16. \A n \in DOMAIN kept :
         \/ \E i \in DOMAIN slices : kept[n] = slices[i]
         \/ \E i \in Merges(slices) : kept[n].handle = new[i]
  <2>1. TAKE n \in DOMAIN kept
  <2>2. PICK i \in I : kept[n] = list[i]
    BY <1>15
  <2>3. i \in DOMAIN slices
    BY <1>3
  <2> HIDE DEF kept
  <2>4. CASE i \in Merges(slices)
    BY <1>7, <2>2, <2>3, <2>4
  <2>5. CASE i \notin Merges(slices)
    BY <1>6, <2>2, <2>3, <2>5
  <2> QED BY <2>4, <2>5
<1>17. \A i \in DOMAIN slices : ~IsFree(slices[i].handle) =>
         \E n \in DOMAIN kept : kept[n] = slices[i]
  <2>1. ASSUME NEW i \in DOMAIN slices, ~IsFree(slices[i].handle)
        PROVE  \E n \in DOMAIN kept : kept[n] = slices[i]
    <3>1. i \in I
      BY <2>1 DEF Heads
    <3>2. i \notin Merges(slices)
      <4>1. SUFFICES ASSUME i \in Merges(slices) PROVE FALSE
        OBVIOUS
      <4>2. last(i) > i
        BY <4>1 DEF Merges, last
      <4>3. i + 1 \in (i + 1) .. last(i) /\ i + 1 \in DOMAIN slices /\ (i + 1) - 1 = i
        BY <1>2, <1>4, <4>2
      <4>4. i + 1 \notin I
        BY <1>4, <4>3
      <4>5. IsFree(slices[i].handle)
        BY <4>3, <4>4 DEF Heads
      <4> QED BY <2>1, <4>5
    <3>3. list[i] = slices[i]
      BY <1>6, <3>2
    <3>4. /\ DOMAIN kept = 1 .. Cardinality(I)
          /\ \A n \in 1 .. Cardinality(I) : kept[n] = list[InOrder(I)[n]]
          /\ \A k \in I : \E n \in 1 .. Cardinality(I) : InOrder(I)[n] = k
      <4> HIDE DEF I
      <4> QED BY <1>8, <1>14, KeptForms
    <3> HIDE DEF I, kept
    <3> QED BY <3>1, <3>3, <3>4
  <2> QED BY <2>1
<1> QED BY <1>1, <1>15, <1>16, <1>17

LEMMA InsertForms ==
  ASSUME NEW T, NEW s \in Seq(T), NEW e \in T, NEW i \in 1 .. (Len(s) + 1)
  PROVE  /\ InsertAt(s, i, e) \in Seq(T)
         /\ Len(s) \in Nat
         /\ DOMAIN InsertAt(s, i, e) = 1 .. (Len(s) + 1)
         /\ \A k \in 1 .. (i - 1) : InsertAt(s, i, e)[k] = s[k]
         /\ InsertAt(s, i, e)[i] = e
         /\ \A k \in (i + 1) .. (Len(s) + 1) : InsertAt(s, i, e)[k] = s[k - 1]
<1> DEFINE front == SubSeq(s, 1, i - 1)
           back == SubSeq(s, i, Len(s))
<1>1. Len(s) \in Nat /\ i \in Nat /\ 1 <= i /\ i <= Len(s) + 1
  BY LenProperties
<1>2. /\ front \in Seq(T)
      /\ Len(front) = i - 1
      /\ \A k \in 1 .. (i - 1) : front[k] = s[k]
  <2>1. 1 \in 1 .. (Len(s) + 1) /\ i - 1 \in (1 - 1) .. Len(s)
    BY <1>1
  <2> HIDE DEF front
  <2> QED BY <1>1, <2>1, SubSeqProperties DEF front
<1>3. /\ back \in Seq(T)
      /\ Len(back) = Len(s) - i + 1
      /\ \A k \in 1 .. (Len(s) - i + 1) : back[k] = s[i + k - 1]
  <2>1. i \in 1 .. (Len(s) + 1) /\ Len(s) \in (i - 1) .. Len(s)
    BY <1>1
  <2> HIDE DEF back
  <2> QED BY <1>1, <2>1, SubSeqProperties DEF back
<1> HIDE DEF front, back
<1>4. << e >> \in Seq(T) /\ Len(<< e >>) = 1 /\ << e >>[1] = e
  OBVIOUS
<1> DEFINE left == front \o << e >>
<1>5. /\ left \in Seq(T)
      /\ Len(left) = i
      /\ \A k \in 1 .. (i - 1) : left[k] = s[k]
      /\ left[i] = e
  <2>1. /\ left \in Seq(T)
        /\ Len(left) = Len(front) + Len(<< e >>)
        /\ \A k \in 1 .. Len(front) + Len(<< e >>) :
             left[k] = IF k <= Len(front) THEN front[k] ELSE << e >>[k - Len(front)]
    BY <1>2, <1>4, ConcatProperties
  <2> HIDE DEF left
  <2>2. Len(left) = i
    BY <1>1, <1>2, <1>4, <2>1
  <2>3. \A k \in 1 .. (i - 1) : left[k] = s[k]
    BY <1>1, <1>2, <2>1, <2>2
  <2>4. left[i] = << e >>[1]
    BY <1>1, <1>2, <2>1, <2>2
  <2> QED BY <1>4, <2>1, <2>2, <2>3, <2>4
<1> HIDE DEF left
<1> DEFINE all == left \o back
<1>6. InsertAt(s, i, e) = all
  BY DEF InsertAt, left, front, back
<1>7. /\ all \in Seq(T)
      /\ Len(all) = Len(left) + Len(back)
      /\ \A k \in 1 .. Len(left) + Len(back) :
           all[k] = IF k <= Len(left) THEN left[k] ELSE back[k - Len(left)]
  BY <1>3, <1>5, ConcatProperties
<1> HIDE DEF all
<1>8. Len(all) = Len(s) + 1
  BY <1>1, <1>3, <1>5, <1>7
<1>9. DOMAIN all = 1 .. (Len(s) + 1)
  BY <1>7, <1>8, LenProperties
<1>10. \A k \in 1 .. (i - 1) : all[k] = s[k]
  BY <1>1, <1>5, <1>7, <1>8
<1>11. all[i] = e
  BY <1>1, <1>5, <1>7, <1>8
<1>12. ASSUME NEW k \in (i + 1) .. (Len(s) + 1) PROVE all[k] = s[k - 1]
  <2>1. k \in 1 .. Len(all) /\ ~(k <= i) /\ k - i \in 1 .. (Len(s) - i + 1)
    BY <1>1, <1>8
  <2>2. all[k] = back[k - i]
    BY <1>5, <1>7, <2>1
  <2>3. back[k - i] = s[i + (k - i) - 1]
    BY <1>3, <2>1
  <2>4. i + (k - i) - 1 = k - 1
    BY <1>1
  <2> QED BY <2>2, <2>3, <2>4
<1> QED BY <1>1, <1>6, <1>7, <1>9, <1>10, <1>11, <1>12

\* What try_reserve() makes of the slices of a page: they still follow each
\* other, one is taken, one may be new, the others are what they were.
LEMMA Reserves ==
  ASSUME NEW slices \in Seq(Slice), LaidOut(slices), Distinct(slices),
         NEW i \in DOMAIN slices, NEW size \in Nat \ {0},
         slices[i].size >= size + CalculatePadding(size),
         NEW d \in Descriptors, ~Has(slices, d)
  PROVE  /\ Reserved(slices, size, i, d) \in Seq(Slice)
         /\ LaidOut(Reserved(slices, size, i, d))
         /\ Distinct(Reserved(slices, size, i, d))
         /\ \A n \in DOMAIN Reserved(slices, size, i, d) :
              \/ \E j \in DOMAIN slices : j # i /\ Reserved(slices, size, i, d)[n] = slices[j]
              \/ Reserved(slices, size, i, d)[n] = Taken(slices[i], size)
              \/ Reserved(slices, size, i, d)[n].handle = d
         /\ \A j \in DOMAIN slices : j # i =>
              \E n \in DOMAIN Reserved(slices, size, i, d) :
                Reserved(slices, size, i, d)[n] = slices[j]
         /\ \E n \in DOMAIN Reserved(slices, size, i, d) :
              Reserved(slices, size, i, d)[n] = Taken(slices[i], size)
<1> DEFINE used == size + CalculatePadding(size)
           s == slices[i]
           t == Taken(s, size)
           taken == [slices EXCEPT ![i] = t]
           rest == NewSlice(s.offset + used, s.size - used, d)
<1>1. CalculatePadding(size) \in Nat
  BY PoolAssumption, PaddingForms DEF CalculatePadding
<1>2. used \in Nat /\ used > 0 /\ used >= size
  BY <1>1
<1>3. /\ Len(slices) \in Nat
      /\ DOMAIN slices = 1 .. Len(slices)
      /\ \A j \in DOMAIN slices : slices[j] \in Slice
      /\ s \in Slice
  BY SliceForms
<1>4. /\ s.offset \in Nat /\ s.size \in Nat /\ EffectiveSize(s) \in Nat
      /\ EffectiveSize(s) >= s.size /\ End(s) = s.offset + EffectiveSize(s)
      /\ End(s) \in Nat
  BY <1>3, SliceEnds
<1>5. /\ t \in Slice
      /\ t.offset = s.offset /\ t.size = size /\ t.padding = CalculatePadding(size)
      /\ t.handle = s.handle
  BY <1>1, <1>3 DEF Taken, Slice
<1>6. End(t) = s.offset + used
  BY <1>5 DEF End, EffectiveSize
<1>7. s.size >= used
  OBVIOUS
<1> HIDE DEF used
<1>8. End(t) <= End(s) /\ End(t) \in Nat
  BY <1>2, <1>4, <1>6, <1>7
<1> HIDE DEF t
<1>9. /\ taken \in Seq(Slice)
      /\ DOMAIN taken = DOMAIN slices
      /\ Len(taken) = Len(slices)
      /\ taken[i] = t
      /\ \A j \in DOMAIN slices : j # i => taken[j] = slices[j]
  BY <1>3, <1>5, ExceptSeq
<1> HIDE DEF taken
<1>10. \A j \in DOMAIN slices : /\ taken[j].offset = slices[j].offset
                                /\ taken[j].handle = slices[j].handle
                                /\ taken[j].size > 0
                                /\ End(taken[j]) <= End(slices[j])
                                /\ End(taken[j]) \in Nat
  <2>1. TAKE j \in DOMAIN slices
  <2>2. CASE j = i
    BY <1>5, <1>8, <1>9, <2>2
  <2>3. CASE j # i
    <3>1. taken[j] = slices[j]
      BY <1>9, <2>3
    <3>2. slices[j].size > 0
      BY DEF LaidOut
    <3>3. End(slices[j]) \in Nat
      BY <1>3, SliceEnds
    <3> QED BY <3>1, <3>2, <3>3
  <2> QED BY <2>2, <2>3
<1>11. PageSize \in Nat /\ \A j \in DOMAIN slices : End(slices[j]) \in Nat /\ slices[j].offset \in Nat
  BY <1>3, PoolAssumption, SliceEnds
<1>12. LaidOut(taken)
  <2>1. ASSUME NEW j \in DOMAIN slices PROVE taken[j].size > 0 /\ End(taken[j]) <= PageSize
    <3>1. End(slices[j]) <= PageSize
      BY DEF LaidOut
    <3> QED BY <1>10, <1>11, <3>1
  <2>2. ASSUME NEW j \in DOMAIN slices, NEW k \in DOMAIN slices, j < k
        PROVE  End(taken[j]) <= taken[k].offset
    <3>1. End(slices[j]) <= slices[k].offset
      BY <2>2 DEF LaidOut
    <3>2. End(taken[j]) <= End(slices[j]) /\ taken[k].offset = slices[k].offset
          /\ End(taken[j]) \in Nat
      BY <1>10
    <3> QED BY <1>11, <3>1, <3>2
  <2> QED BY <1>9, <2>1, <2>2 DEF LaidOut
<1>13. Distinct(taken)
  BY <1>9, <1>10 DEF Distinct
<1>14. CASE s.size = used
  <2>1. Reserved(slices, size, i, d) = taken
    BY <1>14 DEF Reserved, used, t, taken
  <2>2. \A n \in DOMAIN taken :
          \/ \E j \in DOMAIN slices : j # i /\ taken[n] = slices[j]
          \/ taken[n] = t
    BY <1>9
  <2>3. \A j \in DOMAIN slices : j # i => \E n \in DOMAIN taken : taken[n] = slices[j]
    BY <1>9
  <2>4. \E n \in DOMAIN taken : taken[n] = t
    BY <1>9
  <2> QED BY <1>9, <1>12, <1>13, <2>1, <2>2, <2>3, <2>4 DEF t
<1>15. CASE s.size # used
  <2> DEFINE all == InsertAt(taken, i + 1, rest)
  <2>1. Reserved(slices, size, i, d) = all
    BY <1>15 DEF Reserved, used, t, taken
  <2>2. s.offset + used \in Nat /\ s.size - used \in Nat /\ s.size - used > 0
    BY <1>2, <1>4, <1>7, <1>15, SMTT(30)
  <2>3. /\ rest \in Slice
        /\ rest.offset = s.offset + used /\ rest.size = s.size - used
        /\ rest.padding = 0 /\ rest.handle = d
    BY <2>2 DEF NewSlice, Slice
  <2>4. End(rest) = (s.offset + used) + ((s.size - used) + 0)
    BY <2>3 DEF End, EffectiveSize
  <2>5. End(rest) <= End(s) /\ End(rest) \in Nat
    <3>1. \A a, b, c, e \in Nat : c <= b /\ b <= e => (a + c) + ((b - c) + 0) <= a + e
      OBVIOUS
    <3>2. \A a, b \in Nat : a + (b + 0) \in Nat
      OBVIOUS
    <3> HIDE DEF s, rest
    <3>3. (s.offset + used) + ((s.size - used) + 0) <= s.offset + EffectiveSize(s)
      BY <1>2, <1>4, <1>7, <3>1
    <3> QED BY <1>4, <2>2, <2>4, <3>2, <3>3
  <2> HIDE DEF rest
  <2>6. i + 1 \in 1 .. (Len(taken) + 1)
    BY <1>3, <1>9
  <2>7. /\ all \in Seq(Slice)
        /\ DOMAIN all = 1 .. (Len(slices) + 1)
        /\ \A k \in 1 .. i : all[k] = taken[k]
        /\ all[i + 1] = rest
        /\ \A k \in (i + 2) .. (Len(slices) + 1) : all[k] = taken[k - 1]
    <3>1. PICK b \in 1 .. (Len(taken) + 1) : b = i + 1
      BY <2>6
    <3>2. /\ InsertAt(taken, b, rest) \in Seq(Slice)
          /\ DOMAIN InsertAt(taken, b, rest) = 1 .. (Len(taken) + 1)
          /\ \A k \in 1 .. (b - 1) : InsertAt(taken, b, rest)[k] = taken[k]
          /\ InsertAt(taken, b, rest)[b] = rest
          /\ \A k \in (b + 1) .. (Len(taken) + 1) : InsertAt(taken, b, rest)[k] = taken[k - 1]
      <4>1. taken \in Seq(Slice) /\ rest \in Slice
        BY <1>9, <2>3
      <4> HIDE DEF all, s
      <4> QED BY <4>1, InsertForms
    <3>3. InsertAt(taken, b, rest) = all
      BY <3>1
    <3>4. b - 1 = i /\ b + 1 = i + 2
      BY <1>3, <3>1
    <3> HIDE DEF all
    <3> QED BY <1>9, <3>1, <3>2, <3>3, <3>4
  <2> HIDE DEF all
  <2> DEFINE old(k) == IF k <= i THEN k ELSE k - 1
  <2>8. \A k \in DOMAIN all : k # i + 1 => old(k) \in DOMAIN slices /\ all[k] = taken[old(k)]
    <3>1. ASSUME NEW k \in DOMAIN all, k # i + 1
          PROVE  old(k) \in DOMAIN slices /\ all[k] = taken[old(k)]
      <4>1. CASE k <= i
        <5>1. k \in 1 .. i /\ k \in DOMAIN slices
          BY <1>3, <2>7, <4>1
        <5> QED BY <2>7, <4>1, <5>1
      <4>2. CASE ~(k <= i)
        <5>1. k \in (i + 2) .. (Len(slices) + 1) /\ k - 1 \in DOMAIN slices
          BY <1>3, <2>7, <3>1, <4>2
        <5> QED BY <2>7, <4>2, <5>1
      <4> QED BY <4>1, <4>2
    <3> QED BY <3>1
  <2>9. \A j, k \in DOMAIN all : j # i + 1 /\ k # i + 1 /\ j < k => old(j) < old(k)
    BY <1>3, <2>7
  <2>10. /\ \A k \in DOMAIN all : k < i + 1 => old(k) <= i
         /\ \A k \in DOMAIN all : i + 1 < k => i < old(k)
    BY <1>3, <2>7
  <2>11. \A j, k \in DOMAIN all : j # i + 1 /\ k # i + 1 /\ old(j) = old(k) => j = k
    BY <1>3, <2>7
  <2> HIDE DEF old
  <2>12. /\ \A j \in DOMAIN slices : taken[j].size > 0 /\ End(taken[j]) <= PageSize
         /\ \A j, k \in DOMAIN slices : j < k => End(taken[j]) <= taken[k].offset
    BY <1>9, <1>12 DEF LaidOut
  <2>13. LaidOut(all)
    <3>1. ASSUME NEW k \in DOMAIN all PROVE all[k].size > 0 /\ End(all[k]) <= PageSize
      <4>1. CASE k = i + 1
        <5>1. End(s) <= PageSize
          BY DEF LaidOut
        <5> QED BY <1>4, <1>11, <2>2, <2>3, <2>5, <2>7, <4>1, <5>1, SMTT(30)
      <4>2. CASE k # i + 1
        BY <2>8, <2>12, <4>2
      <4> QED BY <4>1, <4>2
    <3>2. ASSUME NEW j \in DOMAIN all, NEW k \in DOMAIN all, j < k
          PROVE  End(all[j]) <= all[k].offset
      <4>1. CASE j = i + 1
        <5>1. k # i + 1 /\ i < old(k)
          BY <1>3, <2>7, <2>10, <3>2, <4>1
        <5>2. old(k) \in DOMAIN slices /\ all[k] = taken[old(k)]
          BY <2>8, <5>1
        <5>3. End(s) <= slices[old(k)].offset
          BY <5>1, <5>2 DEF LaidOut
        <5>4. all[k].offset = slices[old(k)].offset /\ slices[old(k)].offset \in Nat
          BY <1>10, <1>11, <5>2
        <5>5. all[j] = rest
          BY <2>7, <4>1
        <5> QED BY <1>4, <2>5, <5>3, <5>4, <5>5
      <4>2. CASE k = i + 1
        <5>1. j # i + 1 /\ old(j) <= i
          BY <1>3, <2>7, <2>10, <3>2, <4>2
        <5>2. old(j) \in DOMAIN slices /\ all[j] = taken[old(j)]
          BY <2>8, <5>1
        <5>3. all[k].offset = s.offset + used /\ s.offset + used \in Nat
          BY <2>2, <2>3, <2>7, <4>2
        <5>4. CASE old(j) = i
          BY <1>6, <1>9, <5>2, <5>3, <5>4, <1>8
        <5>5. CASE old(j) # i
          <6>1. old(j) < i
            BY <1>3, <5>1, <5>2, <5>5
          <6>2. End(taken[old(j)]) <= taken[i].offset
            BY <2>12, <5>2, <6>1
          <6>3. taken[i].offset = s.offset /\ End(taken[old(j)]) \in Nat
            BY <1>10, <5>2
          <6> QED BY <1>2, <1>4, <5>2, <5>3, <6>2, <6>3
        <5> QED BY <5>4, <5>5
      <4>3. CASE j # i + 1 /\ k # i + 1
        BY <2>8, <2>9, <2>12, <3>2, <4>3
      <4> QED BY <4>1, <4>2, <4>3
    <3> QED BY <3>1, <3>2 DEF LaidOut
  <2>14. \A j \in DOMAIN slices : taken[j].handle # d
    BY <1>10 DEF Has
  <2>15. Distinct(all)
    <3>1. ASSUME NEW j \in DOMAIN all, NEW k \in DOMAIN all, all[j].handle = all[k].handle
          PROVE  j = k
      <4>1. CASE j # i + 1 /\ k # i + 1
        <5>1. old(j) = old(k)
          BY <1>9, <1>13, <2>8, <3>1, <4>1 DEF Distinct
        <5> QED BY <2>11, <4>1, <5>1
      <4>2. CASE j = i + 1 /\ k # i + 1
        BY <2>3, <2>7, <2>8, <2>14, <3>1, <4>2
      <4>3. CASE j # i + 1 /\ k = i + 1
        BY <2>3, <2>7, <2>8, <2>14, <3>1, <4>3
      <4> QED BY <4>1, <4>2, <4>3
    <3> QED BY <3>1 DEF Distinct
  <2>16. ASSUME NEW n \in DOMAIN all
         PROVE  \/ \E j \in DOMAIN slices : j # i /\ all[n] = slices[j]
                \/ all[n] = t
                \/ all[n].handle = d
    <3>1. CASE n = i + 1
      BY <2>3, <2>7, <3>1
    <3>2. CASE n # i + 1
      BY <1>9, <2>8, <3>2
    <3> QED BY <3>1, <3>2
  <2>17. ASSUME NEW j \in DOMAIN slices PROVE \E n \in DOMAIN all : all[n] = taken[j]
    <3>1. CASE j <= i
      <4>1. j \in 1 .. i /\ j \in DOMAIN all
        BY <1>3, <2>7, <3>1
      <4> QED BY <2>7, <4>1
    <3>2. CASE ~(j <= i)
      <4>1. j + 1 \in (i + 2) .. (Len(slices) + 1) /\ j + 1 \in DOMAIN all /\ (j + 1) - 1 = j
        BY <1>3, <2>7, <3>2
      <4> QED BY <2>7, <4>1
    <3> QED BY <3>1, <3>2
  <2>18. \A j \in DOMAIN slices : j # i => \E n \in DOMAIN all : all[n] = slices[j]
    BY <1>9, <2>17
  <2>19. \E n \in DOMAIN all : all[n] = t
    BY <1>9, <2>17
  <2> QED BY <2>1, <2>7, <2>13, <2>15, <2>16, <2>18, <2>19 DEF t
<1> QED BY <1>14, <1>15

-----------------------------------------------------------------------------
(* The pages together *)

LEMMA LocatedType ==
  ASSUME TypeOK, NEW page \in Page, NEW slices \in Seq(Slice)
  PROVE  Located(page, slices) \in [Descriptors -> [page: Nat \cup {-1}, slice: Nat]]
<1>1. Len(slices) \in Nat /\ DOMAIN slices = 1 .. Len(slices)
  BY SliceForms
<1>2. ASSUME NEW d \in Descriptors, Has(slices, d)
      PROVE  (CHOOSE i \in DOMAIN slices : slices[i].handle = d) \in Nat
  <2>1. (CHOOSE i \in DOMAIN slices : slices[i].handle = d) \in DOMAIN slices
    BY <1>2 DEF Has
  <2> QED BY <1>1, <2>1
<1>3. page.base \in Nat
  BY DEF Page
<1>4. \A d \in Descriptors : location[d] \in [page: Nat \cup {-1}, slice: Nat]
  BY DEF TypeOK
<1>5. \A d \in Descriptors : location[d].page \in Nat \cup {-1}
  BY <1>4
<1>6. Uninit \in [page: Nat \cup {-1}, slice: Nat]
  BY DEF Uninit
<1>7. ASSUME NEW d \in Descriptors
      PROVE  Located(page, slices)[d] \in [page: Nat \cup {-1}, slice: Nat]
  <2>1. CASE Has(slices, d)
    <3>1. Located(page, slices)[d] =
            [page |-> IF Has(page.slices, d) THEN location[d].page ELSE page.base,
             slice |-> CHOOSE i \in DOMAIN slices : slices[i].handle = d]
      BY <2>1 DEF Located
    <3>2. (IF Has(page.slices, d) THEN location[d].page ELSE page.base) \in Nat \cup {-1}
      BY <1>3, <1>5
    <3> QED BY <1>2, <2>1, <3>1, <3>2
  <2>2. CASE ~Has(slices, d)
    <3>1. Located(page, slices)[d] = Uninit \/ Located(page, slices)[d] = location[d]
      BY <2>2 DEF Located
    <3> QED BY <1>4, <1>6, <3>1
  <2> QED BY <2>1, <2>2
<1> QED BY <1>7 DEF Located

\* A page gets new slices, whose descriptors were of that page or of none.
LEMMA Rebuilt ==
  ASSUME ViewInv, NEW p \in Numbers, NEW slices \in Seq(Slice),
         LaidOut(slices), Distinct(slices),
         \A i \in DOMAIN slices :
           Has(At(p).slices, slices[i].handle) \/ ~Known(slices[i].handle),
         Numbers' = Numbers,
         \A n \in Numbers : n # p => At(n)' = At(n),
         At(p)' = [At(p) EXCEPT !.slices = slices],
         location' = Located(At(p), slices),
         storages' = storages
  PROVE  Arranged'
<1> DEFINE old == At(p).slices
<1>1. TypeOK /\ InLoop /\ Arranged
  BY DEF ViewInv
<1>2. /\ At(p) \in Page
      /\ p \in Nat \ {0}
  BY <1>1, Numbering
<1>3. /\ At(p)'.slices = slices
      /\ At(p)'.storage = At(p).storage
      /\ At(p)'.base = At(p).base
  BY <1>2 DEF Page
<1>4. /\ \A n \in Numbers : n # p => At(n)'.slices = At(n).slices
      /\ \A n \in Numbers : At(n)'.storage = At(n).storage
  BY <1>3
<1>5. \A d \in Descriptors :
        /\ Has(slices, d) => location'[d] =
             [page |-> IF Has(old, d) THEN location[d].page ELSE At(p).base,
              slice |-> CHOOSE i \in DOMAIN slices : slices[i].handle = d]
        /\ ~Has(slices, d) /\ Has(old, d) => location'[d] = Uninit
        /\ ~Has(slices, d) /\ ~Has(old, d) => location'[d] = location[d]
  BY DEF Located
<1>6. At(p).base = p - 1 /\ \A d : Has(old, d) => location[d].page = p - 1
  <2>1. Numbered(At(p), p)
    BY <1>1 DEF Arranged
  <2>2. At(p).base = p - 1
    BY <2>1 DEF Numbered
  <2>3. ASSUME NEW d, Has(old, d) PROVE location[d].page = p - 1
    <3>1. PICK i \in DOMAIN old : old[i].handle = d
      BY <2>3 DEF Has
    <3>2. location[d] = [page |-> p - 1, slice |-> i]
      BY <2>1, <3>1 DEF Numbered
    <3> QED BY <3>2
  <2> QED BY <2>2, <2>3
<1>7. \A i \in DOMAIN slices : slices[i].handle \in Descriptors
  BY SliceForms
<1>8. ASSUME NEW i \in DOMAIN slices
      PROVE  location'[slices[i].handle] = [page |-> p - 1, slice |-> i]
  <2>1. Has(slices, slices[i].handle)
    BY DEF Has
  <2>2. (CHOOSE k \in DOMAIN slices : slices[k].handle = slices[i].handle) = i
    BY DEF Distinct
  <2>3. location'[slices[i].handle] =
          [page |-> IF Has(old, slices[i].handle) THEN location[slices[i].handle].page
                    ELSE At(p).base,
           slice |-> i]
    BY <1>5, <1>7, <2>1, <2>2
  <2>4. CASE Has(old, slices[i].handle)
    BY <1>6, <2>3, <2>4
  <2>5. CASE ~Has(old, slices[i].handle)
    BY <1>6, <2>3, <2>5
  <2> QED BY <2>4, <2>5
<1>9. ASSUME NEW n \in Numbers, n # p, NEW d \in Descriptors, Has(At(n).slices, d)
      PROVE  location'[d] = location[d]
  <2>1. ~Has(old, d)
    BY <1>9, Apart
  <2>2. Known(d)
    BY <1>9 DEF Known
  <2>3. ~Has(slices, d)
    BY <2>1, <2>2 DEF Has
  <2> QED BY <1>5, <2>1, <2>3
<1>10. ASSUME NEW n \in Numbers' PROVE (Numbered(At(n), n) /\ LaidOut(At(n).slices))'
  <2>1. CASE n = p
    <3>1. Numbered(At(n), n)'
      BY <1>3, <1>6, <1>8, <2>1 DEF Numbered
    <3>2. LaidOut(At(n).slices)'
      BY <1>3, <2>1 DEF LaidOut
    <3> QED BY <3>1, <3>2
  <2>2. CASE n # p
    <3>1. n \in Numbers /\ At(n)' = At(n) /\ At(n) \in Page
      BY <1>1, <2>2, Numbering
    <3>2. Numbered(At(n), n) /\ LaidOut(At(n).slices)
      BY <1>1, <3>1 DEF Arranged
    <3>3. ASSUME NEW i \in DOMAIN At(n).slices
          PROVE  location'[At(n).slices[i].handle] = [page |-> n - 1, slice |-> i]
      <4>1. At(n).slices[i].handle \in Descriptors
        BY <3>1, PageForms, SliceForms
      <4>2. Has(At(n).slices, At(n).slices[i].handle)
        BY DEF Has
      <4>3. location[At(n).slices[i].handle] = [page |-> n - 1, slice |-> i]
        BY <3>2 DEF Numbered
      <4> QED BY <1>9, <2>2, <3>1, <4>1, <4>2, <4>3
    <3>4. Numbered(At(n), n)'
      BY <3>1, <3>2, <3>3 DEF Numbered
    <3>5. LaidOut(At(n).slices)'
      BY <3>1, <3>2 DEF LaidOut
    <3> QED BY <3>4, <3>5
  <2> QED BY <2>1, <2>2
<1>11. ASSUME NEW d \in Descriptors, ~Known(d)' PROVE location'[d] = Uninit
  <2>1. \A n \in Numbers : ~Has(At(n)'.slices, d)
    BY <1>11 DEF Known, Has
  <2>2. ~Has(slices, d)
    BY <1>3, <2>1
  <2>3. CASE Has(old, d)
    BY <1>5, <2>2, <2>3
  <2>4. CASE ~Has(old, d)
    <3>1. ~Known(d)
      BY <1>4, <2>1, <2>4 DEF Known
    <3>2. location[d] = Uninit
      BY <1>1, <3>1 DEF Arranged
    <3> QED BY <1>5, <2>2, <2>4, <3>2
  <2> QED BY <2>3, <2>4
<1>12. ASSUME NEW s PROVE s \in storages' <=> \E n \in Numbers' : s = At(n)'.storage
  BY <1>1, <1>4 DEF Arranged
<1>13. ASSUME NEW m \in Numbers', NEW n \in Numbers', At(m)'.storage = At(n)'.storage
       PROVE  m = n
  <2>1. m \in Numbers /\ n \in Numbers /\ At(m).storage = At(n).storage
    BY <1>4, <1>13
  <2> QED BY <1>1, <2>1 DEF Arranged
<1> QED BY <1>10, <1>11, <1>12, <1>13 DEF Arranged

\* The pages stay as they are, and every descriptor where it is.
LEMMA Undisturbed ==
  ASSUME ViewInv, Numbers' = Numbers, \A n \in Numbers : At(n)' = At(n),
         location' = location, storages' = storages
  PROVE  Arranged'
<1>1. \A n \in Numbers : Numbered(At(n), n)' /\ LaidOut(At(n).slices)'
  BY DEF ViewInv, Arranged, Numbered, LaidOut
<1>2. \A d \in Descriptors : Known(d)' <=> Known(d)
  BY DEF Known, Has
<1> QED BY <1>1, <1>2 DEF ViewInv, Arranged

-----------------------------------------------------------------------------
(* What is in use: the slices of the pool with a handle that is held, each with *)
(* the buffer it is in.                                                         *)

Lives(x) ==
  \E n \in Numbers : \E i \in DOMAIN At(n).slices :
    x = << At(n).storage, At(n).slices[i] >> /\ At(n).slices[i].handle \in held

\* What a step does to the slices in use: nothing; one more; one fewer; or one
\* becomes another.
SameLives == \A x : Lives(x)' <=> Lives(x)

MoreLives(y) == \A x : Lives(x)' <=> Lives(x) \/ x = y

FewerLives(d) == \A x : Lives(x)' <=> Lives(x) /\ x[2].handle # d

OtherLives(d, y) == \A x : Lives(x)' <=> (Lives(x) /\ x[2].handle # d) \/ x = y

LEMMA UndisturbedLives ==
  ASSUME Numbers' = Numbers, \A n \in Numbers : At(n)' = At(n), held' = held
  PROVE  SameLives
BY DEF SameLives, Lives

\* One page changes, and the handles of the others are held as before.
LEMMA OthersLive ==
  ASSUME NEW p \in Numbers, Numbers' = Numbers,
         \A n \in Numbers : n # p => At(n)' = At(n),
         At(p)'.storage = At(p).storage,
         \A n \in Numbers : n # p => \A i \in DOMAIN At(n).slices :
           At(n).slices[i].handle \in held' <=> At(n).slices[i].handle \in held
  PROVE  \A x :
           /\ Lives(x) => \/ Lives(x)'
                          \/ \E i \in DOMAIN At(p).slices :
                               /\ x = << At(p).storage, At(p).slices[i] >>
                               /\ At(p).slices[i].handle \in held
           /\ Lives(x)' => \/ Lives(x)
                           \/ \E i \in DOMAIN At(p)'.slices :
                                /\ x = << At(p).storage, At(p)'.slices[i] >>
                                /\ At(p)'.slices[i].handle \in held'
<1>1. TAKE x
<1>2. ASSUME Lives(x)
      PROVE  \/ Lives(x)'
             \/ \E i \in DOMAIN At(p).slices : /\ x = << At(p).storage, At(p).slices[i] >>
                                               /\ At(p).slices[i].handle \in held
  <2>1. PICK n \in Numbers : \E i \in DOMAIN At(n).slices :
          x = << At(n).storage, At(n).slices[i] >> /\ At(n).slices[i].handle \in held
    BY <1>2 DEF Lives
  <2>2. CASE n = p
    BY <2>1, <2>2
  <2>3. CASE n # p
    <3>1. At(n)' = At(n)
      BY <2>3
    <3>2. \E i \in DOMAIN At(n)'.slices :
            x = << At(n)'.storage, At(n)'.slices[i] >> /\ At(n)'.slices[i].handle \in held'
      BY <2>1, <2>3, <3>1
    <3> QED BY <3>2 DEF Lives
  <2> QED BY <2>2, <2>3
<1>3. ASSUME Lives(x)'
      PROVE  \/ Lives(x)
             \/ \E i \in DOMAIN At(p)'.slices : /\ x = << At(p).storage, At(p)'.slices[i] >>
                                                /\ At(p)'.slices[i].handle \in held'
  <2>1. PICK n \in Numbers : \E i \in DOMAIN At(n)'.slices :
          x = << At(n)'.storage, At(n)'.slices[i] >> /\ At(n)'.slices[i].handle \in held'
    BY <1>3 DEF Lives
  <2>2. CASE n = p
    BY <2>1, <2>2
  <2>3. CASE n # p
    <3>1. At(n)' = At(n)
      BY <2>3
    <3>2. \E i \in DOMAIN At(n).slices :
            x = << At(n).storage, At(n).slices[i] >> /\ At(n).slices[i].handle \in held
      BY <2>1, <2>3, <3>1
    <3> QED BY <3>2 DEF Lives
  <2> QED BY <2>2, <2>3
<1> QED BY <1>2, <1>3

-----------------------------------------------------------------------------
(* The steps *)

LEMMA InitInv ==
  ASSUME Init
  PROVE  ViewInv
<1>1. pages = << >> /\ pagesTmp = << >> /\ pages \in Seq(Page) /\ pagesTmp \in Seq(Page)
  BY DEF Init
<1>2. Len(pages) = 0 /\ DOMAIN pages = {} /\ DOMAIN pagesTmp = {}
  BY <1>1
<1>3. TypeOK
  <2>1. location \in [Descriptors -> [page: Nat \cup {-1}, slice: Nat]]
    BY DEF Init, Uninit
  <2>2. index \in 1 .. (Len(pages) + 1)
    BY <1>2 DEF Init
  <2>3. held \subseteq Descriptors /\ storages \subseteq Storages /\ request \in Nat
        /\ panicked \in BOOLEAN
    BY DEF Init
  <2>4. pc \in {"idle", "coalesce", "try", "alloc", "cleanup", "summary"}
    BY DEF Init
  <2> QED BY <1>1, <2>1, <2>2, <2>3, <2>4 DEF TypeOK
<1>4. InLoop
  BY <1>1 DEF Init, InLoop
<1>5. Numbers = {}
  BY <1>2 DEF Init, Numbers, RestPages
<1>6. Arranged
  BY <1>5 DEF Init, Arranged
<1> QED BY <1>3, <1>4, <1>6 DEF Init, ViewInv, AllocFits

LEMMA NewHandleInv ==
  ASSUME ViewInv, NEW d \in Descriptors, NewHandle(d)
  PROVE  ViewInv' /\ SameLives
<1>1. TypeOK' /\ InLoop' /\ AllocFits'
  BY DEF NewHandle, ViewInv, TypeOK, InLoop, AllocFits
<1>2. Numbers' = Numbers /\ \A n : At(n)' = At(n)
  BY DEF NewHandle, Numbers, RestPages, At
<1>3. Arranged'
  BY <1>2, Undisturbed DEF NewHandle
<1>4. SameLives
  <2>1. ~Known(d) /\ held' = held \cup {d}
    BY Numbering DEF NewHandle, Fresh, ViewInv
  <2>2. \A n \in Numbers : \A i \in DOMAIN At(n).slices :
          At(n).slices[i].handle \in held' <=> At(n).slices[i].handle \in held
    BY <2>1 DEF Known, Has
  <2> QED BY <1>2, <2>2 DEF SameLives, Lives
<1> QED BY <1>1, <1>3, <1>4 DEF ViewInv

\* A handle the pool does not know has never been placed.
LEMMA ReleaseInv ==
  ASSUME ViewInv, NEW d \in Descriptors, Release(d)
  PROVE  ViewInv' /\ FewerLives(d)
<1>1. location' = location
  <2>1. CASE InPool(d)
    BY <2>1 DEF Release
  <2>2. CASE ~InPool(d)
    <3>1. location[d] = Uninit /\ location \in [Descriptors -> [page: Nat \cup {-1}, slice: Nat]]
      BY <2>2, Numbering DEF ViewInv, Arranged, TypeOK
    <3> QED BY <2>2, <3>1 DEF Release
  <2> QED BY <2>1, <2>2
<1>2. TypeOK' /\ InLoop' /\ AllocFits'
  BY <1>1 DEF Release, ViewInv, TypeOK, InLoop, AllocFits
<1>3. Numbers' = Numbers /\ \A n : At(n)' = At(n)
  BY DEF Release, Numbers, RestPages, At
<1>4. Arranged'
  BY <1>1, <1>3, Undisturbed DEF Release
<1>5. FewerLives(d)
  <2>1. held' = held \ {d}
    BY DEF Release
  <2> QED BY <1>3, <2>1 DEF FewerLives, Lives
<1> QED BY <1>2, <1>4, <1>5 DEF ViewInv

LEMMA StartReserveInv ==
  ASSUME ViewInv, NEW size \in Sizes, StartReserve(size)
  PROVE  ViewInv' /\ SameLives
<1>1. TypeOK /\ InLoop
  BY DEF ViewInv
<1>2. Len(pages) \in Nat /\ DOMAIN pages = 1 .. Len(pages) /\ (pages # << >> => Len(pages) >= 1)
  BY <1>1, VectorForms DEF TypeOK
<1>3. size \in Nat
  BY PoolAssumption
<1>4. TypeOK'
  BY <1>1, <1>2, <1>3 DEF StartReserve, TypeOK
<1>5. InLoop'
  BY <1>1, <1>2 DEF StartReserve, InLoop, Accept
<1>6. Arranged' /\ SameLives
  BY Undisturbed, UndisturbedLives DEF StartReserve, Numbers, RestPages, At
<1> QED BY <1>4, <1>5, <1>6 DEF ViewInv, StartReserve, AllocFits

\* coalesce() on a page of the loop.
LEMMA CoalescePageInv ==
  ASSUME ViewInv, index \in RestPages, RestPages' = RestPages, CoalescePage
  PROVE  /\ Arranged'
         /\ pages' \in Seq(Page)
         /\ Len(pages') = Len(pages)
         /\ DOMAIN pages' = DOMAIN pages
         /\ location' \in [Descriptors -> [page: Nat \cup {-1}, slice: Nat]]
         /\ SameLives
<1>1. TypeOK /\ InLoop /\ Arranged
  BY DEF ViewInv
<1>2. PICK p \in RestPages : p = index
  OBVIOUS
<1>3. /\ p \in DOMAIN pages /\ p \notin DOMAIN pagesTmp /\ p \in Numbers /\ At(p) = pages[p]
      /\ pages[p] \in Page
  BY <1>1, Numbering, VectorForms DEF Numbers
<1>4. PICK new \in [Merges(pages[p].slices) -> {d \in Descriptors : Fresh(d)}] :
        /\ IsInjective(new)
        /\ pages' = [pages EXCEPT ![p].slices = Coalesced(pages[p].slices, new)]
        /\ location' = Located(pages[p], Coalesced(pages[p].slices, new))
  BY <1>2 DEF CoalescePage
<1>5. pagesTmp' = pagesTmp /\ storages' = storages
  BY DEF CoalescePage
<1>6. pages[p].slices \in Seq(Slice) /\ LaidOut(pages[p].slices) /\ Distinct(pages[p].slices)
  BY <1>1, <1>3, Apart DEF Arranged, Page
<1>7. /\ new \in [Merges(pages[p].slices) -> Descriptors]
      /\ \A i \in Merges(pages[p].slices) : ~Known(new[i])
  BY <1>1, <1>4, Numbering DEF Fresh
<1>8. \A i \in Merges(pages[p].slices) : ~Has(pages[p].slices, new[i])
  BY <1>3, <1>7 DEF Known
<1>9. PICK slices \in Seq(Slice) :
        /\ slices = Coalesced(pages[p].slices, new)
        /\ LaidOut(slices) /\ Distinct(slices)
        /\ \A n \in DOMAIN slices :
             \/ \E i \in DOMAIN pages[p].slices : slices[n] = pages[p].slices[i]
             \/ \E i \in Merges(pages[p].slices) : slices[n].handle = new[i]
        /\ \A i \in DOMAIN pages[p].slices : ~IsFree(pages[p].slices[i].handle) =>
             \E n \in DOMAIN slices : slices[n] = pages[p].slices[i]
  BY <1>4, <1>6, <1>7, <1>8, Coalesces
<1>10. \A n \in DOMAIN slices :
         Has(At(p).slices, slices[n].handle) \/ ~Known(slices[n].handle)
  BY <1>3, <1>7, <1>9 DEF Has
<1>11. [pages[p] EXCEPT !.slices = slices] \in Page
  BY <1>3 DEF Page
<1>12. pages' = [pages EXCEPT ![p] = [pages[p] EXCEPT !.slices = slices]]
  BY <1>3, <1>4, <1>9
<1>13. /\ pages' \in Seq(Page)
       /\ Len(pages') = Len(pages)
       /\ DOMAIN pages' = DOMAIN pages
       /\ pages'[p] = [pages[p] EXCEPT !.slices = slices]
       /\ \A q \in DOMAIN pages : q # p => pages'[q] = pages[q]
  BY <1>1, <1>3, <1>11, <1>12, ExceptSeq DEF TypeOK
<1>14. Numbers' = Numbers
  BY <1>5 DEF Numbers
<1>15. \A n \in Numbers : n # p => At(n)' = At(n)
  <2>1. ASSUME NEW n \in Numbers, n # p PROVE At(n)' = At(n)
    <3>1. CASE n \in DOMAIN pagesTmp
      BY <1>5, <3>1 DEF At
    <3>2. CASE n \notin DOMAIN pagesTmp
      <4>1. n \in DOMAIN pages
        BY <1>1, <3>2, VectorForms DEF Numbers
      <4> QED BY <1>5, <1>13, <2>1, <3>2, <4>1 DEF At
    <3> QED BY <3>1, <3>2
  <2> QED BY <2>1
<1>16. At(p)' = [At(p) EXCEPT !.slices = slices]
  BY <1>3, <1>5, <1>13 DEF At
<1>17. location' = Located(At(p), slices)
  BY <1>3, <1>4, <1>9
<1>18. Arranged'
  BY <1>3, <1>5, <1>9, <1>10, <1>14, <1>15, <1>16, <1>17, Rebuilt
<1>19. location' \in [Descriptors -> [page: Nat \cup {-1}, slice: Nat]]
  BY <1>1, <1>3, <1>17, LocatedType
<1>20. SameLives
  <2>1. At(p)'.slices = slices /\ At(p)'.storage = At(p).storage
    BY <1>3, <1>16 DEF Page
  <2>2. held' = held
    BY DEF CoalescePage
  <2>3. ASSUME NEW x, NEW i \in DOMAIN At(p).slices, At(p).slices[i].handle \in held,
               x = << At(p).storage, At(p).slices[i] >>
        PROVE  Lives(x)'
    <3>1. PICK k \in DOMAIN slices : slices[k] = At(p).slices[i]
      BY <1>3, <1>9, <2>3 DEF IsFree
    <3> QED BY <1>3, <1>14, <2>1, <2>2, <2>3, <3>1 DEF Lives
  <2>4. ASSUME NEW k \in DOMAIN slices, slices[k].handle \in held
        PROVE  Lives(<< At(p).storage, slices[k] >>)
    <3>1. \A i \in Merges(pages[p].slices) : new[i] \notin held
      BY <1>4 DEF Fresh
    <3>2. PICK i \in DOMAIN At(p).slices : At(p).slices[i] = slices[k]
      BY <1>3, <1>9, <2>4, <3>1
    <3> QED BY <1>3, <2>4, <3>2 DEF Lives
  <2>5. \A x :
          /\ Lives(x) => \/ Lives(x)'
                         \/ \E i \in DOMAIN At(p).slices :
                              /\ x = << At(p).storage, At(p).slices[i] >>
                              /\ At(p).slices[i].handle \in held
          /\ Lives(x)' => \/ Lives(x)
                          \/ \E i \in DOMAIN At(p)'.slices :
                               /\ x = << At(p).storage, At(p)'.slices[i] >>
                               /\ At(p)'.slices[i].handle \in held'
    BY <1>3, <1>14, <1>15, <2>1, <2>2, OthersLive
  <2> QED BY <2>1, <2>2, <2>3, <2>4, <2>5 DEF SameLives
<1> QED BY <1>13, <1>18, <1>19, <1>20

LEMMA CoalesceForReserveInv ==
  ASSUME ViewInv, CoalesceForReserve
  PROVE  ViewInv' /\ SameLives
<1>1. TypeOK /\ InLoop
  BY DEF ViewInv
<1>2. /\ pc = "coalesce" /\ pc' = "try" /\ CoalescePage /\ pagesTmp' = pagesTmp
      /\ held' = held /\ storages' = storages /\ request' = request /\ index' = index
      /\ panicked' = panicked
  BY DEF CoalesceForReserve, CoalescePage
<1>3. index \in RestPages
  BY <1>1, <1>2 DEF InLoop, RestPages
<1>4. DOMAIN pages' = DOMAIN pages
  BY <1>2 DEF CoalescePage
<1>5. RestPages' = RestPages
  BY <1>2, <1>4 DEF RestPages
<1>6. /\ Arranged' /\ SameLives
      /\ pages' \in Seq(Page)
      /\ Len(pages') = Len(pages)
      /\ location' \in [Descriptors -> [page: Nat \cup {-1}, slice: Nat]]
  BY <1>2, <1>3, <1>5, CoalescePageInv
<1>7. TypeOK' /\ InLoop' /\ AllocFits'
  BY <1>1, <1>2, <1>4, <1>6 DEF ViewInv, TypeOK, InLoop, Accept, AllocFits
<1> QED BY <1>6, <1>7 DEF ViewInv

LEMMA CoalesceForCleanupInv ==
  ASSUME ViewInv, CoalesceForCleanup
  PROVE  ViewInv' /\ SameLives
<1>1. TypeOK /\ InLoop
  BY DEF ViewInv
<1>2. /\ pc = "cleanup" /\ pc' = "summary" /\ CoalescePage /\ pagesTmp' = pagesTmp
      /\ held' = held /\ storages' = storages /\ request' = request /\ index' = index
      /\ panicked' = panicked /\ index <= Len(pages)
  BY DEF CoalesceForCleanup, CoalescePage
<1>3. index \in 1 .. Len(pages) /\ Len(pages) \in Nat /\ DOMAIN pages = 1 .. Len(pages)
  BY <1>1, <1>2, VectorForms
<1>4. index \in RestPages
  BY <1>2, <1>3 DEF RestPages
<1>5. DOMAIN pages' = DOMAIN pages /\ Len(pages') = Len(pages)
  <2>1. DOMAIN pages' = DOMAIN pages
    BY <1>2 DEF CoalescePage
  <2> QED BY <2>1
<1>6. RestPages' = RestPages
  BY <1>2, <1>5 DEF RestPages
<1>7. /\ Arranged' /\ SameLives
      /\ pages' \in Seq(Page)
      /\ location' \in [Descriptors -> [page: Nat \cup {-1}, slice: Nat]]
  BY <1>2, <1>4, <1>6, CoalescePageInv
<1>8. TypeOK' /\ InLoop' /\ AllocFits'
  BY <1>1, <1>2, <1>3, <1>5, <1>7 DEF ViewInv, TypeOK, InLoop, AllocFits
<1> QED BY <1>7, <1>8 DEF ViewInv

\* A size of a reserve in progress, and what is needed for it.
LEMMA RequestForms ==
  ASSUME ViewInv, pc \in {"coalesce", "try", "alloc"}
  PROVE  /\ request \in Nat \ {0}
         /\ CalculatePadding(request) \in Nat
         /\ PageSize \in Nat
         /\ request + CalculatePadding(request) <= PageSize
<1>1. request \in Sizes /\ Accept(request)
  BY DEF ViewInv, InLoop
<1>2. request \in Nat \ {0} /\ PageSize \in Nat /\ MaxAllocSize \in Nat
      /\ MaxAllocSize <= PageSize /\ PageSize % Alignment = 0 /\ Alignment \in Nat \ {0}
  BY <1>1, PoolAssumption
<1>3. request <= PageSize
  BY <1>1, <1>2 DEF Accept
<1>4. CalculatePadding(request) \in Nat
  BY <1>2, PaddingForms DEF CalculatePadding
<1>5. request + CalculatePadding(request) <= PageSize
  BY <1>2, <1>3, PaddedFits DEF CalculatePadding
<1> QED BY <1>2, <1>4, <1>5

LEMMA TryPageInv ==
  ASSUME ViewInv, TryPage
  PROVE  ViewInv' /\ \E y : MoreLives(y) /\ y[2].handle \notin held
<1>1. TypeOK /\ InLoop /\ Arranged
  BY DEF ViewInv
<1>2. /\ pc = "try" /\ pc' = "idle" /\ request' = 0 /\ pagesTmp' = pagesTmp
      /\ storages' = storages /\ index' = index /\ panicked' = panicked
  BY DEF TryPage
<1>3. PICK p \in DOMAIN pages : p = index
  BY <1>1, <1>2 DEF InLoop
<1>4. p \in RestPages
  BY <1>2 DEF RestPages
<1>5. /\ p \notin DOMAIN pagesTmp /\ p \in Numbers /\ At(p) = pages[p]
      /\ pages[p] \in Page
  BY <1>1, <1>4, Numbering, VectorForms DEF Numbers
<1>6. PICK i \in DOMAIN pages[p].slices, d \in Descriptors :
        /\ FirstFit(pages[p].slices, request, i)
        /\ Fresh(d)
        /\ pages' = [pages EXCEPT ![p].slices = Reserved(pages[p].slices, request, i, d)]
        /\ location' = Located(pages[p], Reserved(pages[p].slices, request, i, d))
        /\ held' = held \cup {pages[p].slices[i].handle}
  BY <1>3 DEF TryPage
<1>7. pages[p].slices \in Seq(Slice) /\ LaidOut(pages[p].slices) /\ Distinct(pages[p].slices)
  BY <1>1, <1>5, Apart DEF Arranged, Page
<1>8. ~Known(d) /\ ~Has(pages[p].slices, d)
  <2>1. ~Known(d)
    BY <1>1, <1>6, Numbering DEF Fresh
  <2> QED BY <1>5, <2>1 DEF Known
<1>9. request \in Nat \ {0} /\ pages[p].slices[i].size >= request + CalculatePadding(request)
  <2>1. request \in Nat \ {0}
    BY <1>2, RequestForms
  <2> QED BY <1>6, <2>1 DEF FirstFit, CanUse
<1>10. PICK slices \in Seq(Slice) :
         /\ slices = Reserved(pages[p].slices, request, i, d)
         /\ LaidOut(slices) /\ Distinct(slices)
         /\ \A n \in DOMAIN slices :
              \/ \E j \in DOMAIN pages[p].slices : j # i /\ slices[n] = pages[p].slices[j]
              \/ slices[n] = Taken(pages[p].slices[i], request)
              \/ slices[n].handle = d
         /\ \A j \in DOMAIN pages[p].slices : j # i =>
              \E n \in DOMAIN slices : slices[n] = pages[p].slices[j]
         /\ \E n \in DOMAIN slices : slices[n] = Taken(pages[p].slices[i], request)
  BY <1>7, <1>8, <1>9, Reserves
<1>11. Taken(pages[p].slices[i], request).handle = pages[p].slices[i].handle
       /\ pages[p].slices[i].handle \in Descriptors
  <2>1. pages[p].slices[i] \in Slice
    BY <1>7, SliceForms
  <2> QED BY <2>1 DEF Taken, Slice
<1>12. \A n \in DOMAIN slices :
         Has(At(p).slices, slices[n].handle) \/ ~Known(slices[n].handle)
  BY <1>5, <1>8, <1>10, <1>11 DEF Has
<1>13. [pages[p] EXCEPT !.slices = slices] \in Page
  BY <1>5 DEF Page
<1>14. pages' = [pages EXCEPT ![p] = [pages[p] EXCEPT !.slices = slices]]
  BY <1>6, <1>10
<1>15. /\ pages' \in Seq(Page)
       /\ Len(pages') = Len(pages)
       /\ DOMAIN pages' = DOMAIN pages
       /\ pages'[p] = [pages[p] EXCEPT !.slices = slices]
       /\ \A q \in DOMAIN pages : q # p => pages'[q] = pages[q]
  BY <1>1, <1>13, <1>14, ExceptSeq DEF TypeOK
<1>16. pagesTmp = << >> /\ DOMAIN pagesTmp = {}
  BY <1>1, <1>2 DEF InLoop
<1>17. Numbers = DOMAIN pages /\ Numbers' = DOMAIN pages
  BY <1>2, <1>15, <1>16 DEF Numbers, RestPages
<1>18. \A n \in DOMAIN pages : At(n) = pages[n] /\ At(n)' = pages'[n]
  BY <1>2, <1>16 DEF At
<1>19. location' = Located(At(p), slices)
  BY <1>5, <1>6, <1>10
<1>20. /\ \A n \in Numbers : n # p => At(n)' = At(n)
       /\ At(p)' = [At(p) EXCEPT !.slices = slices]
  BY <1>15, <1>17, <1>18
<1>21. Arranged'
  BY <1>2, <1>5, <1>10, <1>12, <1>17, <1>19, <1>20, Rebuilt
<1>22. location' \in [Descriptors -> [page: Nat \cup {-1}, slice: Nat]]
  BY <1>1, <1>5, <1>19, LocatedType
<1>23. TypeOK'
  BY <1>1, <1>2, <1>6, <1>11, <1>15, <1>22 DEF TypeOK
<1>24. InLoop' /\ AllocFits'
  BY <1>2, <1>16 DEF ViewInv, InLoop, AllocFits
<1>25. PICK t, y : t = Taken(pages[p].slices[i], request) /\ y = << At(p).storage, t >>
  OBVIOUS
<1>26. PICK h : h = pages[p].slices[i].handle
  OBVIOUS
<1>27. t.handle = h /\ h \notin held /\ held' = held \cup {h} /\ d # h /\ d \notin held
  <2>1. t.handle = h /\ held' = held \cup {h}
    BY <1>6, <1>11, <1>25, <1>26
  <2>2. h \notin held /\ d \notin held
    BY <1>6, <1>26 DEF FirstFit, CanUse, IsFree, Fresh
  <2>3. d # h
    BY <1>8, <1>26 DEF Has
  <2> QED BY <2>1, <2>2, <2>3
<1>28. At(p)'.slices = slices /\ At(p)'.storage = At(p).storage
  BY <1>5, <1>20 DEF Page
<1>29. MoreLives(y)
  <2>1. ASSUME NEW n \in Numbers, n # p, NEW j \in DOMAIN At(n).slices
        PROVE  At(n).slices[j].handle \in held' <=> At(n).slices[j].handle \in held
    <3>1. Has(At(n).slices, At(n).slices[j].handle) /\ Has(At(p).slices, h)
      BY <1>5, <1>26 DEF Has
    <3>2. At(n).slices[j].handle # h
      BY <1>5, <2>1, <3>1, Apart
    <3> QED BY <1>27, <3>2
  <2>2. ASSUME NEW x, NEW j \in DOMAIN At(p).slices, At(p).slices[j].handle \in held,
               x = << At(p).storage, At(p).slices[j] >>
        PROVE  Lives(x)'
    <3>1. j # i
      BY <1>5, <1>26, <1>27, <2>2
    <3>2. PICK k \in DOMAIN slices : slices[k] = At(p).slices[j]
      BY <1>5, <1>10, <3>1
    <3>3. slices[k].handle \in held' /\ p \in Numbers'
      BY <1>5, <1>17, <1>27, <2>2, <3>2
    <3> QED BY <1>28, <2>2, <3>2, <3>3 DEF Lives
  <2>3. ASSUME NEW k \in DOMAIN slices, slices[k].handle \in held'
        PROVE  slices[k] = t \/ Lives(<< At(p).storage, slices[k] >>)
    <3>1. slices[k].handle # d
      BY <1>27, <2>3
    <3>2. CASE \E j \in DOMAIN pages[p].slices : j # i /\ slices[k] = pages[p].slices[j]
      <4>1. PICK j \in DOMAIN pages[p].slices : j # i /\ slices[k] = pages[p].slices[j]
        BY <3>2
      <4>2. pages[p].slices[j].handle # h
        BY <1>7, <1>26, <4>1 DEF Distinct
      <4>3. slices[k].handle \in held
        BY <1>27, <2>3, <4>1, <4>2
      <4> QED BY <1>5, <4>1, <4>3 DEF Lives
    <3> QED BY <1>10, <1>25, <3>1, <3>2
  <2>4. Lives(y)'
    <3>1. PICK k \in DOMAIN slices : slices[k] = t
      BY <1>10, <1>25
    <3>2. slices[k].handle \in held' /\ p \in Numbers'
      BY <1>5, <1>17, <1>27, <3>1
    <3> QED BY <1>25, <1>28, <3>1, <3>2 DEF Lives
  <2>5. \A x :
          /\ Lives(x) => \/ Lives(x)'
                         \/ \E j \in DOMAIN At(p).slices :
                              /\ x = << At(p).storage, At(p).slices[j] >>
                              /\ At(p).slices[j].handle \in held
          /\ Lives(x)' => \/ Lives(x)
                          \/ \E j \in DOMAIN At(p)'.slices :
                               /\ x = << At(p).storage, At(p)'.slices[j] >>
                               /\ At(p)'.slices[j].handle \in held'
    <3>1. Numbers' = Numbers
      BY <1>17
    <3> QED BY <1>5, <1>20, <1>28, <2>1, <3>1, OthersLive
  <2>6. \A x : Lives(x) => Lives(x)'
    BY <2>2, <2>5
  <2>7. \A x : Lives(x)' => Lives(x) \/ x = y
    BY <1>25, <1>28, <2>3, <2>5
  <2> QED BY <2>4, <2>6, <2>7 DEF MoreLives
<1>30. y[2].handle \notin held
  BY <1>25, <1>27
<1> QED BY <1>21, <1>23, <1>24, <1>29, <1>30 DEF ViewInv

LEMMA NextPageInv ==
  ASSUME ViewInv, NextPage
  PROVE  ViewInv' /\ SameLives
<1>1. TypeOK /\ InLoop
  BY DEF ViewInv
<1>2. Len(pages) \in Nat /\ DOMAIN pages = 1 .. Len(pages) /\ index \in 1 .. Len(pages)
  BY <1>1, VectorForms DEF NextPage, InLoop
<1>3. /\ pages' = pages /\ pagesTmp' = pagesTmp /\ request' = request /\ pc = "try"
      /\ pc' \in {"alloc", "coalesce"} /\ (pc' = "coalesce" => index # Len(pages))
      /\ index' = index + 1
  BY DEF NextPage
<1>4. TypeOK'
  <2>1. index' \in 1 .. (Len(pages) + 1)
    <3>1. \A a, b \in Nat : a \in 1 .. b => a + 1 \in 1 .. (b + 1)
      OBVIOUS
    <3>2. index \in Nat
      BY <1>1, VectorForms
    <3> QED BY <1>2, <1>3, <3>1, <3>2
  <2>2. pc' \in {"idle", "coalesce", "try", "alloc", "cleanup", "summary"}
    BY <1>3
  <2> QED BY <1>1, <1>3, <2>1, <2>2 DEF NextPage, TypeOK
<1>5. InLoop'
  <2>1. pc' = "coalesce" => index' \in DOMAIN pages'
    <3>1. \A a, b \in Nat : a \in 1 .. b /\ a # b => a + 1 \in 1 .. b
      OBVIOUS
    <3>2. index \in Nat
      BY <1>1, VectorForms
    <3> QED BY <1>2, <1>3, <3>1, <3>2
  <2> QED BY <1>1, <1>3, <2>1 DEF InLoop, Accept
<1>6. Arranged' /\ SameLives
  BY Undisturbed, UndisturbedLives DEF NextPage, Numbers, RestPages, At
<1> QED BY <1>4, <1>5, <1>6 DEF ViewInv, NextPage, AllocFits

LEMMA AllocFailsInv ==
  ASSUME ViewInv, AllocFails
  PROVE  ViewInv' /\ SameLives
<1>1. TypeOK' /\ InLoop' /\ AllocFits'
  BY DEF AllocFails, ViewInv, TypeOK, InLoop, AllocFits
<1>2. Arranged' /\ SameLives
  BY Undisturbed, UndisturbedLives DEF AllocFails, Numbers, RestPages, At
<1> QED BY <1>1, <1>2 DEF ViewInv

\* alloc(): a new page with a single slice, which is large enough.
LEMMA AllocInv ==
  ASSUME ViewInv, Alloc
  PROVE  ViewInv' /\ \E y : MoreLives(y) /\ y[2].handle \notin held
<1>1. TypeOK /\ InLoop /\ Arranged
  BY DEF ViewInv
<1>2. /\ pc = "alloc" /\ pc' = "idle" /\ request' = 0
      /\ pagesTmp' = pagesTmp /\ index' = index
  BY DEF Alloc
<1>3. PICK top \in Nat : top = Len(pages)
  BY <1>1, VectorForms
<1>4. /\ DOMAIN pages = 1 .. top /\ pagesTmp = << >> /\ DOMAIN pagesTmp = {}
      /\ index \in Nat \ {0} /\ index <= top + 1
  BY <1>1, <1>2, <1>3, VectorForms DEF InLoop
<1>5. PICK s \in Storages \ storages, d, e \in Descriptors :
        LET whole == << NewSlice(0, PageSize, d) >>
            fits == FirstFit(whole, request, 1)
            slices == IF fits THEN Reserved(whole, request, 1, e) ELSE whole
        IN /\ d # e /\ Fresh(d) /\ Fresh(e)
           /\ storages' = storages \cup {s}
           /\ pages' = Append(pages, [storage |-> s, base |-> PageNumber, slices |-> slices])
           /\ location' =
                [c \in Descriptors |->
                   IF Has(slices, c)
                   THEN [page |-> PageNumber,
                         slice |-> CHOOSE i \in DOMAIN slices : slices[i].handle = c]
                   ELSE location[c]]
           /\ held' = IF fits THEN held \cup {d} ELSE held
           /\ panicked' = ~fits
  BY DEF Alloc
<1> DEFINE whole == << NewSlice(0, PageSize, d) >>
<1>6. /\ request \in Nat \ {0} /\ PageSize \in Nat /\ CalculatePadding(request) \in Nat
      /\ request + CalculatePadding(request) <= PageSize
  BY <1>2, RequestForms
<1>7. NewSlice(0, PageSize, d) = [offset |-> 0, size |-> PageSize, padding |-> 0, handle |-> d]
  BY DEF NewSlice
<1>8. /\ whole \in Seq(Slice) /\ DOMAIN whole = {1} /\ whole[1] \in Slice
      /\ whole[1].offset = 0 /\ whole[1].size = PageSize /\ whole[1].padding = 0
      /\ whole[1].handle = d
  <2>1. NewSlice(0, PageSize, d) \in Slice
    BY <1>6, <1>7 DEF Slice
  <2>2. whole \in Seq(Slice) /\ DOMAIN whole = {1} /\ whole[1] = NewSlice(0, PageSize, d)
    BY <2>1
  <2> QED BY <1>7, <2>1, <2>2
<1> HIDE DEF whole
<1>9. LaidOut(whole) /\ Distinct(whole)
  <2>1. End(whole[1]) = 0 + (PageSize + 0)
    BY <1>8 DEF End, EffectiveSize
  <2>2. End(whole[1]) <= PageSize /\ whole[1].size > 0
    BY <1>6, <1>8, <2>1
  <2>3. \A i, j \in DOMAIN whole : ~(i < j)
    BY <1>8
  <2> QED BY <1>8, <2>2, <2>3 DEF LaidOut, Distinct
<1>10. FirstFit(whole, request, 1)
  <2>1. IsFree(d)
    BY <1>5 DEF Fresh, IsFree
  <2>2. CanUse(whole[1], request)
    BY <1>6, <1>8, <2>1 DEF CanUse
  <2> QED BY <1>8, <2>2 DEF FirstFit
<1>11. ~Known(d) /\ ~Known(e) /\ d # e
  BY <1>1, <1>5, Numbering DEF Fresh
<1>12. ~Has(whole, e)
  BY <1>8, <1>11 DEF Has
<1>13. PICK slices \in Seq(Slice) :
         /\ slices = Reserved(whole, request, 1, e)
         /\ LaidOut(slices) /\ Distinct(slices)
         /\ \A n \in DOMAIN slices :
              \/ \E j \in DOMAIN whole : j # 1 /\ slices[n] = whole[j]
              \/ slices[n] = Taken(whole[1], request)
              \/ slices[n].handle = e
         /\ \E n \in DOMAIN slices : slices[n] = Taken(whole[1], request)
  <2>1. 1 \in DOMAIN whole /\ whole[1].size >= request + CalculatePadding(request)
    BY <1>6, <1>8
  <2> QED BY <1>6, <1>8, <1>9, <1>12, <2>1, Reserves
<1>14. \A n \in DOMAIN slices : slices[n].handle \in {d, e}
  <2>1. Taken(whole[1], request).handle = d
    BY <1>8 DEF Taken, Slice
  <2> QED BY <1>8, <1>13, <2>1
<1>15. /\ storages' = storages \cup {s}
       /\ pages' = Append(pages, [storage |-> s, base |-> top, slices |-> slices])
       /\ location' =
            [c \in Descriptors |->
               IF Has(slices, c)
               THEN [page |-> top,
                     slice |-> CHOOSE i \in DOMAIN slices : slices[i].handle = c]
               ELSE location[c]]
       /\ held' = held \cup {d}
       /\ panicked' = FALSE
  BY <1>3, <1>5, <1>10, <1>13 DEF PageNumber, whole
<1> DEFINE page == [storage |-> s, base |-> top, slices |-> slices]
<1>16. page \in Page /\ page.storage = s /\ page.base = top /\ page.slices = slices
  BY <1>5, <1>13 DEF Page
<1> HIDE DEF page
<1>17. /\ pages' \in Seq(Page)
       /\ Len(pages') = top + 1
       /\ DOMAIN pages' = 1 .. (top + 1)
       /\ pages'[top + 1] = page
       /\ \A q \in 1 .. top : pages'[q] = pages[q]
  <2>1. pages \in Seq(Page) /\ pages' = Append(pages, page)
    BY <1>1, <1>15 DEF TypeOK, page
  <2>2. /\ pages' \in Seq(Page)
        /\ Len(pages') = top + 1
        /\ \A q \in 1 .. top : pages'[q] = pages[q]
        /\ pages'[top + 1] = page
    BY <1>3, <1>16, <2>1, AppendProperties
  <2> QED BY <2>2, LenProperties
<1>18. /\ Numbers = 1 .. top /\ Numbers' = 1 .. (top + 1)
       /\ \A n \in 1 .. top : At(n) = pages[n] /\ At(n)' = pages[n]
       /\ At(top + 1)' = page
  <2>1. Numbers = 1 .. top /\ Numbers' = 1 .. (top + 1)
    BY <1>2, <1>4, <1>17 DEF Numbers, RestPages
  <2>2. \A n : At(n) = pages[n] /\ At(n)' = pages'[n]
    BY <1>2, <1>4 DEF At
  <2> QED BY <1>17, <2>1, <2>2
<1>19. ASSUME NEW n \in Numbers PROVE n \in 1 .. top /\ n # top + 1 /\ At(n)' = At(n) /\ At(n) \in Page
  BY <1>1, <1>18, Numbering
<1>20. \A c \in Descriptors : Known(c) => location'[c] = location[c]
  <2>1. ASSUME NEW c \in Descriptors, Known(c) PROVE ~Has(slices, c)
    BY <1>11, <1>14, <2>1 DEF Has
  <2> QED BY <1>15, <2>1
<1>21. ASSUME NEW n \in Numbers' PROVE (Numbered(At(n), n) /\ LaidOut(At(n).slices))'
  <2>1. CASE n = top + 1
    <3>1. ASSUME NEW i \in DOMAIN slices
          PROVE  location'[slices[i].handle] = [page |-> top, slice |-> i]
      <4>1. slices[i].handle \in Descriptors /\ Has(slices, slices[i].handle)
        BY SliceForms DEF Has
      <4>2. (CHOOSE k \in DOMAIN slices : slices[k].handle = slices[i].handle) = i
        BY <1>13 DEF Distinct
      <4> QED BY <1>15, <4>1, <4>2
    <3>2. (top + 1) - 1 = top
      BY <1>3
    <3>3. Numbered(At(n), n)'
      BY <1>16, <1>18, <2>1, <3>1, <3>2 DEF Numbered
    <3>4. LaidOut(At(n).slices)'
      BY <1>13, <1>16, <1>18, <2>1 DEF LaidOut
    <3> QED BY <3>3, <3>4
  <2>2. CASE n # top + 1
    <3>1. n \in Numbers
      BY <1>3, <1>18, <2>2
    <3>2. At(n)' = At(n) /\ At(n) \in Page
      BY <1>19, <3>1
    <3>3. Numbered(At(n), n) /\ LaidOut(At(n).slices)
      BY <1>1, <3>1 DEF Arranged
    <3>4. ASSUME NEW i \in DOMAIN At(n).slices
          PROVE  location'[At(n).slices[i].handle] = [page |-> n - 1, slice |-> i]
      <4>1. At(n).slices[i].handle \in Descriptors
        BY <3>2, PageForms, SliceForms
      <4>2. Known(At(n).slices[i].handle)
        BY <3>1 DEF Known, Has
      <4>3. location[At(n).slices[i].handle] = [page |-> n - 1, slice |-> i]
        BY <3>3 DEF Numbered
      <4> QED BY <1>20, <4>1, <4>2, <4>3
    <3>5. Numbered(At(n), n)'
      BY <3>2, <3>3, <3>4 DEF Numbered
    <3>6. LaidOut(At(n).slices)'
      BY <3>2, <3>3 DEF LaidOut
    <3> QED BY <3>5, <3>6
  <2> QED BY <2>1, <2>2
<1>22. ASSUME NEW c \in Descriptors, ~Known(c)' PROVE location'[c] = Uninit
  <2>1. \A n \in Numbers' : ~Has(At(n)'.slices, c)
    BY <1>22 DEF Known, Has
  <2>2. ~Has(slices, c)
    BY <1>3, <1>16, <1>18, <2>1
  <2>3. ~Known(c)
    BY <1>3, <1>18, <1>19, <2>1 DEF Known
  <2>4. location[c] = Uninit
    BY <1>1, <2>3 DEF Arranged
  <2> QED BY <1>15, <2>2, <2>4
<1>23. ASSUME NEW x PROVE x \in storages' <=> \E n \in Numbers' : x = At(n)'.storage
  <2>1. x \in storages <=> \E n \in Numbers : x = At(n).storage
    BY <1>1 DEF Arranged
  <2>2. (\E n \in Numbers' : x = At(n)'.storage) <=>
          x = s \/ \E n \in Numbers : x = At(n).storage
    <3>1. Numbers' = Numbers \cup {top + 1}
      BY <1>3, <1>18
    <3> QED BY <1>16, <1>18, <1>19, <3>1
  <2> QED BY <1>15, <2>1, <2>2
<1>24. ASSUME NEW m \in Numbers', NEW n \in Numbers', At(m)'.storage = At(n)'.storage
       PROVE  m = n
  <2>1. \A k \in Numbers : At(k)'.storage \in storages
    BY <1>1, <1>19 DEF Arranged
  <2>2. At(top + 1)'.storage \notin storages
    BY <1>5, <1>16, <1>18
  <2>3. CASE m \in Numbers /\ n \in Numbers
    BY <1>1, <1>19, <1>24, <2>3 DEF Arranged
  <2>4. CASE m \notin Numbers \/ n \notin Numbers
    <3>1. \A k \in Numbers' : k \in Numbers \/ k = top + 1
      BY <1>3, <1>18
    <3> QED BY <1>24, <2>1, <2>2, <2>4, <3>1
  <2> QED BY <2>3, <2>4
<1>25. Arranged'
  BY <1>21, <1>22, <1>23, <1>24 DEF Arranged
<1>26. location' \in [Descriptors -> [page: Nat \cup {-1}, slice: Nat]]
  <2>1. ASSUME NEW c \in Descriptors, Has(slices, c)
        PROVE  (CHOOSE i \in DOMAIN slices : slices[i].handle = c) \in Nat
    <3>1. (CHOOSE i \in DOMAIN slices : slices[i].handle = c) \in DOMAIN slices
      BY <2>1 DEF Has
    <3>2. DOMAIN slices = 1 .. Len(slices) /\ Len(slices) \in Nat
      BY SliceForms
    <3> QED BY <3>1, <3>2
  <2>2. \A c \in Descriptors : location[c] \in [page: Nat \cup {-1}, slice: Nat]
    BY <1>1 DEF TypeOK
  <2>3. ASSUME NEW c \in Descriptors PROVE location'[c] \in [page: Nat \cup {-1}, slice: Nat]
    <3>1. CASE Has(slices, c)
      BY <1>3, <1>15, <2>1, <3>1
    <3>2. CASE ~Has(slices, c)
      BY <1>15, <2>2, <3>2
    <3> QED BY <3>1, <3>2
  <2> QED BY <1>15, <2>3
<1>27. TypeOK'
  <2>1. index' \in 1 .. (Len(pages') + 1)
    BY <1>2, <1>3, <1>4, <1>17
  <2>2. held' \subseteq Descriptors /\ storages' \subseteq Storages
    BY <1>1, <1>5, <1>15 DEF TypeOK
  <2>3. pagesTmp' \in Seq(Page)
    BY <1>1, <1>2 DEF TypeOK
  <2> QED BY <1>2, <1>15, <1>17, <1>26, <2>1, <2>2, <2>3 DEF TypeOK
<1>28. InLoop'
  BY <1>2, <1>4 DEF InLoop
<1>29. PICK t : t = Taken(whole[1], request)
  OBVIOUS
<1>30. t.handle = d /\ d \notin held /\ e \notin held'
  <2>1. t.handle = d
    BY <1>8, <1>29 DEF Taken, Slice
  <2>2. d \notin held /\ e \notin held
    BY <1>5 DEF Fresh
  <2> QED BY <1>11, <1>15, <2>1, <2>2
<1>31. /\ At(top + 1)'.storage = s /\ At(top + 1)'.slices = slices
       /\ top + 1 \in Numbers' /\ \A n \in Numbers : n \in Numbers'
       /\ \A n \in Numbers' : n \in Numbers \/ n = top + 1
  BY <1>3, <1>16, <1>18
<1>32. MoreLives(<< s, t >>)
  <2>1. \A n \in Numbers : \A j \in DOMAIN At(n).slices :
          At(n).slices[j].handle \in held' <=> At(n).slices[j].handle \in held
    BY <1>11, <1>15 DEF Known, Has
  <2>2. ASSUME NEW x, Lives(x) PROVE Lives(x)'
    <3>1. PICK n \in Numbers : \E i \in DOMAIN At(n).slices :
            x = << At(n).storage, At(n).slices[i] >> /\ At(n).slices[i].handle \in held
      BY <2>2 DEF Lives
    <3>2. At(n)' = At(n) /\ n \in Numbers'
      BY <1>19, <1>31
    <3>3. \E i \in DOMAIN At(n)'.slices :
            x = << At(n)'.storage, At(n)'.slices[i] >> /\ At(n)'.slices[i].handle \in held'
      BY <2>1, <3>1, <3>2
    <3> QED BY <3>2, <3>3 DEF Lives
  <2>3. Lives(<< s, t >>)'
    <3>1. PICK k \in DOMAIN slices : slices[k] = t
      BY <1>13, <1>29
    <3>2. slices[k].handle \in held'
      BY <1>15, <1>30, <3>1
    <3> QED BY <1>31, <3>1, <3>2 DEF Lives
  <2>4. ASSUME NEW x, Lives(x)' PROVE Lives(x) \/ x = << s, t >>
    <3>1. PICK n \in Numbers' : \E i \in DOMAIN At(n)'.slices :
            x = << At(n)'.storage, At(n)'.slices[i] >> /\ At(n)'.slices[i].handle \in held'
      BY <2>4 DEF Lives
    <3>2. CASE n = top + 1
      <4>1. PICK i \in DOMAIN slices : x = << s, slices[i] >> /\ slices[i].handle \in held'
        BY <1>31, <3>1, <3>2
      <4>2. slices[i] = t
        BY <1>8, <1>13, <1>29, <1>30, <4>1
      <4> QED BY <4>1, <4>2
    <3>3. CASE n \in Numbers
      <4>1. At(n)' = At(n)
        BY <1>19, <3>3
      <4>2. \E i \in DOMAIN At(n).slices :
              x = << At(n).storage, At(n).slices[i] >> /\ At(n).slices[i].handle \in held
        BY <2>1, <3>1, <3>3, <4>1
      <4> QED BY <3>3, <4>2 DEF Lives
    <3> QED BY <1>31, <3>2, <3>3
  <2> QED BY <2>2, <2>3, <2>4 DEF MoreLives
<1>33. \E y : MoreLives(y) /\ y[2].handle \notin held
  <2>1. << s, t >>[2] = t
    OBVIOUS
  <2> QED BY <1>30, <1>32, <2>1
<1> QED BY <1>15, <1>25, <1>27, <1>28, <1>33 DEF ViewInv, AllocFits

\* bind(): a slot of a page gets another descriptor, which knows its place from
\* the one before.
LEMMA BindInv ==
  ASSUME ViewInv, NEW reserved \in Descriptors, NEW new \in Descriptors,
         Bind(reserved, new)
  PROVE  /\ ViewInv'
         /\ new \in held /\ ~Known(new)
         /\ \E x : /\ Lives(x) /\ x[2].handle = reserved
                   /\ OtherLives(reserved, << x[1], [x[2] EXCEPT !.handle = new] >>)
<1>1. TypeOK /\ InLoop /\ Arranged
  BY DEF ViewInv
<1>2. pc = "idle" /\ pc' = "idle" /\ pagesTmp = << >> /\ pagesTmp' = << >> /\ index' = index
      /\ request' = request /\ storages' = storages /\ panicked' = panicked
  BY <1>1 DEF Bind, InLoop
<1>3. Known(reserved) /\ ~Known(new) /\ new # reserved
  BY <1>1, Numbering DEF Bind
<1>4. /\ Numbers = DOMAIN pages
      /\ \A n : At(n) = pages[n]
      /\ \A n \in DOMAIN pages : pages[n] \in Page
  BY <1>1, <1>2, VectorForms DEF Numbers, RestPages, At
<1>5. PICK p \in DOMAIN pages : \E i \in DOMAIN pages[p].slices :
        pages[p].slices[i].handle = reserved
  BY <1>3, <1>4 DEF Known, Has
<1>6. PICK i \in DOMAIN pages[p].slices : pages[p].slices[i].handle = reserved
  BY <1>5
<1>7. p \in Nat \ {0} /\ p \in Numbers
  BY <1>1, <1>4, <1>6, Numbering
<1>8. Numbered(pages[p], p) /\ LaidOut(pages[p].slices) /\ Distinct(pages[p].slices)
  BY <1>1, <1>4, <1>7, Apart DEF Arranged
<1>9. location[reserved] = [page |-> p - 1, slice |-> i]
  BY <1>6, <1>8 DEF Numbered
<1>10. location[reserved].page + 1 = p /\ location[reserved].slice = i
  BY <1>7, <1>9
<1>11. pages[p].slices \in Seq(Slice) /\ pages[p].slices[i] \in Slice
  BY <1>4, <1>6, PageForms, SliceForms
<1> DEFINE one == [pages[p].slices[i] EXCEPT !.handle = new]
           slices == [pages[p].slices EXCEPT ![i] = one]
           page == [pages[p] EXCEPT !.slices = slices]
<1>12. pages' = [pages EXCEPT ![p].slices[i].handle = new]
  BY <1>10 DEF Bind
<1>13. pages' = [pages EXCEPT ![p] = page]
  BY <1>12
<1>14. /\ one \in Slice /\ one.handle = new /\ one.offset = pages[p].slices[i].offset
       /\ one.size = pages[p].slices[i].size /\ one.padding = pages[p].slices[i].padding
  BY <1>11 DEF Slice
<1>15. End(one) = End(pages[p].slices[i])
  BY <1>14 DEF End, EffectiveSize
<1> HIDE DEF one
<1>16. /\ slices \in Seq(Slice)
       /\ DOMAIN slices = DOMAIN pages[p].slices
       /\ slices[i] = one
       /\ \A j \in DOMAIN pages[p].slices : j # i => slices[j] = pages[p].slices[j]
  BY <1>6, <1>11, <1>14, ExceptSeq
<1> HIDE DEF slices
<1>17. /\ page \in Page /\ page.storage = pages[p].storage /\ page.base = pages[p].base
       /\ page.slices = slices
  BY <1>4, <1>6, <1>16 DEF Page
<1> HIDE DEF page
<1>18. /\ pages' \in Seq(Page)
       /\ Len(pages') = Len(pages)
       /\ DOMAIN pages' = DOMAIN pages
       /\ pages'[p] = page
       /\ \A q \in DOMAIN pages : q # p => pages'[q] = pages[q]
  BY <1>1, <1>6, <1>13, <1>17, ExceptSeq DEF TypeOK
<1>19. Numbers' = Numbers /\ \A n : At(n)' = pages'[n]
  BY <1>2, <1>4, <1>18 DEF Numbers, RestPages, At
<1>20. location \in [Descriptors -> [page: Nat \cup {-1}, slice: Nat]]
  BY <1>1 DEF TypeOK
<1>21. /\ location'[new] = [page |-> p - 1, slice |-> i]
       /\ location'[reserved] = Uninit
       /\ \A d \in Descriptors : d # new /\ d # reserved => location'[d] = location[d]
  BY <1>3, <1>9, <1>20 DEF Bind
<1>22. \A j \in DOMAIN slices : /\ slices[j].offset = pages[p].slices[j].offset
                                /\ slices[j].size = pages[p].slices[j].size
                                /\ End(slices[j]) = End(pages[p].slices[j])
                                /\ slices[j].handle =
                                     IF j = i THEN new ELSE pages[p].slices[j].handle
  BY <1>14, <1>15, <1>16
<1>23. ASSUME NEW n \in Numbers, NEW j \in DOMAIN At(n).slices, n # p \/ j # i
       PROVE  /\ At(n).slices[j].handle \in Descriptors
              /\ location'[At(n).slices[j].handle] = [page |-> n - 1, slice |-> j]
  <2>1. At(n) \in Page
    BY <1>1, Numbering
  <2>2. At(n).slices[j].handle \in Descriptors
    BY <2>1, PageForms, SliceForms
  <2>3. Known(At(n).slices[j].handle)
    BY DEF Known, Has
  <2>4. location[At(n).slices[j].handle] = [page |-> n - 1, slice |-> j]
    BY <1>1 DEF Arranged, Numbered
  <2>5. At(n).slices[j].handle # reserved
    <3>1. SUFFICES ASSUME At(n).slices[j].handle = reserved PROVE FALSE
      OBVIOUS
    <3>2. Has(At(n).slices, reserved) /\ Has(At(p).slices, reserved)
      BY <1>4, <1>6, <3>1 DEF Has
    <3>3. n = p
      BY <1>7, <3>2, Apart
    <3>4. j = i
      BY <1>4, <1>6, <1>8, <3>1, <3>3 DEF Distinct
    <3> QED BY <1>23, <3>3, <3>4
  <2> QED BY <1>3, <1>21, <2>2, <2>3, <2>4, <2>5
<1>24. ASSUME NEW n \in Numbers' PROVE (Numbered(At(n), n) /\ LaidOut(At(n).slices))'
  <2>1. CASE n = p
    <3>1. ASSUME NEW j \in DOMAIN slices
          PROVE  location'[slices[j].handle] = [page |-> p - 1, slice |-> j]
      <4>1. CASE j = i
        BY <1>21, <1>22, <4>1
      <4>2. CASE j # i
        <5>1. j \in DOMAIN At(p).slices /\ At(p).slices[j].handle = slices[j].handle
          BY <1>4, <1>16, <1>22, <4>2
        <5> QED BY <1>7, <1>23, <4>2, <5>1
      <4> QED BY <4>1, <4>2
    <3>2. page.base = p - 1
      BY <1>8, <1>17 DEF Numbered
    <3>3. Numbered(At(n), n)'
      BY <1>17, <1>18, <1>19, <2>1, <3>1, <3>2 DEF Numbered
    <3>4. /\ \A j \in DOMAIN slices : slices[j].size > 0 /\ End(slices[j]) <= PageSize
          /\ \A j, k \in DOMAIN slices : j < k => End(slices[j]) <= slices[k].offset
      BY <1>8, <1>16, <1>22 DEF LaidOut
    <3>5. LaidOut(At(n).slices)'
      BY <1>17, <1>18, <1>19, <2>1, <3>4 DEF LaidOut
    <3> QED BY <3>3, <3>5
  <2>2. CASE n # p
    <3>1. n \in Numbers /\ At(n)' = At(n)
      BY <1>4, <1>18, <1>19, <2>2
    <3>2. Numbered(At(n), n) /\ LaidOut(At(n).slices)
      BY <1>1, <3>1 DEF Arranged
    <3>3. \A j \in DOMAIN At(n).slices :
            location'[At(n).slices[j].handle] = [page |-> n - 1, slice |-> j]
      BY <1>23, <2>2, <3>1
    <3>4. Numbered(At(n), n)'
      BY <3>1, <3>2, <3>3 DEF Numbered
    <3>5. LaidOut(At(n).slices)'
      BY <3>1, <3>2 DEF LaidOut
    <3> QED BY <3>4, <3>5
  <2> QED BY <2>1, <2>2
<1>25. ASSUME NEW d \in Descriptors, ~Known(d)' PROVE location'[d] = Uninit
  <2>1. \A n \in Numbers : ~Has(At(n)'.slices, d)
    BY <1>19, <1>25 DEF Known, Has
  <2>2. ~Has(slices, d)
    BY <1>7, <1>17, <1>18, <1>19, <2>1
  <2>3. d # new
    BY <1>6, <1>16, <1>22, <2>2 DEF Has
  <2>4. CASE d = reserved
    BY <1>21, <2>4
  <2>5. CASE d # reserved
    <3>1. ASSUME NEW n \in Numbers PROVE ~Has(At(n).slices, d)
      <4>1. CASE n = p
        <5>1. SUFFICES ASSUME NEW j \in DOMAIN pages[p].slices, pages[p].slices[j].handle = d
                       PROVE  FALSE
          BY <1>4, <4>1 DEF Has
        <5>2. j # i
          BY <1>6, <2>5, <5>1
        <5> QED BY <1>16, <1>22, <2>2, <5>1, <5>2 DEF Has
      <4>2. CASE n # p
        BY <1>4, <1>18, <1>19, <2>1, <4>2
      <4> QED BY <4>1, <4>2
    <3>2. ~Known(d)
      BY <3>1 DEF Known
    <3>3. location[d] = Uninit
      BY <1>1, <3>2 DEF Arranged
    <3> QED BY <1>21, <2>3, <2>5, <3>3
  <2> QED BY <2>4, <2>5
<1>26. \A n \in Numbers : At(n)'.storage = At(n).storage
  BY <1>4, <1>17, <1>18, <1>19
<1>27. ASSUME NEW s PROVE s \in storages' <=> \E n \in Numbers' : s = At(n)'.storage
  BY <1>1, <1>2, <1>19, <1>26 DEF Arranged
<1>28. ASSUME NEW m \in Numbers', NEW n \in Numbers', At(m)'.storage = At(n)'.storage
       PROVE  m = n
  <2>1. m \in Numbers /\ n \in Numbers /\ At(m).storage = At(n).storage
    BY <1>19, <1>26, <1>28
  <2> QED BY <1>1, <2>1 DEF Arranged
<1>29. Arranged'
  BY <1>24, <1>25, <1>27, <1>28 DEF Arranged
<1>30. TypeOK'
  <2>1. location' \in [Descriptors -> [page: Nat \cup {-1}, slice: Nat]]
    <3>1. Uninit \in [page: Nat \cup {-1}, slice: Nat]
      BY DEF Uninit
    <3>2. location' = [location EXCEPT ![new] = location[reserved], ![reserved] = Uninit]
      BY DEF Bind
    <3>3. location[reserved] \in [page: Nat \cup {-1}, slice: Nat]
      BY <1>20
    <3> QED BY <1>20, <3>1, <3>2, <3>3
  <2>2. held' \subseteq Descriptors
    BY <1>1 DEF Bind, TypeOK
  <2> QED BY <1>1, <1>2, <1>18, <2>1, <2>2 DEF TypeOK
<1>31. InLoop' /\ AllocFits'
  BY <1>1, <1>2 DEF ViewInv, InLoop, AllocFits
<1>32. PICK x : x = << pages[p].storage, pages[p].slices[i] >>
  OBVIOUS
<1>33. x[1] = pages[p].storage /\ x[2] = pages[p].slices[i]
       /\ [x[2] EXCEPT !.handle = new] = one
  BY <1>32 DEF one
<1>34. PICK z : z = << x[1], one >>
  OBVIOUS
<1>35. reserved \in held /\ new \in held /\ held' = held \ {reserved}
  BY DEF Bind
<1>36. Lives(x) /\ x[2].handle = reserved
  BY <1>4, <1>6, <1>7, <1>32, <1>33, <1>35 DEF Lives
<1>37. OtherLives(reserved, z)
  <2>1. \A n \in Numbers : n # p => At(n)' = At(n)
    BY <1>4, <1>18, <1>19
  <2>2. At(p)'.slices = slices /\ At(p)'.storage = At(p).storage
    BY <1>17, <1>18, <1>19, <1>26, <1>7
  <2>3. ASSUME NEW n \in Numbers, n # p, NEW j \in DOMAIN At(n).slices
        PROVE  At(n).slices[j].handle # reserved
    <3>1. Has(At(n).slices, At(n).slices[j].handle) /\ Has(At(p).slices, reserved)
      BY <1>4, <1>6 DEF Has
    <3> QED BY <1>7, <2>3, <3>1, Apart
  <2>4. ASSUME NEW j \in DOMAIN pages[p].slices, j # i
        PROVE  pages[p].slices[j].handle # reserved
    BY <1>6, <1>8, <2>4 DEF Distinct
  <2>5. \A y :
          /\ Lives(y) => \/ Lives(y)'
                         \/ \E j \in DOMAIN At(p).slices :
                              /\ y = << At(p).storage, At(p).slices[j] >>
                              /\ At(p).slices[j].handle \in held
          /\ Lives(y)' => \/ Lives(y)
                          \/ \E j \in DOMAIN At(p)'.slices :
                               /\ y = << At(p).storage, At(p)'.slices[j] >>
                               /\ At(p)'.slices[j].handle \in held'
    <3>1. \A n \in Numbers : n # p => \A j \in DOMAIN At(n).slices :
            At(n).slices[j].handle \in held' <=> At(n).slices[j].handle \in held
      BY <1>35, <2>3
    <3> QED BY <1>7, <1>19, <2>1, <2>2, <3>1, OthersLive
  <2>6. ASSUME NEW y, Lives(y), y[2].handle # reserved PROVE Lives(y)'
    <3>1. SUFFICES ASSUME NEW j \in DOMAIN At(p).slices,
                          y = << At(p).storage, At(p).slices[j] >>,
                          At(p).slices[j].handle \in held
                   PROVE  Lives(y)'
      BY <2>5, <2>6
    <3>2. y[2] = At(p).slices[j]
      BY <3>1
    <3>3. j # i /\ j \in DOMAIN slices /\ slices[j] = At(p).slices[j]
      BY <1>4, <1>6, <1>16, <2>6, <3>1, <3>2
    <3>4. slices[j].handle \in held' /\ p \in Numbers'
      BY <1>7, <1>19, <1>35, <2>6, <3>1, <3>2, <3>3
    <3> QED BY <2>2, <3>1, <3>3, <3>4 DEF Lives
  <2>7. Lives(z)'
    <3>1. i \in DOMAIN slices /\ slices[i] = one /\ one.handle \in held' /\ p \in Numbers'
      BY <1>3, <1>6, <1>7, <1>14, <1>16, <1>19, <1>35
    <3>2. x[1] = At(p)'.storage
      BY <1>4, <1>33, <2>2
    <3> QED BY <1>34, <2>2, <3>1, <3>2 DEF Lives
  <2>8. ASSUME NEW y, Lives(y)'
        PROVE  (Lives(y) /\ y[2].handle # reserved) \/ y = z
    <3>1. PICK n \in Numbers' : \E j \in DOMAIN At(n)'.slices :
            y = << At(n)'.storage, At(n)'.slices[j] >> /\ At(n)'.slices[j].handle \in held'
      BY <2>8 DEF Lives
    <3>2. PICK j \in DOMAIN At(n)'.slices :
            y = << At(n)'.storage, At(n)'.slices[j] >> /\ At(n)'.slices[j].handle \in held'
      BY <3>1
    <3>3. y[2].handle # reserved
      BY <1>35, <3>2
    <3>4. CASE n # p
      <4>1. n \in Numbers /\ At(n)' = At(n)
        BY <1>19, <2>1, <3>4
      <4> QED BY <1>35, <3>2, <3>3, <4>1 DEF Lives
    <3>5. CASE n = p /\ j = i
      BY <1>4, <1>16, <1>33, <1>34, <2>2, <3>2, <3>5
    <3>6. CASE n = p /\ j # i
      <4>1. j \in DOMAIN At(p).slices /\ slices[j] = At(p).slices[j]
            /\ y = << At(p).storage, At(p).slices[j] >>
        BY <1>4, <1>16, <2>2, <3>2, <3>6
      <4>2. At(p).slices[j].handle \in held
        BY <1>35, <2>2, <3>2, <3>6, <4>1
      <4> QED BY <1>7, <3>3, <4>1, <4>2 DEF Lives
    <3> QED BY <3>4, <3>5, <3>6
  <2> QED BY <2>6, <2>7, <2>8 DEF OtherLives
<1>38. \E y : /\ Lives(y) /\ y[2].handle = reserved
              /\ OtherLives(reserved, << y[1], [y[2] EXCEPT !.handle = new] >>)
  BY <1>33, <1>36, <1>37, <1>34
<1> QED BY <1>3, <1>29, <1>30, <1>31, <1>35, <1>38 DEF ViewInv

LEMMA StartCleanupInv ==
  ASSUME ViewInv, StartCleanup
  PROVE  ViewInv' /\ SameLives
<1>1. TypeOK /\ InLoop
  BY DEF ViewInv
<1>2. /\ pages' = pages /\ pagesTmp' = pagesTmp /\ pagesTmp = << >>
      /\ pc = "idle" /\ pc' = "cleanup" /\ index' = 1
  BY <1>1 DEF StartCleanup, InLoop
<1>3. Len(pages) \in Nat /\ DOMAIN pages = 1 .. Len(pages) /\ Len(pagesTmp) = 0
  BY <1>1, <1>2, VectorForms
<1>4. TypeOK' /\ InLoop'
  <2>1. index' \in 1 .. (Len(pages) + 1)
    BY <1>2, <1>3
  <2> QED BY <1>1, <1>2, <1>3, <2>1 DEF StartCleanup, TypeOK, InLoop
<1>5. RestPages' = RestPages
  BY <1>2, <1>3 DEF RestPages
<1>6. Arranged' /\ SameLives
  BY <1>2, <1>5, Undisturbed, UndisturbedLives DEF StartCleanup, Numbers, At
<1> QED BY <1>4, <1>6 DEF ViewInv, StartCleanup, AllocFits

\* The page that cleanup() is at leaves the vector that it drains.
LEMMA Drained ==
  ASSUME ViewInv, pc = "summary", pc' = "cleanup", index' = index + 1, pages' = pages
  PROVE  /\ Len(pages) \in Nat
         /\ index \in 1 .. Len(pages)
         /\ index \in Numbers
         /\ At(index) = pages[index]
         /\ pages[index] \in Page
         /\ RestPages' = RestPages \ {index}
         /\ RestPages = index .. Len(pages)
         /\ Len(pagesTmp) \in Nat
         /\ DOMAIN pagesTmp = 1 .. Len(pagesTmp)
         /\ Len(pagesTmp) < index
         /\ index' \in 1 .. (Len(pages) + 1)
<1>1. TypeOK /\ InLoop
  BY DEF ViewInv
<1>2. /\ Len(pages) \in Nat /\ index \in 1 .. Len(pages) /\ index \in Nat
      /\ Len(pagesTmp) \in Nat
      /\ DOMAIN pagesTmp = 1 .. Len(pagesTmp)
      /\ Len(pagesTmp) < index
  BY <1>1, VectorForms DEF InLoop
<1>3. RestPages = index .. Len(pages) /\ RestPages' = (index + 1) .. Len(pages)
  BY DEF RestPages
<1>4. RestPages' = RestPages \ {index}
  <2>1. \A a, b \in Nat : (a + 1) .. b = (a .. b) \ {a}
    OBVIOUS
  <2> QED BY <1>2, <1>3, <2>1
<1>5. index \in RestPages
  BY <1>2, <1>3
<1>6. index \in Numbers /\ At(index) = pages[index] /\ pages[index] \in Page
  BY <1>1, <1>2, <1>5, Numbering, VectorForms DEF Numbers
<1>7. index' \in 1 .. (Len(pages) + 1)
  <2>1. \A a, b \in Nat : a \in 1 .. b => a + 1 \in 1 .. (b + 1)
    OBVIOUS
  <2> QED BY <1>2, <2>1
<1> QED BY <1>2, <1>3, <1>4, <1>6, <1>7

LEMMA DeallocPageInv ==
  ASSUME ViewInv, DeallocPage
  PROVE  ViewInv' /\ SameLives
<1>1. TypeOK /\ InLoop /\ Arranged
  BY DEF ViewInv
<1>2. /\ pc = "summary" /\ pc' = "cleanup" /\ index' = index + 1 /\ pages' = pages
      /\ pagesTmp' = pagesTmp /\ held' = held /\ request' = request /\ panicked' = panicked
      /\ storages' = storages \ {pages[index].storage}
      /\ location' = Located(pages[index], << >>)
  BY DEF DeallocPage
<1>3. /\ Len(pages) \in Nat /\ index \in 1 .. Len(pages) /\ index \in Numbers
      /\ At(index) = pages[index] /\ pages[index] \in Page
      /\ RestPages' = RestPages \ {index} /\ RestPages = index .. Len(pages)
      /\ Len(pagesTmp) \in Nat /\ DOMAIN pagesTmp = 1 .. Len(pagesTmp)
      /\ Len(pagesTmp) < index /\ index' \in 1 .. (Len(pages) + 1)
  BY <1>2, Drained
<1>4. PICK p \in Numbers : p = index
  BY <1>3
<1>5. p \notin DOMAIN pagesTmp
  BY <1>3, <1>4
<1>6. Numbers' = Numbers \ {p}
  BY <1>2, <1>3, <1>4, <1>5 DEF Numbers
<1>7. \A n : At(n)' = At(n)
  BY <1>2 DEF At
<1>8. \A d \in Descriptors :
        location'[d] = IF Has(At(p).slices, d) THEN Uninit ELSE location[d]
  <2>1. \A d : ~Has(<< >>, d)
    BY DEF Has
  <2> QED BY <1>2, <1>3, <1>4, <2>1 DEF Located
<1>9. ASSUME NEW n \in Numbers' PROVE (Numbered(At(n), n) /\ LaidOut(At(n).slices))'
  <2>1. n \in Numbers /\ n # p /\ At(n) \in Page /\ At(n)' = At(n)
    BY <1>1, <1>6, <1>7, Numbering
  <2>2. Numbered(At(n), n) /\ LaidOut(At(n).slices)
    BY <1>1, <2>1 DEF Arranged
  <2>3. ASSUME NEW i \in DOMAIN At(n).slices
        PROVE  location'[At(n).slices[i].handle] = [page |-> n - 1, slice |-> i]
    <3>1. At(n).slices[i].handle \in Descriptors
      BY <2>1, PageForms, SliceForms
    <3>2. Has(At(n).slices, At(n).slices[i].handle)
      BY DEF Has
    <3>3. ~Has(At(p).slices, At(n).slices[i].handle)
      BY <2>1, <3>2, Apart
    <3>4. location[At(n).slices[i].handle] = [page |-> n - 1, slice |-> i]
      BY <2>2 DEF Numbered
    <3> QED BY <1>8, <3>1, <3>3, <3>4
  <2>4. Numbered(At(n), n)'
    BY <2>1, <2>2, <2>3 DEF Numbered
  <2>5. LaidOut(At(n).slices)'
    BY <2>1, <2>2 DEF LaidOut
  <2> QED BY <2>4, <2>5
<1>10. ASSUME NEW d \in Descriptors, ~Known(d)' PROVE location'[d] = Uninit
  <2>1. \A n \in Numbers : n # p => ~Has(At(n).slices, d)
    BY <1>6, <1>7, <1>10 DEF Known, Has
  <2>2. CASE Has(At(p).slices, d)
    BY <1>8, <2>2
  <2>3. CASE ~Has(At(p).slices, d)
    <3>1. ~Known(d)
      BY <2>1, <2>3 DEF Known
    <3>2. location[d] = Uninit
      BY <1>1, <3>1 DEF Arranged
    <3> QED BY <1>8, <2>3, <3>2
  <2> QED BY <2>2, <2>3
<1>11. ASSUME NEW s PROVE s \in storages' <=> \E n \in Numbers' : s = At(n)'.storage
  <2>1. s \in storages <=> \E n \in Numbers : s = At(n).storage
    BY <1>1 DEF Arranged
  <2>2. \A n \in Numbers : At(n).storage = At(p).storage => n = p
    BY <1>1 DEF Arranged
  <2>3. storages' = storages \ {At(p).storage}
    BY <1>2, <1>3, <1>4
  <2> QED BY <1>6, <1>7, <2>1, <2>2, <2>3
<1>12. ASSUME NEW m \in Numbers', NEW n \in Numbers', At(m)'.storage = At(n)'.storage
       PROVE  m = n
  BY <1>1, <1>6, <1>7, <1>12 DEF Arranged
<1>13. Arranged'
  BY <1>9, <1>10, <1>11, <1>12 DEF Arranged
<1>14. location' \in [Descriptors -> [page: Nat \cup {-1}, slice: Nat]]
  <2>1. << >> \in Seq(Slice)
    OBVIOUS
  <2> QED BY <1>1, <1>2, <1>3, <2>1, LocatedType
<1>15. TypeOK'
  BY <1>1, <1>2, <1>3, <1>14 DEF TypeOK
<1>16. InLoop' /\ AllocFits'
  <2>1. Len(pagesTmp) < index'
    BY <1>2, <1>3
  <2> QED BY <1>2, <2>1 DEF ViewInv, InLoop, AllocFits
<1>17. \A i \in DOMAIN At(p).slices : At(p).slices[i].handle \notin held
  <2>1. At(p).slices \in Seq(Slice) /\ LaidOut(At(p).slices)
    BY <1>1, <1>3, <1>4, PageForms DEF Arranged
  <2>2. WhollyFree(At(p))
    BY <1>3, <1>4 DEF DeallocPage
  <2>3. PICK f : f = [i \in DOMAIN At(p).slices |->
                        IF IsFree(At(p).slices[i].handle)
                        THEN EffectiveSize(At(p).slices[i]) ELSE 0]
    OBVIOUS
  <2>4. Total(f)[Len(f)] = PageSize
    BY <2>2, <2>3 DEF WhollyFree
  <2>5. \A i \in DOMAIN At(p).slices : IsFree(At(p).slices[i].handle)
    BY <2>1, <2>3, <2>4, NothingLeft
  <2> QED BY <2>5 DEF IsFree
<1>18. SameLives
  <2>1. \A n \in Numbers : \A i \in DOMAIN At(n).slices :
          At(n).slices[i].handle \in held => n \in Numbers'
    BY <1>6, <1>17
  <2> QED BY <1>2, <1>6, <1>7, <2>1 DEF SameLives, Lives
<1> QED BY <1>13, <1>15, <1>16, <1>18 DEF ViewInv

\* The page that is kept moves to a smaller number, or stays at its own.
LEMMA KeepPageInv ==
  ASSUME ViewInv, KeepPage
  PROVE  ViewInv' /\ SameLives
<1>1. TypeOK /\ InLoop /\ Arranged
  BY DEF ViewInv
<1>2. /\ pc = "summary" /\ pc' = "cleanup" /\ index' = index + 1 /\ pages' = pages
      /\ held' = held /\ request' = request /\ panicked' = panicked
      /\ storages' = storages
      /\ pagesTmp' = Append(pagesTmp, [pages[index] EXCEPT !.base = Len(pagesTmp)])
      /\ location' = Moved(pages[index], Len(pagesTmp))
  BY DEF KeepPage
<1>3. /\ Len(pages) \in Nat /\ index \in 1 .. Len(pages) /\ index \in Numbers
      /\ At(index) = pages[index] /\ pages[index] \in Page
      /\ RestPages' = RestPages \ {index} /\ RestPages = index .. Len(pages)
      /\ Len(pagesTmp) \in Nat /\ DOMAIN pagesTmp = 1 .. Len(pagesTmp)
      /\ Len(pagesTmp) < index /\ index' \in 1 .. (Len(pages) + 1)
  BY <1>2, Drained
<1>4. PICK p \in Numbers : p = index
  BY <1>3
<1>5. PICK top \in Nat : top = Len(pagesTmp)
  BY <1>3
<1>6. p \notin DOMAIN pagesTmp /\ top + 1 \notin DOMAIN pagesTmp /\ DOMAIN pagesTmp = 1 .. top
      /\ top + 1 <= p /\ p \in Nat
  BY <1>3, <1>4, <1>5
<1> DEFINE page == [At(p) EXCEPT !.base = top]
<1>7. /\ page \in Page /\ page.base = top /\ page.storage = At(p).storage
      /\ page.slices = At(p).slices
  BY <1>3, <1>4 DEF Page
<1>8. pagesTmp' = Append(pagesTmp, page)
  BY <1>2, <1>3, <1>4, <1>5
<1> HIDE DEF page
<1>9. /\ pagesTmp' \in Seq(Page)
      /\ Len(pagesTmp') = top + 1
      /\ DOMAIN pagesTmp' = 1 .. (top + 1)
      /\ pagesTmp'[top + 1] = page
      /\ \A q \in 1 .. top : pagesTmp'[q] = pagesTmp[q]
  <2>1. /\ pagesTmp' \in Seq(Page)
        /\ Len(pagesTmp') = top + 1
        /\ \A q \in 1 .. top : pagesTmp'[q] = pagesTmp[q]
        /\ pagesTmp'[top + 1] = page
    BY <1>1, <1>5, <1>7, <1>8, AppendProperties DEF TypeOK
  <2> QED BY <2>1, LenProperties
<1>10. Numbers' = (Numbers \ {p}) \cup {top + 1}
  <2>1. Numbers = RestPages \cup 1 .. top /\ Numbers' = (RestPages \ {p}) \cup 1 .. (top + 1)
    BY <1>3, <1>4, <1>6, <1>9 DEF Numbers
  <2>2. 1 .. (top + 1) = (1 .. top) \cup {top + 1}
    OBVIOUS
  <2>3. p \notin 1 .. top
    BY <1>6
  <2> QED BY <2>1, <2>2, <2>3
<1>11. top + 1 \in Numbers => top + 1 = p
  BY <1>3, <1>4, <1>6 DEF Numbers
<1>12. At(top + 1)' = page
  BY <1>9 DEF At
<1>13. \A n \in Numbers : n # p => At(n)' = At(n)
  <2>1. ASSUME NEW n \in Numbers, n # p PROVE At(n)' = At(n)
    <3>1. CASE n \in DOMAIN pagesTmp
      <4>1. n \in 1 .. top /\ n \in 1 .. (top + 1)
        BY <1>6, <3>1
      <4> QED BY <1>6, <1>9, <4>1 DEF At
    <3>2. CASE n \notin DOMAIN pagesTmp
      <4>1. n # top + 1
        BY <1>11, <2>1
      <4>2. n \notin 1 .. (top + 1)
        BY <1>6, <3>2, <4>1
      <4> QED BY <1>2, <1>9, <3>2, <4>2 DEF At
    <3> QED BY <3>1, <3>2
  <2> QED BY <2>1
<1>14. \A d \in Descriptors :
         location'[d] = IF Has(At(p).slices, d) THEN [location[d] EXCEPT !.page = top]
                        ELSE location[d]
  BY <1>2, <1>3, <1>4, <1>5 DEF Moved
<1>15. \A d \in Descriptors : location[d] \in [page: Nat \cup {-1}, slice: Nat]
  BY <1>1 DEF TypeOK
<1>16. ASSUME NEW n \in Numbers' PROVE (Numbered(At(n), n) /\ LaidOut(At(n).slices))'
  <2>1. CASE n = top + 1
    <3>1. Numbered(At(p), p) /\ LaidOut(At(p).slices) /\ At(p) \in Page
      BY <1>1, Numbering DEF Arranged
    <3>2. ASSUME NEW i \in DOMAIN At(p).slices
          PROVE  location'[At(p).slices[i].handle] = [page |-> top, slice |-> i]
      <4>1. At(p).slices[i].handle \in Descriptors
        BY <3>1, PageForms, SliceForms
      <4>2. Has(At(p).slices, At(p).slices[i].handle)
        BY DEF Has
      <4>3. location[At(p).slices[i].handle] = [page |-> p - 1, slice |-> i]
        BY <3>1 DEF Numbered
      <4> QED BY <1>14, <4>1, <4>2, <4>3
    <3>3. (top + 1) - 1 = top
      OBVIOUS
    <3>4. Numbered(At(n), n)'
      BY <1>7, <1>12, <2>1, <3>2, <3>3 DEF Numbered
    <3>5. LaidOut(At(n).slices)'
      BY <1>7, <1>12, <2>1, <3>1 DEF LaidOut
    <3> QED BY <3>4, <3>5
  <2>2. CASE n # top + 1
    <3>1. n \in Numbers /\ n # p /\ At(n) \in Page /\ At(n)' = At(n)
      BY <1>1, <1>10, <1>13, <2>2, Numbering
    <3>2. Numbered(At(n), n) /\ LaidOut(At(n).slices)
      BY <1>1, <3>1 DEF Arranged
    <3>3. ASSUME NEW i \in DOMAIN At(n).slices
          PROVE  location'[At(n).slices[i].handle] = [page |-> n - 1, slice |-> i]
      <4>1. At(n).slices[i].handle \in Descriptors
        BY <3>1, PageForms, SliceForms
      <4>2. Has(At(n).slices, At(n).slices[i].handle)
        BY DEF Has
      <4>3. ~Has(At(p).slices, At(n).slices[i].handle)
        BY <3>1, <4>2, Apart
      <4>4. location[At(n).slices[i].handle] = [page |-> n - 1, slice |-> i]
        BY <3>2 DEF Numbered
      <4> QED BY <1>14, <4>1, <4>3, <4>4
    <3>4. Numbered(At(n), n)'
      BY <3>1, <3>2, <3>3 DEF Numbered
    <3>5. LaidOut(At(n).slices)'
      BY <3>1, <3>2 DEF LaidOut
    <3> QED BY <3>4, <3>5
  <2> QED BY <2>1, <2>2
<1>17. ASSUME NEW d \in Descriptors, ~Known(d)' PROVE location'[d] = Uninit
  <2>1. \A n \in Numbers' : ~Has(At(n)'.slices, d)
    BY <1>17 DEF Known, Has
  <2>2. ~Has(At(p).slices, d)
    BY <1>7, <1>10, <1>12, <2>1
  <2>3. ~Known(d)
    BY <1>10, <1>13, <2>1, <2>2 DEF Known
  <2>4. location[d] = Uninit
    BY <1>1, <2>3 DEF Arranged
  <2> QED BY <1>14, <2>2, <2>4
<1>18. At(top + 1)'.storage = At(p).storage
  BY <1>7, <1>12
<1>19. \A n \in Numbers' : n # top + 1 => n \in Numbers /\ n # p /\ At(n)'.storage = At(n).storage
  BY <1>10, <1>13
<1>20. \A n \in Numbers : n # p => n \in Numbers' /\ n # top + 1 /\ At(n)'.storage = At(n).storage
  BY <1>10, <1>11, <1>13
<1>21. ASSUME NEW s PROVE s \in storages' <=> \E n \in Numbers' : s = At(n)'.storage
  <2>1. s \in storages <=> \E n \in Numbers : s = At(n).storage
    BY <1>1 DEF Arranged
  <2>2. (\E n \in Numbers' : s = At(n)'.storage) => \E n \in Numbers : s = At(n).storage
    BY <1>18, <1>19
  <2>3. (\E n \in Numbers : s = At(n).storage) => \E n \in Numbers' : s = At(n)'.storage
    BY <1>10, <1>18, <1>20
  <2> QED BY <1>2, <2>1, <2>2, <2>3
<1>22. ASSUME NEW m \in Numbers', NEW n \in Numbers', At(m)'.storage = At(n)'.storage
       PROVE  m = n
  <2>1. \A k, l \in Numbers : At(k).storage = At(l).storage => k = l
    BY <1>1 DEF Arranged
  <2>2. CASE m = top + 1 /\ n # top + 1
    BY <1>18, <1>19, <1>22, <2>1, <2>2
  <2>3. CASE m # top + 1 /\ n = top + 1
    BY <1>18, <1>19, <1>22, <2>1, <2>3
  <2>4. CASE m # top + 1 /\ n # top + 1
    BY <1>19, <1>22, <2>1, <2>4
  <2> QED BY <2>2, <2>3, <2>4
<1>23. Arranged'
  BY <1>16, <1>17, <1>21, <1>22 DEF Arranged
<1>24. location' \in [Descriptors -> [page: Nat \cup {-1}, slice: Nat]]
  <2>1. \A d \in Descriptors : [location[d] EXCEPT !.page = top] \in [page: Nat \cup {-1}, slice: Nat]
    BY <1>15
  <2>2. \A d \in Descriptors : location'[d] \in [page: Nat \cup {-1}, slice: Nat]
    BY <1>14, <1>15, <2>1
  <2>3. location' = [d \in Descriptors |-> location'[d]]
    BY <1>2 DEF Moved
  <2> QED BY <2>2, <2>3
<1>25. TypeOK'
  BY <1>1, <1>2, <1>3, <1>9, <1>24 DEF TypeOK
<1>26. InLoop' /\ AllocFits'
  <2>1. Len(pagesTmp') < index'
    BY <1>2, <1>4, <1>6, <1>9
  <2> QED BY <1>2, <2>1 DEF ViewInv, InLoop, AllocFits
<1>27. SameLives
  <2>1. At(top + 1)'.slices = At(p).slices
    BY <1>7, <1>12
  <2>2. ASSUME NEW x, Lives(x) PROVE Lives(x)'
    <3>1. PICK n \in Numbers : \E i \in DOMAIN At(n).slices :
            x = << At(n).storage, At(n).slices[i] >> /\ At(n).slices[i].handle \in held
      BY <2>2 DEF Lives
    <3>2. CASE n = p
      <4>1. top + 1 \in Numbers'
        BY <1>10
      <4> QED BY <1>2, <1>18, <2>1, <3>1, <3>2, <4>1 DEF Lives
    <3>3. CASE n # p
      <4>1. n \in Numbers' /\ At(n)' = At(n)
        BY <1>13, <1>20, <3>3
      <4> QED BY <1>2, <3>1, <4>1 DEF Lives
    <3> QED BY <3>2, <3>3
  <2>3. ASSUME NEW x, Lives(x)' PROVE Lives(x)
    <3>1. PICK n \in Numbers' : \E i \in DOMAIN At(n)'.slices :
            x = << At(n)'.storage, At(n)'.slices[i] >> /\ At(n)'.slices[i].handle \in held'
      BY <2>3 DEF Lives
    <3>2. CASE n = top + 1
      BY <1>2, <1>18, <2>1, <3>1, <3>2 DEF Lives
    <3>3. CASE n # top + 1
      <4>1. n \in Numbers /\ At(n)' = At(n)
        BY <1>13, <1>19, <3>3
      <4> QED BY <1>2, <3>1, <4>1 DEF Lives
    <3> QED BY <3>2, <3>3
  <2> QED BY <2>2, <2>3 DEF SameLives
<1> QED BY <1>23, <1>25, <1>26, <1>27 DEF ViewInv

LEMMA FinishCleanupInv ==
  ASSUME ViewInv, FinishCleanup
  PROVE  ViewInv' /\ SameLives
<1>1. TypeOK /\ InLoop
  BY DEF ViewInv
<1>2. /\ pc = "cleanup" /\ pc' = "idle" /\ index = Len(pages) + 1 /\ index' = 1
      /\ pages' = pagesTmp /\ pagesTmp' = << >>
      /\ location' = location /\ held' = held /\ storages' = storages
      /\ request' = request /\ panicked' = panicked
  BY DEF FinishCleanup
<1>3. Len(pages) \in Nat /\ Len(pagesTmp) \in Nat
  BY <1>1, VectorForms
<1>4. RestPages = {} /\ Numbers = DOMAIN pagesTmp
  <2>1. \A b \in Nat : (b + 1) .. b = {}
    OBVIOUS
  <2>2. RestPages = (Len(pages) + 1) .. Len(pages)
    BY <1>2 DEF RestPages
  <2>3. RestPages = {}
    BY <1>3, <2>1, <2>2
  <2> QED BY <2>3 DEF Numbers
<1>5. Numbers' = DOMAIN pagesTmp
  BY <1>2 DEF RestPages, Numbers
<1>6. \A n \in Numbers : At(n)' = At(n)
  BY <1>2, <1>4 DEF At
<1>7. Arranged' /\ SameLives
  BY <1>2, <1>4, <1>5, <1>6, Undisturbed, UndisturbedLives
<1>8. TypeOK'
  <2>1. index' \in 1 .. (Len(pages') + 1)
    BY <1>2, <1>3
  <2> QED BY <1>1, <1>2, <2>1 DEF TypeOK
<1>9. InLoop' /\ AllocFits'
  BY <1>2 DEF ViewInv, InLoop, AllocFits
<1> QED BY <1>7, <1>8, <1>9 DEF ViewInv

LEMMA StutterInv ==
  ASSUME ViewInv, UNCHANGED vars
  PROVE  ViewInv' /\ SameLives
<1>1. TypeOK' /\ InLoop' /\ AllocFits'
  BY DEF vars, ViewInv, TypeOK, InLoop, Accept, AllocFits
<1>2. Arranged' /\ SameLives
  BY Undisturbed, UndisturbedLives DEF vars, Numbers, RestPages, At
<1> QED BY <1>1, <1>2 DEF ViewInv

LEMMA NextInv ==
  ASSUME ViewInv, [Next]_vars
  PROVE  ViewInv'
<1>1. CASE Reserve
  BY <1>1, CoalesceForReserveInv, TryPageInv, NextPageInv, AllocInv, AllocFailsInv
     DEF Reserve
<1>2. CASE Cleanup
  BY <1>2, StartCleanupInv, CoalesceForCleanupInv, DeallocPageInv, KeepPageInv,
     FinishCleanupInv
     DEF Cleanup
<1>3. ASSUME NEW d \in Descriptors, NewHandle(d) \/ Release(d) PROVE ViewInv'
  BY <1>3, NewHandleInv, ReleaseInv
<1>4. ASSUME NEW size \in Sizes, StartReserve(size) PROVE ViewInv'
  BY <1>4, StartReserveInv
<1>5. ASSUME NEW reserved \in Descriptors, NEW new \in Descriptors, Bind(reserved, new)
      PROVE  ViewInv'
  BY <1>5, BindInv
<1> QED BY <1>1, <1>2, <1>3, <1>4, <1>5, StutterInv DEF Next

-----------------------------------------------------------------------------
(* The theorems *)

\* In every reachable state the descriptors of a page know its number and their
\* positions, the slices of a page follow each other in its buffer, and each
\* buffer of the device belongs to one page, in a cleanup() as well.
THEOREM PoolInvariant == Spec => []PoolInv
<1>1. Init => ViewInv
  BY InitInv
<1>2. ViewInv /\ [Next]_vars => ViewInv'
  BY NextInv
<1> QED BY <1>1, <1>2, FromView, PTL DEF Spec

\* A binding leads to its own slice: get() never looks at another one's memory.
THEOREM BindingFindsSlice == Spec => []FindsSlice
<1>1. PoolInv => FindsSlice
  <2> SUFFICES ASSUME PoolInv, pc = "idle", NEW d \in held
               PROVE  IF InPool(d)
                      THEN LET at == location[d]
                           IN /\ at.page + 1 \in DOMAIN pages
                              /\ at.slice \in DOMAIN pages[at.page + 1].slices
                              /\ pages[at.page + 1].slices[at.slice].handle = d
                      ELSE location[d] = Uninit
    BY DEF FindsSlice
  <2>1. TypeOK /\ InLoop /\ Placed
    BY DEF PoolInv
  <2>2. pagesTmp = << >>
    BY <2>1 DEF InLoop
  <2>3. CASE InPool(d)
    <3>1. PICK p \in DOMAIN pages : Has(pages[p].slices, d)
      BY <2>2, <2>3 DEF InPool, PagesHeld, RestPages
    <3>2. PICK i \in DOMAIN pages[p].slices : pages[p].slices[i].handle = d
      BY <3>1 DEF Has
    <3>3. location[d] = [page |-> p - 1, slice |-> i]
      BY <2>1, <3>2 DEF Placed, RestPages, Numbered
    <3>4. p \in Nat
      BY <2>1, VectorForms
    <3>5. location[d].page + 1 = p /\ location[d].slice = i
      BY <3>3, <3>4
    <3> QED BY <2>3, <3>2, <3>5
  <2>4. CASE ~InPool(d)
    <3>1. d \in Descriptors
      BY <2>1 DEF TypeOK
    <3> QED BY <2>1, <2>4, <3>1 DEF Placed
  <2> QED BY <2>3, <2>4
<1> QED BY <1>1, PoolInvariant, PTL

\* A new page is large enough for every size that accept() lets through.
THEOREM NewPagesFit == Spec => []AllocFits
<1>1. PoolInv => AllocFits
  BY DEF PoolInv
<1> QED BY <1>1, PoolInvariant, PTL

-----------------------------------------------------------------------------
(* The allocator *)

Place(x) ==
  [handle |-> x[2].handle,
   offset |-> StorageNumber[x[1]] * PageSize + x[2].offset,
   size |-> EffectiveSize(x[2])]

OwnedIsPlaces == \A r : r \in Owned <=> \E x : Lives(x) /\ r = Place(x)

LivesTyped ==
  \A x : Lives(x) =>
    /\ x[1] \in Storages
    /\ x[2] \in Slice
    /\ x[2].handle \in Descriptors
    /\ x[2].handle \in held
    /\ Known(x[2].handle)
    /\ End(x[2]) <= PageSize

LivesDisjoint ==
  \A x, y : Lives(x) /\ Lives(y) =>
    \/ x = y
    \/ x[2].handle # y[2].handle /\ Allocator!Disjoint(Place(x), Place(y))

\* The buffers have a number each.
LEMMA NumbersExist ==
  /\ Cardinality(Storages) \in Nat
  /\ StorageNumber \in [Storages -> 0 .. (Cardinality(Storages) - 1)]
  /\ \A s, t \in Storages : StorageNumber[s] = StorageNumber[t] => s = t
<1>1. Cardinality(Storages) \in Nat /\ ExistsBijection(1 .. Cardinality(Storages), Storages)
  BY PoolAssumption, FS_CardinalityType
<1>2. PICK k \in Nat : k = Cardinality(Storages)
  BY <1>1
<1>3. PICK f : f \in Bijection(1 .. k, Storages)
  BY <1>1, <1>2 DEF ExistsBijection
<1>4. f \in [1 .. k -> Storages] /\ \A s \in Storages : \E i \in 1 .. k : f[i] = s
  BY <1>3 DEF Bijection, Injection, Surjection
<1> DEFINE pos(s) == CHOOSE i \in 1 .. k : f[i] = s
           g == [s \in Storages |-> pos(s) - 1]
<1>5. \A s \in Storages : pos(s) \in 1 .. k /\ f[pos(s)] = s
  BY <1>4
<1> HIDE DEF pos
<1>6. \A s \in Storages : pos(s) - 1 \in 0 .. (k - 1)
  BY <1>5
<1>7. g \in [Storages -> 0 .. (k - 1)]
  BY <1>6
<1>8. \A s, t \in Storages : g[s] = g[t] => s = t
  <2>1. TAKE s, t \in Storages
  <2>2. g[s] = pos(s) - 1 /\ g[t] = pos(t) - 1
    OBVIOUS
  <2>3. pos(s) \in 1 .. k /\ pos(t) \in 1 .. k /\ f[pos(s)] = s /\ f[pos(t)] = t
    BY <1>5
  <2>4. pos(s) - 1 = pos(t) - 1 => pos(s) = pos(t)
    BY <2>3
  <2> QED BY <2>2, <2>3, <2>4
<1> HIDE DEF g
<1>9. \E n \in [Storages -> 0 .. (Cardinality(Storages) - 1)] : IsInjective(n)
  BY <1>2, <1>7, <1>8 DEF IsInjective
<1>10. StorageNumber \in [Storages -> 0 .. (Cardinality(Storages) - 1)]
       /\ IsInjective(StorageNumber)
  BY <1>9 DEF StorageNumber
<1> QED BY <1>1, <1>10 DEF IsInjective

\* A buffer ends where the next one begins, or before.
LEMMA Grid ==
  ASSUME NEW a \in Nat, NEW b \in Nat, a < b, NEW k \in Nat
  PROVE  a * k \in Nat /\ b * k \in Nat /\ a * k + k <= b * k
<1>1. PICK c \in Nat : b = (a + 1) + c
  <2>1. b - (a + 1) \in Nat /\ b = (a + 1) + (b - (a + 1))
    OBVIOUS
  <2> QED BY <2>1
<1>2. b * k = (a * k + k) + c * k
  BY <1>1
<1>3. a * k \in Nat /\ c * k \in Nat
  OBVIOUS
<1> QED BY <1>2, <1>3

LEMMA ViewPlaces == ViewInv => OwnedIsPlaces
<1> SUFFICES ASSUME ViewInv, NEW r
             PROVE  r \in Owned <=> \E x : Lives(x) /\ r = Place(x)
  BY DEF OwnedIsPlaces
<1>1. PagesHeld = {At(n) : n \in Numbers}
  BY Numbering DEF ViewInv
<1>2. ASSUME NEW x
      PROVE  Lives(x) <=> x \in SlicesHeld /\ x[2].handle \in held
  <2>1. x \in SlicesHeld <=>
          \E n \in Numbers : \E i \in DOMAIN At(n).slices : x = << At(n).storage, At(n).slices[i] >>
    BY <1>1 DEF SlicesHeld
  <2>2. \A n : \A i : x = << At(n).storage, At(n).slices[i] >> => x[2] = At(n).slices[i]
    OBVIOUS
  <2> QED BY <2>1, <2>2 DEF Lives
<1>3. r \in Owned <=> \E x \in SlicesHeld : x[2].handle \in held /\ r = Place(x)
  BY DEF Owned, Place
<1> QED BY <1>2, <1>3

LEMMA ViewTyped == ViewInv => LivesTyped
<1> SUFFICES ASSUME ViewInv, NEW x, Lives(x)
             PROVE  /\ x[1] \in Storages
                    /\ x[2] \in Slice
                    /\ x[2].handle \in Descriptors
                    /\ x[2].handle \in held
                    /\ Known(x[2].handle)
                    /\ End(x[2]) <= PageSize
  BY DEF LivesTyped
<1>1. PICK n \in Numbers : \E i \in DOMAIN At(n).slices :
        x = << At(n).storage, At(n).slices[i] >> /\ At(n).slices[i].handle \in held
  BY DEF Lives
<1>2. PICK i \in DOMAIN At(n).slices :
        x = << At(n).storage, At(n).slices[i] >> /\ At(n).slices[i].handle \in held
  BY <1>1
<1>3. At(n) \in Page /\ LaidOut(At(n).slices)
  BY Numbering DEF ViewInv, Arranged
<1>4. At(n).storage \in Storages /\ At(n).slices \in Seq(Slice)
  BY <1>3, PageForms
<1>5. At(n).slices[i] \in Slice /\ At(n).slices[i].handle \in Descriptors
      /\ End(At(n).slices[i]) <= PageSize
  BY <1>2, <1>3, <1>4, SliceForms DEF LaidOut
<1>6. Known(At(n).slices[i].handle)
  BY <1>2 DEF Known, Has
<1>7. x[1] = At(n).storage /\ x[2] = At(n).slices[i]
  BY <1>2
<1> QED BY <1>2, <1>4, <1>5, <1>6, <1>7

\* Where a slice is in all the buffers together.
LEMMA PlaceForms ==
  ASSUME NEW x, x[1] \in Storages, x[2] \in Slice
  PROVE  /\ StorageNumber[x[1]] \in Nat
         /\ StorageNumber[x[1]] * PageSize \in Nat
         /\ Place(x).handle = x[2].handle
         /\ Place(x).offset = StorageNumber[x[1]] * PageSize + x[2].offset
         /\ Place(x).size = EffectiveSize(x[2])
         /\ Place(x).offset \in Nat
         /\ Place(x).size \in Nat
         /\ x[2].offset \in Nat
         /\ End(x[2]) = x[2].offset + EffectiveSize(x[2])
         /\ Place(x).offset + Place(x).size = StorageNumber[x[1]] * PageSize + End(x[2])
<1>1. PICK a \in Nat : a = StorageNumber[x[1]]
  BY NumbersExist
<1>2. PICK b \in Nat : b = a * PageSize
  BY PoolAssumption
<1>3. /\ x[2].offset \in Nat /\ EffectiveSize(x[2]) \in Nat
      /\ End(x[2]) = x[2].offset + EffectiveSize(x[2])
  BY SliceEnds
<1>4. /\ Place(x).handle = x[2].handle
      /\ Place(x).offset = b + x[2].offset
      /\ Place(x).size = EffectiveSize(x[2])
  BY <1>1, <1>2 DEF Place
<1>5. Place(x).offset + Place(x).size = b + End(x[2])
  BY <1>3, <1>4
<1> QED BY <1>1, <1>2, <1>3, <1>4, <1>5

LEMMA ViewDisjoint == ViewInv => LivesDisjoint
<1> SUFFICES ASSUME ViewInv, NEW x, NEW y, Lives(x), Lives(y), x # y
             PROVE  x[2].handle # y[2].handle /\ Allocator!Disjoint(Place(x), Place(y))
  BY DEF LivesDisjoint
<1>1. PICK m \in Numbers : \E i \in DOMAIN At(m).slices : x = << At(m).storage, At(m).slices[i] >>
  BY DEF Lives
<1>2. PICK n \in Numbers : \E j \in DOMAIN At(n).slices : y = << At(n).storage, At(n).slices[j] >>
  BY DEF Lives
<1>3. PICK i \in DOMAIN At(m).slices : x = << At(m).storage, At(m).slices[i] >>
  BY <1>1
<1>4. PICK j \in DOMAIN At(n).slices : y = << At(n).storage, At(n).slices[j] >>
  BY <1>2
<1>5. /\ x[1] = At(m).storage /\ x[2] = At(m).slices[i]
      /\ y[1] = At(n).storage /\ y[2] = At(n).slices[j]
  BY <1>3, <1>4
<1>6. /\ x[1] \in Storages /\ x[2] \in Slice /\ End(x[2]) <= PageSize
      /\ y[1] \in Storages /\ y[2] \in Slice /\ End(y[2]) <= PageSize
  BY ViewTyped DEF LivesTyped
<1>7. PICK a \in Nat, b \in Nat : a = StorageNumber[x[1]] /\ b = StorageNumber[y[1]]
  BY <1>6, PlaceForms
<1>8. PICK A \in Nat, B \in Nat : A = a * PageSize /\ B = b * PageSize
  BY <1>6, <1>7, PlaceForms
<1>9. /\ Place(x).offset = A + x[2].offset /\ Place(y).offset = B + y[2].offset
      /\ Place(x).offset + Place(x).size = A + End(x[2])
      /\ Place(y).offset + Place(y).size = B + End(y[2])
      /\ x[2].offset \in Nat /\ End(x[2]) \in Nat
      /\ y[2].offset \in Nat /\ End(y[2]) \in Nat
  BY <1>6, <1>7, <1>8, PlaceForms, SliceEnds
<1>10. PageSize \in Nat
  BY PoolAssumption
<1>11. CASE m = n
  <2>1. At(m) \in Page /\ LaidOut(At(m).slices) /\ Distinct(At(m).slices)
    BY Numbering, Apart DEF ViewInv, Arranged
  <2>2. At(m).slices \in Seq(Slice)
    BY <2>1, PageForms
  <2>3. i \in Nat /\ j \in Nat /\ i # j /\ j \in DOMAIN At(m).slices
    <3>1. Len(At(m).slices) \in Nat /\ DOMAIN At(m).slices = 1 .. Len(At(m).slices)
      BY <2>2, LenProperties
    <3>2. i # j /\ j \in DOMAIN At(m).slices
      BY <1>3, <1>4, <1>11
    <3> QED BY <3>1, <3>2
  <2>4. A = B
    BY <1>5, <1>7, <1>8, <1>11
  <2>5. x[2].handle # y[2].handle
    BY <1>5, <1>11, <2>1, <2>3 DEF Distinct
  <2>6. End(x[2]) <= y[2].offset \/ End(y[2]) <= x[2].offset
    <3>1. i < j \/ j < i
      BY <2>3
    <3> QED BY <1>5, <1>11, <2>1, <2>3, <3>1 DEF LaidOut
  <2>7. A + End(x[2]) <= B + y[2].offset \/ B + End(y[2]) <= A + x[2].offset
    BY <1>9, <2>4, <2>6
  <2> QED BY <1>9, <2>5, <2>7 DEF Allocator!Disjoint
<1>12. CASE m # n
  <2>1. x[1] # y[1]
    BY <1>5, <1>12 DEF ViewInv, Arranged
  <2>2. a # b
    BY <1>6, <1>7, <2>1, NumbersExist
  <2>3. x[2].handle # y[2].handle
    <3>1. Has(At(m).slices, x[2].handle) /\ Has(At(n).slices, y[2].handle)
      BY <1>5 DEF Has
    <3> QED BY <1>12, <3>1, Apart
  <2>4. CASE a < b
    <3>1. A + PageSize <= B
      BY <1>8, <1>10, <2>4, Grid
    <3>2. A + End(x[2]) <= B + y[2].offset
      BY <1>6, <1>9, <1>10, <3>1
    <3> QED BY <1>9, <2>3, <3>2 DEF Allocator!Disjoint
  <2>5. CASE b < a
    <3>1. B + PageSize <= A
      BY <1>8, <1>10, <2>5, Grid
    <3>2. B + End(y[2]) <= A + x[2].offset
      BY <1>6, <1>9, <1>10, <3>1
    <3> QED BY <1>9, <2>3, <3>2 DEF Allocator!Disjoint
  <2> QED BY <2>2, <2>4, <2>5
<1> QED BY <1>11, <1>12

LEMMA ViewAfter ==
  ViewInv' => OwnedIsPlaces' /\ LivesTyped' /\ LivesDisjoint'
BY ViewPlaces, ViewTyped, ViewDisjoint, PTL

LEMMA Stutters ==
  ASSUME ViewInv, ViewInv', SameLives
  PROVE  Owned' = Owned
<1>1. \A r : r \in Owned <=> \E x : Lives(x) /\ r = Place(x)
  BY ViewPlaces DEF OwnedIsPlaces
<1>2. \A r : r \in Owned' <=> \E x : Lives(x)' /\ r = Place(x)
  BY ViewAfter DEF OwnedIsPlaces, Place, EffectiveSize
<1>3. \A r : r \in Owned' <=> r \in Owned
  BY <1>1, <1>2 DEF SameLives
<1> QED BY <1>3 DEF Owned

\* A reserve gives a region that is inside the buffers and meets none in use.
LEMMA GainAllocates ==
  ASSUME ViewInv, ViewInv', NEW y, MoreLives(y), y[2].handle \notin held
  PROVE  Allocator!Next
<1>1. Lives(y)' /\ \A x : Lives(x) => Lives(x)' /\ x # y
  BY ViewTyped DEF MoreLives, LivesTyped
<1>2. y[1] \in Storages /\ y[2] \in Slice /\ End(y[2]) <= PageSize /\ y[2].handle \in Descriptors
  BY <1>1, ViewAfter DEF LivesTyped, End, EffectiveSize
<1>3. PICK r : r = Place(y)
  OBVIOUS
<1>4. Owned' = Owned \cup {r}
  <2>1. \A s : s \in Owned <=> \E x : Lives(x) /\ s = Place(x)
    BY ViewPlaces DEF OwnedIsPlaces
  <2>2. \A s : s \in Owned' <=> \E x : Lives(x)' /\ s = Place(x)
    BY ViewAfter DEF OwnedIsPlaces, Place, EffectiveSize
  <2>3. \A s : s \in Owned' <=> s \in Owned \/ s = r
    BY <1>3, <2>1, <2>2 DEF MoreLives
  <2> QED BY <2>3 DEF Owned
<1>5. PICK n \in Nat, k \in Nat : n = StorageNumber[y[1]] /\ k = Cardinality(Storages)
  BY <1>2, NumbersExist
<1>6. PICK all \in Nat : all = k * PageSize
  BY PoolAssumption
<1>7. /\ r.handle \in Descriptors /\ r.offset \in Nat /\ r.size \in Nat
      /\ r.offset + r.size = n * PageSize + End(y[2])
      /\ End(y[2]) \in Nat
  BY <1>2, <1>3, <1>5, PlaceForms, SliceEnds
<1>8. r.offset + r.size <= all
  <2>1. n < k
    BY <1>2, <1>5, NumbersExist
  <2>2. n * PageSize \in Nat /\ n * PageSize + PageSize <= all /\ PageSize \in Nat
    BY <1>6, <2>1, Grid, PoolAssumption
  <2> QED BY <1>2, <1>7, <2>2
<1>9. r \in [handle: Descriptors, offset: 0 .. all, size: 0 .. all]
  <2>1. r.offset \in 0 .. all /\ r.size \in 0 .. all
    BY <1>7, <1>8
  <2>2. r = [handle |-> r.handle, offset |-> r.offset, size |-> r.size]
    BY <1>3 DEF Place
  <2> QED BY <1>7, <2>1, <2>2
<1>10. \A s \in Owned : s.handle # r.handle /\ Allocator!Disjoint(r, s)
  <2>1. TAKE s \in Owned
  <2>2. PICK x : Lives(x) /\ s = Place(x)
    BY ViewPlaces DEF OwnedIsPlaces
  <2>3. Lives(x)' /\ x # y
    BY <1>1, <2>2
  <2>4. y[2].handle # x[2].handle /\ Allocator!Disjoint(Place(y), Place(x))
    BY <1>1, <2>3, ViewAfter DEF LivesDisjoint, Allocator!Disjoint, Place, EffectiveSize
  <2>5. s.handle = x[2].handle /\ r.handle = y[2].handle
    BY <1>3, <2>2 DEF Place
  <2> QED BY <1>3, <2>2, <2>4, <2>5
<1>11. Allocator!Allocate(r)
  BY <1>4, <1>5, <1>6, <1>8, <1>9, <1>10 DEF Allocator!Allocate, Allocator!Region
<1> QED BY <1>4, <1>11 DEF Allocator!Next

\* The last reference to a handle frees the region of its slice, if it has one.
LEMMA FewerFrees ==
  ASSUME ViewInv, ViewInv', NEW d \in Descriptors, FewerLives(d)
  PROVE  Allocator!Next \/ Owned' = Owned
<1>1. CASE \A x : Lives(x) => x[2].handle # d
  <2>1. SameLives
    BY <1>1 DEF FewerLives, SameLives
  <2> QED BY <2>1, Stutters
<1>2. CASE \E x : Lives(x) /\ x[2].handle = d
  <2>1. PICK x : Lives(x) /\ x[2].handle = d
    BY <1>2
  <2>2. PICK r : r = Place(x)
    OBVIOUS
  <2>3. \A s : s \in Owned <=> \E y : Lives(y) /\ s = Place(y)
    BY ViewPlaces DEF OwnedIsPlaces
  <2>4. \A s : s \in Owned' <=> \E y : Lives(y)' /\ s = Place(y)
    BY ViewAfter DEF OwnedIsPlaces, Place, EffectiveSize
  <2>5. \A y : Place(y).handle = y[2].handle
    BY DEF Place
  <2>6. \A y : Lives(y) /\ y[2].handle = d => y = x
    BY <2>1, ViewDisjoint DEF LivesDisjoint
  <2>7. \A y : Lives(y)' <=> Lives(y) /\ y[2].handle # d
    BY DEF FewerLives
  <2>8. r.handle = d
    BY <2>1, <2>2, <2>5
  <2>9. \A s : s \in Owned' <=> s \in Owned /\ s # r
    <3>1. ASSUME NEW s, s \in Owned' PROVE s \in Owned /\ s # r
      <4>1. PICK y : Lives(y) /\ y[2].handle # d /\ s = Place(y)
        BY <2>4, <2>7, <3>1
      <4>2. s.handle # d
        BY <2>5, <4>1
      <4> QED BY <2>3, <2>8, <4>1, <4>2
    <3>2. ASSUME NEW s, s \in Owned, s # r PROVE s \in Owned'
      <4>1. PICK y : Lives(y) /\ s = Place(y)
        BY <2>3, <3>2
      <4>2. y[2].handle # d
        BY <2>2, <2>6, <3>2, <4>1
      <4> QED BY <2>4, <2>7, <4>1, <4>2
    <3> QED BY <3>1, <3>2
  <2>10. Owned' = Owned \ {r} /\ r \in Owned
    <3>1. r \in Owned
      BY <2>1, <2>2, <2>3
    <3>2. Owned' = Owned \ {r}
      BY <2>9 DEF Owned
    <3> QED BY <3>1, <3>2
  <2> QED BY <2>10 DEF Allocator!Free, Allocator!Next
<1> QED BY <1>1, <1>2

\* bind() hands the region of the reserved handle over to the user's.
LEMMA OtherRebinds ==
  ASSUME ViewInv, ViewInv', NEW d \in Descriptors, NEW new \in Descriptors, ~Known(new),
         NEW x, Lives(x), x[2].handle = d,
         OtherLives(d, << x[1], [x[2] EXCEPT !.handle = new] >>)
  PROVE  Allocator!Next
<1>1. PICK y : y = << x[1], [x[2] EXCEPT !.handle = new] >>
  OBVIOUS
<1>2. PICK r, t : r = Place(x) /\ t = Place(y)
  OBVIOUS
<1>3. x[2] \in Slice
  BY ViewTyped DEF LivesTyped
<1>4. y[1] = x[1] /\ y[2] = [x[2] EXCEPT !.handle = new]
  BY <1>1
<1>5. y[2].handle = new /\ y[2].offset = x[2].offset /\ EffectiveSize(y[2]) = EffectiveSize(x[2])
  BY <1>3, <1>4 DEF Slice, EffectiveSize
<1>6. t = [r EXCEPT !.handle = new]
  BY <1>2, <1>4, <1>5 DEF Place
<1>7. \A s : s \in Owned <=> \E z : Lives(z) /\ s = Place(z)
  BY ViewPlaces DEF OwnedIsPlaces
<1>8. \A s : s \in Owned' <=> \E z : Lives(z)' /\ s = Place(z)
  BY ViewAfter DEF OwnedIsPlaces, Place, EffectiveSize
<1>9. \A z : Place(z).handle = z[2].handle
  BY DEF Place
<1>10. \A z : Lives(z) /\ z[2].handle = d => z = x
  BY ViewDisjoint DEF LivesDisjoint
<1>11. \A z : Lives(z)' <=> (Lives(z) /\ z[2].handle # d) \/ z = y
  BY <1>1 DEF OtherLives
<1>12. r.handle = d /\ r \in Owned
  BY <1>2, <1>7, <1>9
<1>13. \A s : s \in Owned' <=> (s \in Owned /\ s # r) \/ s = t
  <2>1. ASSUME NEW s, s \in Owned' PROVE (s \in Owned /\ s # r) \/ s = t
    <3>1. PICK z : Lives(z)' /\ s = Place(z)
      BY <1>8, <2>1
    <3>2. CASE z = y
      BY <1>2, <3>1, <3>2
    <3>3. CASE Lives(z) /\ z[2].handle # d
      BY <1>7, <1>9, <1>12, <3>1, <3>3
    <3> QED BY <1>11, <3>1, <3>2, <3>3
  <2>2. ASSUME NEW s, s \in Owned, s # r PROVE s \in Owned'
    <3>1. PICK z : Lives(z) /\ s = Place(z)
      BY <1>7, <2>2
    <3>2. z[2].handle # d
      BY <1>2, <1>10, <2>2, <3>1
    <3> QED BY <1>8, <1>11, <3>1, <3>2
  <2>3. t \in Owned'
    BY <1>2, <1>8, <1>11
  <2> QED BY <2>1, <2>2, <2>3
<1>14. Owned' = (Owned \ {r}) \cup {[r EXCEPT !.handle = new]}
  <2>1. Owned' = (Owned \ {r}) \cup {t}
    BY <1>13 DEF Owned
  <2> QED BY <1>6, <2>1
<1>15. \A s \in Owned : s.handle # new
  <2>1. TAKE s \in Owned
  <2>2. PICK z : Lives(z) /\ s = Place(z)
    BY <1>7
  <2>3. Known(z[2].handle)
    BY <2>2, ViewTyped DEF LivesTyped
  <2> QED BY <1>9, <2>2, <2>3
<1> QED BY <1>12, <1>14, <1>15 DEF Allocator!Rebind, Allocator!Next

\* The pool implements the allocator that one page implements (RefinesAllocator):
\* its buffers laid one after the other, for any number of pages: what coalesce(),
\* the renumbering of the pages and cleanup() do is invisible to who holds a region,
\* and a page that is given back had none.
THEOREM PoolRefinesAllocator == Spec => RefinesAllocator
<1>1. Init => Allocator!Init
  <2> SUFFICES ASSUME Init PROVE Owned = {}
    BY DEF Allocator!Init
  <2>1. \A x : ~Lives(x)
    BY DEF Init, Lives
  <2>2. OwnedIsPlaces
    BY InitInv, ViewPlaces
  <2> QED BY <2>1, <2>2 DEF OwnedIsPlaces
<1>2. ViewInv /\ [Next]_vars => [Allocator!Next]_Owned
  <2> SUFFICES ASSUME ViewInv, [Next]_vars PROVE Allocator!Next \/ Owned' = Owned
    OBVIOUS
  <2>1. ViewInv'
    BY NextInv
  <2>2. CASE Reserve
    <3>1. SameLives \/ \E y : MoreLives(y) /\ y[2].handle \notin held
      BY <2>2, CoalesceForReserveInv, TryPageInv, NextPageInv, AllocInv, AllocFailsInv
         DEF Reserve
    <3> QED BY <2>1, <3>1, Stutters, GainAllocates
  <2>3. CASE Cleanup
    <3>1. SameLives
      BY <2>3, StartCleanupInv, CoalesceForCleanupInv, DeallocPageInv, KeepPageInv,
         FinishCleanupInv
         DEF Cleanup
    <3> QED BY <2>1, <3>1, Stutters
  <2>4. ASSUME NEW d \in Descriptors, NewHandle(d) \/ Release(d)
        PROVE  Allocator!Next \/ Owned' = Owned
    <3>1. SameLives \/ FewerLives(d)
      BY <2>4, NewHandleInv, ReleaseInv
    <3> QED BY <2>1, <3>1, Stutters, FewerFrees
  <2>5. ASSUME NEW size \in Sizes, StartReserve(size)
        PROVE  Allocator!Next \/ Owned' = Owned
    <3>1. SameLives
      BY <2>5, StartReserveInv
    <3> QED BY <2>1, <3>1, Stutters
  <2>6. ASSUME NEW reserved \in Descriptors, NEW new \in Descriptors, Bind(reserved, new)
        PROVE  Allocator!Next \/ Owned' = Owned
    <3>1. ~Known(new)
      BY <2>6, BindInv
    <3>2. PICK x : /\ Lives(x) /\ x[2].handle = reserved
                   /\ OtherLives(reserved, << x[1], [x[2] EXCEPT !.handle = new] >>)
      BY <2>6, BindInv
    <3> QED BY <2>1, <3>1, <3>2, OtherRebinds
  <2>7. CASE UNCHANGED vars
    BY <2>1, <2>7, StutterInv, Stutters
  <2> QED BY <2>2, <2>3, <2>4, <2>5, <2>6, <2>7 DEF Next
<1>3. Init => ViewInv
  BY InitInv
<1>4. ViewInv /\ [Next]_vars => ViewInv'
  BY NextInv
<1> QED BY <1>1, <1>2, <1>3, <1>4, PTL DEF Spec, RefinesAllocator, Allocator!Spec
=============================================================================
