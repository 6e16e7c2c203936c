------------------------ MODULE PersistentPoolProofs ------------------------
(***************************************************************************)
(* Theorems about PersistentPool: the inductive invariant PoolInv, and     *)
(* what follows from it.                                                   *)
(***************************************************************************)
EXTENDS PersistentPool, CommonProofs

\* The slices of the pool and their fields.
LEMMA SliceForms ==
  ASSUME PoolInv
  PROVE  /\ slices \in Seq(PersistentSlice)
         /\ Len(slices) \in Nat
         /\ DOMAIN slices = 1 .. Len(slices)
         /\ \A i \in DOMAIN slices :
              /\ slices[i] \in PersistentSlice
              /\ slices[i].size \in Nat
              /\ slices[i].padding \in Nat
              /\ slices[i].handle \in Descriptors
              /\ slices[i].storage \in Storages
<1>1. slices \in Seq(PersistentSlice)
  BY DEF PoolInv, TypeOK
<1>2. Len(slices) \in Nat /\ DOMAIN slices = 1 .. Len(slices)
  BY <1>1, LenProperties
<1>3. \A i \in DOMAIN slices : slices[i] \in PersistentSlice
  BY <1>1, <1>2, ElementOfSeq
<1> QED BY <1>1, <1>2, <1>3 DEF PersistentSlice

\* What a key lists are positions of slices.
LEMMA IndexForms ==
  ASSUME PoolInv, NEW k \in DOMAIN sizes
  PROVE  /\ k \in Nat
         /\ Len(sizes[k]) \in Nat
         /\ DOMAIN sizes[k] = 1 .. Len(sizes[k])
         /\ \A n \in DOMAIN sizes[k] : sizes[k][n] \in DOMAIN slices
<1>1. sizes[k] \in Seq(DOMAIN slices) /\ k \in Nat
  BY DEF PoolInv, TypeOK
<1>2. Len(sizes[k]) \in Nat /\ DOMAIN sizes[k] = 1 .. Len(sizes[k])
  BY <1>1, LenProperties
<1> QED BY <1>1, <1>2, ElementOfSeq

\* Aligned numbers less than an alignment apart are in order.
LEMMA AlignedWithin ==
  ASSUME NEW n \in Nat, n % Alignment = 0,
         NEW room \in Nat, room % Alignment = 0, n < room + Alignment
  PROVE  n <= room
<1>1. Alignment \in Nat \ {0}
  BY PersistentAssumption
<1>2. CASE n > room
  <2>1. PICK q \in Nat : n = Alignment * q
    <3>1. PICK q \in Nat : q = n \div Alignment
      BY <1>1, DivMod
    <3>2. n = Alignment * q + 0
      BY <1>1, <3>1, DivMod
    <3> QED BY <1>1, <3>2
  <2>2. PICK r \in Nat : room = Alignment * r
    <3>1. PICK r \in Nat : r = room \div Alignment
      BY <1>1, DivMod
    <3>2. room = Alignment * r + 0
      BY <1>1, <3>1, DivMod
    <3> QED BY <1>1, <3>2
  <2>3. q >= r + 1
    <3>1. SUFFICES ASSUME q <= r PROVE FALSE
      OBVIOUS
    <3>2. Alignment * q <= Alignment * r
      BY <1>1, <3>1
    <3> QED BY <1>2, <2>1, <2>2, <3>2
  <2>4. Alignment * q >= Alignment * (r + 1)
    BY <1>1, <2>3
  <2>5. Alignment * (r + 1) = Alignment * r + Alignment
    BY <1>1
  <2> QED BY <1>1, <2>1, <2>2, <2>4, <2>5
<1> QED BY <1>2

\* The parts of the invariant that depend on the slices, the index, the
\* locations and the buffers only.
LEMMA SameInv ==
  ASSUME PoolInv, UNCHANGED <<slices, sizes, location, buffers>>,
         mode' \in {"auto", "persistent"}, held' \subseteq Descriptors
  PROVE  PoolInv'
<1>1. TypeOK' /\ Located'
  BY DEF PoolInv, TypeOK, Located, InPool
<1>2. IndexComplete'
  BY DEF PoolInv, IndexComplete
<1>3. BuffersOwned'
  BY Zenon DEF PoolInv, BuffersOwned
<1>4. BuffersAligned' /\ KeysFit' /\ SizeFitsBuffer'
  BY DEF PoolInv, BuffersAligned, KeysFit, SizeFitsBuffer
<1> QED BY <1>1, <1>2, <1>3, <1>4 DEF PoolInv

LEMMA InitInv ==
  ASSUME Init
  PROVE  PoolInv
<1>1. /\ slices = <<>> /\ slices \in Seq(PersistentSlice) /\ DOMAIN slices = {}
      /\ sizes = <<>> /\ DOMAIN sizes = {} /\ buffers = {}
  BY DEF Init
<1>2. TypeOK
  BY <1>1 DEF Init, TypeOK
<1>3. Located
  BY <1>1 DEF Init, Located
<1> QED BY <1>1, <1>2, <1>3
        DEF PoolInv, IndexComplete, BuffersOwned, BuffersAligned, KeysFit, SizeFitsBuffer

LEMMA NewHandleInv ==
  ASSUME PoolInv, NEW d \in Descriptors, NewHandle(d)
  PROVE  PoolInv'
<1>1. held' \subseteq Descriptors /\ mode' \in {"auto", "persistent"}
  BY DEF NewHandle, PoolInv, TypeOK
<1> QED BY <1>1, SameInv DEF NewHandle

\* The location of a handle the pool does not know is the initial one already.
LEMMA ReleaseInv ==
  ASSUME PoolInv, NEW d \in Descriptors, Release(d)
  PROVE  PoolInv'
<1>1. held' \subseteq Descriptors /\ mode' \in {"auto", "persistent"}
  BY DEF Release, PoolInv, TypeOK
<1>2. location' = location
  <2>1. CASE InPool(d)
    BY <2>1 DEF Release
  <2>2. CASE ~InPool(d)
    <3>1. location[d] = -1 /\ location \in [Descriptors -> Nat \cup {-1}]
      BY <2>2 DEF PoolInv, Located, TypeOK
    <3> QED BY <2>2, <3>1 DEF Release
  <2> QED BY <2>1, <2>2
<1> QED BY <1>1, <1>2, SameInv DEF Release

LEMMA SetModeInv ==
  ASSUME PoolInv, SetMode
  PROVE  PoolInv'
<1>1. held' \subseteq Descriptors /\ mode' \in {"auto", "persistent"}
  BY DEF SetMode, PoolInv, TypeOK
<1> QED BY <1>1, SameInv DEF SetMode

\* A request finds a slice under an aligned key, so its buffer is large enough.
LEMMA TryReserveInv ==
  ASSUME PoolInv, NEW size \in Sizes, TryReserve(size)
  PROVE  PoolInv'
<1>1. PICK i \in DOMAIN slices :
        /\ FirstFree(size, i)
        /\ slices' = [slices EXCEPT ![i].size = size, ![i].offset = 0]
        /\ held' = held \cup {slices[i].handle}
        /\ UNCHANGED <<mode, sizes, location, buffers>>
  BY DEF TryReserve
<1>2. size \in Nat
  BY PersistentAssumption
<1>3. /\ slices \in Seq(PersistentSlice) /\ Len(slices) \in Nat
      /\ DOMAIN slices = 1 .. Len(slices)
      /\ slices[i] \in PersistentSlice /\ slices[i].handle \in Descriptors
  BY SliceForms
<1> DEFINE new == [slices[i] EXCEPT !.size = size, !.offset = 0]
<1>4. slices' = [slices EXCEPT ![i] = new]
  BY <1>1, <1>3
<1>5. /\ new \in PersistentSlice
      /\ new.size = size /\ new.padding = slices[i].padding
      /\ new.handle = slices[i].handle /\ new.storage = slices[i].storage
  BY <1>2, <1>3 DEF PersistentSlice
<1> HIDE DEF new
<1>6. /\ slices' \in Seq(PersistentSlice)
      /\ DOMAIN slices' = DOMAIN slices
      /\ slices'[i] = new
      /\ \A j \in DOMAIN slices : j # i => slices'[j] = slices[j]
  BY <1>3, <1>4, <1>5, ExceptSeq
<1>7. \A j \in DOMAIN slices :
        /\ slices'[j].padding = slices[j].padding
        /\ slices'[j].handle = slices[j].handle
        /\ slices'[j].storage = slices[j].storage
  BY <1>5, <1>6
<1>8. TypeOK'
  <2>1. held' \subseteq Descriptors
    BY <1>1, <1>3 DEF PoolInv, TypeOK
  <2> QED BY <1>1, <1>6, <2>1 DEF PoolInv, TypeOK
<1>9. Located'
  BY <1>1, <1>6, <1>7 DEF PoolInv, Located, InPool
<1>10. IndexComplete'
  BY <1>1, <1>6 DEF PoolInv, IndexComplete
<1>11. BuffersOwned' /\ BuffersAligned'
  <2>1. {slices'[j].storage : j \in DOMAIN slices'} = {slices[j].storage : j \in DOMAIN slices}
    BY <1>6, <1>7
  <2>2. BuffersOwned'
    <3>1. {b.storage : b \in buffers'} = {b.storage : b \in buffers}
      BY <1>1
    <3>2. /\ \A j, k \in DOMAIN slices' : slices'[j].storage = slices'[k].storage => j = k
          /\ \A b, c \in buffers' : b.storage = c.storage => b = c
      BY <1>1, <1>6, <1>7 DEF PoolInv, BuffersOwned
    <3>3. {b.storage : b \in buffers} = {slices[j].storage : j \in DOMAIN slices}
      BY DEF PoolInv, BuffersOwned
    <3> QED BY <2>1, <3>1, <3>2, <3>3 DEF BuffersOwned
  <2>3. BuffersAligned'
    BY <1>1, <1>6, <1>7 DEF PoolInv, BuffersAligned
  <2> QED BY <2>2, <2>3
<1>12. KeysFit'
  <2>1. \A k \in DOMAIN sizes : \A n \in DOMAIN sizes[k] :
          slices'[sizes[k][n]].storage = slices[sizes[k][n]].storage
    BY <1>7, IndexForms
  <2> QED BY <1>1, <2>1 DEF PoolInv, KeysFit
<1>13. SizeFitsBuffer'
  <2>1. PICK b \in buffers : b.storage = slices[i].storage /\ b.bytes \in Nat
    BY DEF PoolInv, SizeFitsBuffer, TypeOK
  <2>2. Padded(size) \in DOMAIN sizes /\ \E n \in DOMAIN sizes[Padded(size)] :
          sizes[Padded(size)][n] = i
    <3>1. HasSize(size)
      <4>1. SUFFICES ASSUME ~HasSize(size) PROVE FALSE
        OBVIOUS
      <4>2. DOMAIN Positions(size) = {}
        BY <4>1 DEF Positions
      <4> QED BY <1>1, <4>2 DEF FirstFree
    <3> QED BY <1>1, <3>1 DEF FirstFree, Positions, HasSize
  <2>3. PICK k \in Nat : k = Padded(size)
    BY <1>2, PaddingForms, PersistentAssumption DEF Padded, CalculatePadding
  <2>4. k % Alignment = 0 /\ size <= k
    BY <1>2, <2>3, PaddingForms, PaddedAligned, PersistentAssumption DEF Padded, CalculatePadding
  <2>5. k <= b.bytes
    BY <2>1, <2>2, <2>3, <2>4 DEF PoolInv, KeysFit
  <2>6. slices'[i].size <= b.bytes
    BY <1>2, <1>5, <1>6, <2>1, <2>4, <2>5
  <2>7. ASSUME NEW j \in DOMAIN slices
        PROVE  \E e \in buffers : e.storage = slices'[j].storage /\ slices'[j].size <= e.bytes
    <3>1. CASE j = i
      BY <1>7, <2>1, <2>6, <3>1
    <3>2. CASE j # i
      <4>1. slices'[j] = slices[j]
        BY <1>6, <3>2
      <4> QED BY <4>1 DEF PoolInv, SizeFitsBuffer
    <3> QED BY <3>1, <3>2
  <2> QED BY <1>1, <1>6, <1>7, <2>7 DEF SizeFitsBuffer
<1> QED BY <1>8, <1>9, <1>10, <1>11, <1>12, <1>13 DEF PoolInv

\* A new slice takes the last place, with a buffer no other slice has.
LEMMA AllocInv ==
  ASSUME PoolInv, NEW size \in Sizes, Alloc(size)
  PROVE  PoolInv'
<1>1. PICK s \in Storages \ {b.storage : b \in buffers}, d \in Descriptors :
        /\ Fresh(d)
        /\ buffers' = buffers \cup {[storage |-> s, bytes |-> BufferSize(size)]}
        /\ slices' = Append(slices,
             [offset |-> 0, size |-> size, padding |-> CalculatePadding(size),
              handle |-> d, storage |-> s])
        /\ sizes' = [k \in DOMAIN sizes \cup {Padded(size)} |->
                       IF k # Padded(size) THEN sizes[k]
                       ELSE Append(Positions(size), Len(slices) + 1)]
        /\ location' = [location EXCEPT ![d] = Len(slices) + 1]
        /\ held' = held \cup {d}
  BY DEF Alloc
<1>2. size \in Nat /\ CalculatePadding(size) \in Nat /\ CalculatePadding(size) < Alignment
  BY PersistentAssumption, PaddingForms DEF CalculatePadding
<1>3. PICK key \in Nat :
        key = Padded(size) /\ key = BufferSize(size) /\ key % Alignment = 0 /\ size <= key
  <2>1. Padded(size) \in Nat /\ size <= Padded(size)
    BY <1>2 DEF Padded
  <2>2. Padded(size) % Alignment = 0
    BY <1>2, PaddedAligned, PersistentAssumption DEF Padded, CalculatePadding
  <2> QED BY <2>1, <2>2 DEF BufferSize
<1>4. PICK last \in Nat : last = Len(slices) + 1
  BY SliceForms
<1> DEFINE new == [offset |-> 0, size |-> size, padding |-> CalculatePadding(size),
                   handle |-> d, storage |-> s]
           buffer == [storage |-> s, bytes |-> key]
<1>5. /\ new \in PersistentSlice /\ new.size = size /\ new.handle = d /\ new.storage = s
      /\ new.padding = CalculatePadding(size)
      /\ buffer \in [storage: Storages, bytes: Nat]
      /\ buffer.storage = s /\ buffer.bytes = key
  BY <1>2 DEF PersistentSlice
<1>6. slices' = Append(slices, new) /\ buffers' = buffers \cup {buffer}
  BY <1>1, <1>3
<1> HIDE DEF new, buffer
<1>7. /\ slices' \in Seq(PersistentSlice)
      /\ DOMAIN slices' = DOMAIN slices \cup {last}
      /\ last \notin DOMAIN slices
      /\ slices'[last] = new
      /\ \A i \in DOMAIN slices : slices'[i] = slices[i]
  <2>1. /\ slices' \in Seq(PersistentSlice)
        /\ Len(slices') = Len(slices) + 1
        /\ \A i \in 1 .. Len(slices) : slices'[i] = slices[i]
        /\ slices'[Len(slices) + 1] = new
    BY <1>5, <1>6, SliceForms, AppendProperties
  <2>2. DOMAIN slices' = 1 .. Len(slices')
    BY <2>1, LenProperties
  <2> QED BY <1>4, <2>1, <2>2, SliceForms
<1>8. \A i \in DOMAIN slices :
        /\ slices[i].handle # d /\ slices[i].handle \in Descriptors
        /\ slices[i].storage # s
  BY <1>1, SliceForms DEF Fresh, InPool, PoolInv, BuffersOwned
<1>9. \A b \in buffers : b.storage # s /\ b \in [storage: Storages, bytes: Nat]
  BY <1>1 DEF PoolInv, TypeOK
<1>10. Positions(size) \in Seq(DOMAIN slices)
  <2>1. CASE HasSize(size)
    BY <2>1 DEF PoolInv, TypeOK, Positions, HasSize
  <2>2. CASE ~HasSize(size)
    <3>1. Positions(size) = <<>>
      BY <2>2 DEF Positions
    <3> QED BY <3>1
  <2> QED BY <2>1, <2>2
<1>11. PICK m \in Nat : m = Len(Positions(size)) + 1
  BY <1>10, LenProperties
\* The list of the key has the new position at its end, the others stay.
<1>12. /\ DOMAIN sizes' = DOMAIN sizes \cup {key}
       /\ \A k \in DOMAIN sizes : k # key => sizes'[k] = sizes[k]
       /\ sizes'[key] \in Seq(DOMAIN slices')
       /\ m \in DOMAIN sizes'[key] /\ sizes'[key][m] = last
       /\ \A n \in DOMAIN sizes'[key] : n # m =>
            /\ key \in DOMAIN sizes /\ n \in DOMAIN sizes[key]
            /\ sizes'[key][n] = sizes[key][n]
       /\ key \in DOMAIN sizes => \A n \in DOMAIN sizes[key] :
            n # m /\ n \in DOMAIN sizes'[key] /\ sizes'[key][n] = sizes[key][n]
  <2> DEFINE old == Positions(size)
  <2>1. old \in Seq(DOMAIN slices)
    BY <1>10
  <2>2. old \in Seq(DOMAIN slices') /\ Len(old) \in Nat /\ DOMAIN old = 1 .. Len(old)
    BY <1>7, <2>1, SeqMonotonic, LenProperties
  <2>3. /\ key \in DOMAIN sizes => old = sizes[key]
        /\ key \notin DOMAIN sizes => DOMAIN old = {}
    BY <1>3 DEF Positions, HasSize
  <2>4. /\ DOMAIN sizes' = DOMAIN sizes \cup {key}
        /\ \A k \in DOMAIN sizes : k # key => sizes'[k] = sizes[k]
        /\ sizes'[key] = Append(old, last)
    BY <1>1, <1>3, <1>4
  <2> HIDE DEF old
  <2>5. m = Len(old) + 1
    BY <1>11 DEF old
  <2>6. last \in DOMAIN slices'
    BY <1>7
  <2> DEFINE list == Append(old, last)
  <2>7. /\ list \in Seq(DOMAIN slices')
        /\ Len(list) = m
        /\ \A n \in 1 .. Len(old) : list[n] = old[n]
        /\ list[m] = last
    BY <2>2, <2>5, <2>6, AppendProperties
  <2> HIDE DEF list
  <2>8. DOMAIN list = 1 .. m
    BY <2>7, LenProperties
  <2>9. sizes'[key] = list
    BY <2>4 DEF list
  <2>10. \A n \in DOMAIN list : n # m => n \in DOMAIN old /\ list[n] = old[n]
    BY <2>2, <2>5, <2>7, <2>8
  <2>11. \A n \in DOMAIN old : n # m /\ n \in DOMAIN list /\ list[n] = old[n]
    BY <2>2, <2>5, <2>7, <2>8
  <2> QED BY <1>11, <2>3, <2>4, <2>7, <2>8, <2>9, <2>10, <2>11
<1>13. TypeOK'
  <2>1. DOMAIN sizes' \subseteq Nat
    BY <1>12 DEF PoolInv, TypeOK
  <2>2. ASSUME NEW k \in DOMAIN sizes' PROVE sizes'[k] \in Seq(DOMAIN slices')
    <3>1. CASE k = key
      BY <1>12, <3>1
    <3>2. CASE k # key
      <4>1. sizes'[k] = sizes[k] /\ sizes[k] \in Seq(DOMAIN slices)
        BY <1>12, <2>2, <3>2 DEF PoolInv, TypeOK
      <4> QED BY <1>7, <4>1, SeqMonotonic
    <3> QED BY <3>1, <3>2
  <2>3. location' \in [Descriptors -> Nat \cup {-1}]
    BY <1>1, <1>4 DEF PoolInv, TypeOK
  <2>4. held' \subseteq Descriptors /\ mode' = mode
    BY <1>1 DEF Alloc, PoolInv, TypeOK
  <2>5. buffers' \subseteq [storage: Storages, bytes: Nat]
    BY <1>5, <1>6 DEF PoolInv, TypeOK
  <2> QED BY <1>7, <2>1, <2>2, <2>3, <2>4, <2>5 DEF PoolInv, TypeOK
<1>14. Located'
  <2>1. location'[d] = last /\ \A c \in Descriptors : c # d => location'[c] = location[c]
    BY <1>1, <1>4 DEF PoolInv, TypeOK
  <2>2. ASSUME NEW i \in DOMAIN slices' PROVE location'[slices'[i].handle] = i
    <3>1. CASE i = last
      BY <1>5, <1>7, <2>1, <3>1
    <3>2. CASE i # last
      <4>1. i \in DOMAIN slices /\ slices'[i] = slices[i]
        BY <1>7, <3>2
      <4>2. location'[slices[i].handle] = location[slices[i].handle]
        BY <1>8, <2>1, <4>1
      <4> QED BY <4>1, <4>2 DEF PoolInv, Located
    <3> QED BY <3>1, <3>2
  <2>3. ASSUME NEW c \in Descriptors, ~InPool(c)' PROVE location'[c] = -1
    <3>1. c # d
      BY <1>5, <1>7, <2>3 DEF InPool
    <3>2. ~InPool(c)
      BY <1>7, <2>3 DEF InPool
    <3> QED BY <2>1, <3>1, <3>2 DEF PoolInv, Located
  <2> QED BY <2>2, <2>3 DEF Located
<1>15. IndexComplete'
  <2>1. ASSUME NEW i \in DOMAIN slices'
        PROVE  \E k \in DOMAIN sizes' : \E n \in DOMAIN sizes'[k] :
                 /\ sizes'[k][n] = i
                 /\ \A j \in DOMAIN sizes' : \A o \in DOMAIN sizes'[j] :
                      sizes'[j][o] = i => j = k /\ o = n
    <3>1. CASE i = last
      <4>1. ASSUME NEW j \in DOMAIN sizes', NEW o \in DOMAIN sizes'[j], sizes'[j][o] = last
            PROVE  j = key /\ o = m
        <5>1. CASE j = key
          <6>1. o # m => key \in DOMAIN sizes /\ o \in DOMAIN sizes[key]
                         /\ sizes[key][o] = last
            BY <1>12, <4>1, <5>1
          <6> QED BY <1>7, <5>1, <6>1, IndexForms
        <5>2. CASE j # key
          <6>1. j \in DOMAIN sizes /\ o \in DOMAIN sizes[j] /\ sizes[j][o] = last
            BY <1>12, <4>1, <5>2
          <6> QED BY <1>7, <6>1, IndexForms
        <5> QED BY <5>1, <5>2
      <4> QED BY <1>12, <3>1, <4>1
    <3>2. CASE i # last
      <4>1. i \in DOMAIN slices
        BY <1>7, <3>2
      <4>2. PICK k \in DOMAIN sizes : \E n \in DOMAIN sizes[k] :
              /\ sizes[k][n] = i
              /\ \A j \in DOMAIN sizes : \A o \in DOMAIN sizes[j] :
                   sizes[j][o] = i => j = k /\ o = n
        BY <4>1 DEF PoolInv, IndexComplete
      <4>3. PICK n \in DOMAIN sizes[k] :
              /\ sizes[k][n] = i
              /\ \A j \in DOMAIN sizes : \A o \in DOMAIN sizes[j] :
                   sizes[j][o] = i => j = k /\ o = n
        BY <4>2
      <4>4. k \in DOMAIN sizes' /\ n \in DOMAIN sizes'[k] /\ sizes'[k][n] = i
        BY <1>12, <4>3
      <4>5. ASSUME NEW j \in DOMAIN sizes', NEW o \in DOMAIN sizes'[j], sizes'[j][o] = i
            PROVE  j = k /\ o = n
        <5>1. j \in DOMAIN sizes /\ o \in DOMAIN sizes[j] /\ sizes[j][o] = i
          BY <1>12, <3>2, <4>5
        <5> QED BY <4>3, <5>1
      <4> QED BY <4>4, <4>5
    <3> QED BY <3>1, <3>2
  <2> QED BY <2>1 DEF IndexComplete
<1>16. BuffersOwned'
  <2>1. {b.storage : b \in buffers'} = {slices'[i].storage : i \in DOMAIN slices'}
    <3>1. {b.storage : b \in buffers} = {slices[i].storage : i \in DOMAIN slices}
      BY DEF PoolInv, BuffersOwned
    <3>2. {b.storage : b \in buffers'} = {b.storage : b \in buffers} \cup {s}
      BY <1>5, <1>6
    <3>3. {slices'[i].storage : i \in DOMAIN slices'}
            = {slices[i].storage : i \in DOMAIN slices} \cup {s}
      BY <1>5, <1>7
    <3> QED BY <3>1, <3>2, <3>3
  <2>2. ASSUME NEW i \in DOMAIN slices', NEW j \in DOMAIN slices',
               slices'[i].storage = slices'[j].storage
        PROVE  i = j
    BY <1>5, <1>7, <1>8, <2>2 DEF PoolInv, BuffersOwned
  <2>3. ASSUME NEW b \in buffers', NEW c \in buffers', b.storage = c.storage
        PROVE  b = c
    BY <1>5, <1>6, <1>9, <2>3 DEF PoolInv, BuffersOwned
  <2> QED BY <2>1, <2>2, <2>3 DEF BuffersOwned
<1>17. BuffersAligned'
  BY <1>2, <1>3, <1>5, <1>6, <1>7 DEF PoolInv, BuffersAligned
<1>18. KeysFit'
  <2>1. ASSUME NEW k \in DOMAIN sizes', NEW n \in DOMAIN sizes'[k], NEW b \in buffers',
               k % Alignment = 0, b.storage = slices'[sizes'[k][n]].storage
        PROVE  k <= b.bytes
    <3>1. CASE sizes'[k][n] = last
      <4>1. k = key
        <5>1. SUFFICES ASSUME k # key PROVE FALSE
          OBVIOUS
        <5>2. k \in DOMAIN sizes /\ n \in DOMAIN sizes[k] /\ sizes[k][n] = last
          BY <1>12, <2>1, <3>1, <5>1
        <5> QED BY <1>7, <5>2, IndexForms
      <4>2. b = buffer
        BY <1>5, <1>6, <1>7, <1>9, <2>1, <3>1
      <4> QED BY <1>5, <4>1, <4>2
    <3>2. CASE sizes'[k][n] # last
      <4>1. k \in DOMAIN sizes /\ n \in DOMAIN sizes[k] /\ sizes'[k][n] = sizes[k][n]
        BY <1>12, <2>1, <3>2
      <4>2. PICK i \in DOMAIN slices : i = sizes[k][n]
        BY <4>1, IndexForms
      <4>3. b.storage = slices[i].storage
        BY <1>7, <2>1, <4>1, <4>2
      <4>4. b \in buffers
        BY <1>5, <1>6, <1>8, <4>3
      <4> QED BY <2>1, <4>1, <4>2, <4>3, <4>4 DEF PoolInv, KeysFit
    <3> QED BY <3>1, <3>2
  <2> QED BY <2>1 DEF KeysFit
<1>19. SizeFitsBuffer'
  <2>1. ASSUME NEW i \in DOMAIN slices'
        PROVE  \E b \in buffers' : b.storage = slices'[i].storage /\ slices'[i].size <= b.bytes
    <3>1. CASE i = last
      BY <1>3, <1>5, <1>6, <1>7, <3>1
    <3>2. CASE i # last
      <4>1. i \in DOMAIN slices /\ slices'[i] = slices[i]
        BY <1>7, <3>2
      <4> QED BY <1>6, <4>1 DEF PoolInv, SizeFitsBuffer
    <3> QED BY <3>1, <3>2
  <2> QED BY <2>1 DEF SizeFitsBuffer
<1> QED BY <1>13, <1>14, <1>15, <1>16, <1>17, <1>18, <1>19 DEF PoolInv

\* bind() hands the slice of one descriptor, found by its location, to another.
LEMMA BindInv ==
  ASSUME PoolInv, NEW reserved \in Descriptors, NEW new \in Descriptors,
         Bind(reserved, new)
  PROVE  PoolInv'
<1>1. PICK i \in DOMAIN slices : slices[i].handle = reserved
  BY DEF Bind, InPool
<1>2. /\ slices \in Seq(PersistentSlice) /\ Len(slices) \in Nat
      /\ DOMAIN slices = 1 .. Len(slices)
      /\ slices[i] \in PersistentSlice
      /\ location \in [Descriptors -> Nat \cup {-1}]
  BY SliceForms DEF PoolInv, TypeOK
<1>3. location[reserved] = i
  BY <1>1 DEF PoolInv, Located
<1> DEFINE slice == [slices[i] EXCEPT !.handle = new]
<1>4. slices' = [slices EXCEPT ![i] = slice]
  BY <1>2, <1>3 DEF Bind
<1>5. /\ slice \in PersistentSlice /\ slice.handle = new
      /\ slice.size = slices[i].size /\ slice.padding = slices[i].padding
      /\ slice.storage = slices[i].storage
  BY <1>2 DEF PersistentSlice
<1> HIDE DEF slice
<1>6. /\ slices' \in Seq(PersistentSlice)
      /\ DOMAIN slices' = DOMAIN slices
      /\ slices'[i] = slice
      /\ \A j \in DOMAIN slices : j # i => slices'[j] = slices[j]
  BY <1>2, <1>4, <1>5, ExceptSeq
<1>7. \A j \in DOMAIN slices :
        /\ slices'[j].size = slices[j].size
        /\ slices'[j].padding = slices[j].padding
        /\ slices'[j].storage = slices[j].storage
  BY <1>5, <1>6
<1>8. mode' = mode /\ sizes' = sizes /\ buffers' = buffers
  BY DEF Bind
<1>9. /\ new # reserved /\ ~InPool(new)
      /\ location'[new] = i /\ location'[reserved] = -1
      /\ \A c \in Descriptors : c \notin {new, reserved} => location'[c] = location[c]
      /\ location' \in [Descriptors -> Nat \cup {-1}]
  <2>1. new # reserved /\ ~InPool(new)
    BY DEF Bind
  <2>2. location' = [location EXCEPT ![new] = i, ![reserved] = -1]
    BY <1>3 DEF Bind
  <2> QED BY <1>2, <2>1, <2>2
<1>10. TypeOK'
  <2>1. held' \subseteq Descriptors
    BY DEF Bind, PoolInv, TypeOK
  <2> QED BY <1>6, <1>8, <1>9, <2>1 DEF PoolInv, TypeOK
<1>11. Located'
  <2>1. ASSUME NEW j \in DOMAIN slices PROVE location'[slices'[j].handle] = j
    <3>1. CASE j = i
      BY <1>5, <1>6, <1>9, <3>1
    <3>2. CASE j # i
      <4>1. slices'[j] = slices[j] /\ location[slices[j].handle] = j
            /\ slices[j].handle \in Descriptors
        BY <1>6, <3>2, SliceForms DEF PoolInv, Located
      <4>2. slices[j].handle # new
        BY <1>9 DEF InPool
      <4>3. slices[j].handle # reserved
        BY <1>3, <3>2, <4>1
      <4> QED BY <1>9, <4>1, <4>2, <4>3
    <3> QED BY <3>1, <3>2
  <2>2. ASSUME NEW c \in Descriptors, ~InPool(c)' PROVE location'[c] = -1
    <3>1. c # new
      BY <1>5, <1>6, <2>2 DEF InPool
    <3>2. CASE c = reserved
      BY <1>9, <3>2
    <3>3. CASE c # reserved
      <4>1. ~InPool(c)
        <5>1. ASSUME NEW j \in DOMAIN slices PROVE slices[j].handle # c
          BY <1>1, <1>6, <2>2, <3>3 DEF InPool
        <5> QED BY <5>1 DEF InPool
      <4> QED BY <1>9, <3>1, <3>3, <4>1 DEF PoolInv, Located
    <3> QED BY <3>2, <3>3
  <2> QED BY <1>6, <2>1, <2>2 DEF Located
<1>12. IndexComplete'
  BY <1>6, <1>8 DEF PoolInv, IndexComplete
<1>13. BuffersOwned'
  <2>1. {slices'[j].storage : j \in DOMAIN slices'} = {slices[j].storage : j \in DOMAIN slices}
    BY <1>6, <1>7
  <2>2. {b.storage : b \in buffers'} = {b.storage : b \in buffers}
    BY <1>8
  <2>3. {b.storage : b \in buffers} = {slices[j].storage : j \in DOMAIN slices}
    BY DEF PoolInv, BuffersOwned
  <2>4. /\ \A j, k \in DOMAIN slices' : slices'[j].storage = slices'[k].storage => j = k
        /\ \A b, c \in buffers' : b.storage = c.storage => b = c
    BY <1>6, <1>7, <1>8 DEF PoolInv, BuffersOwned
  <2> QED BY <2>1, <2>2, <2>3, <2>4 DEF BuffersOwned
<1>14. BuffersAligned'
  BY <1>6, <1>7, <1>8 DEF PoolInv, BuffersAligned
<1>15. KeysFit'
  <2>1. \A k \in DOMAIN sizes : \A n \in DOMAIN sizes[k] :
          slices'[sizes[k][n]].storage = slices[sizes[k][n]].storage
    BY <1>7, IndexForms
  <2> QED BY <1>8, <2>1 DEF PoolInv, KeysFit
<1>16. SizeFitsBuffer'
  BY <1>6, <1>7, <1>8 DEF PoolInv, SizeFitsBuffer
<1> QED BY <1>10, <1>11, <1>12, <1>13, <1>14, <1>15, <1>16 DEF PoolInv

\* cleanup(): the slices in use stay, and their index is built again.
LEMMA CleanupInv ==
  ASSUME PoolInv, Cleanup
  PROVE  PoolInv'
<1> DEFINE stay == {i \in DOMAIN slices : ~IsFree(i)}
           kept == Kept(slices, stay)
           from == InOrder(stay)
           under(k) == {i \in DOMAIN kept : EffectiveSize(kept[i]) = k}
<1>1. /\ slices' = kept
      /\ sizes' = IndexOf(kept)
      /\ location' = Relocate(kept)
      /\ buffers' = BuffersKept(kept)
      /\ mode' = mode /\ held' = held
  BY DEF Cleanup
<1>2. /\ slices \in Seq(PersistentSlice) /\ Len(slices) \in Nat
      /\ DOMAIN slices = 1 .. Len(slices)
  BY SliceForms
<1>3. stay \in SUBSET (1 .. Len(slices))
  BY <1>2
<1>4. PICK n \in Nat : n = Cardinality(stay)
  BY <1>2, <1>3, KeptForms
<1>5. stay \subseteq DOMAIN slices /\ \A i \in DOMAIN slices : i \in stay <=> ~IsFree(i)
  OBVIOUS
<1> HIDE DEF stay
<1>6. /\ kept \in Seq(PersistentSlice)
      /\ Len(kept) = n
      /\ DOMAIN kept = 1 .. n
      /\ from \in [1 .. n -> stay]
      /\ \A q \in 1 .. n : kept[q] = slices[from[q]]
      /\ \A q, r \in 1 .. n : q # r => from[q] # from[r]
      /\ \A i \in stay : \E q \in 1 .. n : from[q] = i
  BY <1>2, <1>3, <1>4, KeptForms
<1> HIDE DEF kept, from
<1>7. \A q \in 1 .. n :
        /\ from[q] \in stay /\ from[q] \in DOMAIN slices
        /\ kept[q] = slices[from[q]]
        /\ kept[q] \in PersistentSlice
        /\ kept[q].size \in Nat /\ kept[q].padding \in Nat
        /\ kept[q].handle \in Descriptors /\ kept[q].handle \in held
  BY <1>5, <1>6, SliceForms DEF IsFree
\* Different slices are kept with different handles and buffers.
<1>8. \A q, r \in 1 .. n :
        /\ kept[q].handle = kept[r].handle => q = r
        /\ kept[q].storage = kept[r].storage => q = r
  <2>1. \A i, j \in DOMAIN slices : slices[i].handle = slices[j].handle => i = j
    <3>1. \A i \in DOMAIN slices : location[slices[i].handle] = i
      BY DEF PoolInv, Located
    <3>2. ASSUME NEW i \in DOMAIN slices, NEW j \in DOMAIN slices,
                 slices[i].handle = slices[j].handle
          PROVE  i = j
      BY <3>1, <3>2, Zenon
    <3> QED BY <3>2
  <2>2. \A i, j \in DOMAIN slices : slices[i].storage = slices[j].storage => i = j
    BY DEF PoolInv, BuffersOwned
  <2> QED BY <1>6, <1>7, <2>1, <2>2
\* The index lists the kept slices of every key, each once.
<1>9. /\ DOMAIN sizes' = {EffectiveSize(kept[i]) : i \in 1 .. n}
      /\ \A k \in DOMAIN sizes' : sizes'[k] = InOrder(under(k))
  BY <1>1, <1>6 DEF IndexOf
<1>10. ASSUME NEW k \in DOMAIN sizes'
       PROVE  /\ sizes'[k] \in Seq(1 .. n)
              /\ \A m \in DOMAIN sizes'[k] :
                   sizes'[k][m] \in 1 .. n /\ EffectiveSize(kept[sizes'[k][m]]) = k
              /\ \A m, o \in DOMAIN sizes'[k] : sizes'[k][m] = sizes'[k][o] => m = o
              /\ \A i \in 1 .. n : EffectiveSize(kept[i]) = k =>
                   \E m \in DOMAIN sizes'[k] : sizes'[k][m] = i
  <2>1. under(k) \in SUBSET (1 .. n)
    BY <1>6
  <2>2. \A i \in under(k) : i \in 1 .. n /\ EffectiveSize(kept[i]) = k
    BY <1>6
  <2>3. \A i \in 1 .. n : EffectiveSize(kept[i]) = k => i \in under(k)
    BY <1>6
  <2>4. sizes'[k] = InOrder(under(k))
    BY <1>9
  <2> HIDE DEF under
  <2>5. PICK c \in Nat : c = Cardinality(under(k))
    BY <1>4, <2>1, InOrderForms
  <2>6. /\ sizes'[k] \in [1 .. c -> under(k)]
        /\ \A m, o \in 1 .. c : m < o => sizes'[k][m] < sizes'[k][o]
        /\ \A i \in under(k) : \E m \in 1 .. c : sizes'[k][m] = i
    <3>1. PICK J \in SUBSET (1 .. n) : J = under(k)
      BY <2>1
    <3>2. c = Cardinality(J) /\ sizes'[k] = InOrder(J)
      BY <2>4, <2>5, <3>1
    <3>3. /\ InOrder(J) \in [1 .. c -> J]
          /\ \A m, o \in 1 .. c : m < o => InOrder(J)[m] < InOrder(J)[o]
          /\ \A i \in J : \E m \in 1 .. c : InOrder(J)[m] = i
      BY <1>4, <3>2, InOrderForms
    <3> QED BY <3>1, <3>2, <3>3
  <2>7. sizes'[k] \in Seq(1 .. n)
    <3>1. sizes'[k] \in [1 .. c -> 1 .. n]
      BY <2>1, <2>6
    <3> QED BY <2>5, <3>1, SeqDef
  <2>8. DOMAIN sizes'[k] = 1 .. c
    BY <2>6
  <2>9. ASSUME NEW m \in 1 .. c, NEW o \in 1 .. c, sizes'[k][m] = sizes'[k][o]
        PROVE  m = o
    <3>1. sizes'[k][m] \in 1 .. n /\ sizes'[k][o] \in 1 .. n
      BY <2>1, <2>6
    <3>2. ~(m < o) /\ ~(o < m)
      BY <2>6, <2>9, <3>1
    <3> QED BY <2>5, <3>2
  <2>10. \A m \in 1 .. c : sizes'[k][m] \in under(k)
    BY <2>6
  <2> QED BY <2>2, <2>3, <2>6, <2>7, <2>8, <2>9, <2>10
<1>11. \A i \in 1 .. n : EffectiveSize(kept[i]) \in Nat
  BY <1>7 DEF EffectiveSize
<1>12. \A d \in Descriptors :
         location'[d] = IF ~InPool(d) THEN location[d]
                        ELSE IF d \notin held THEN -1
                        ELSE CHOOSE i \in 1 .. n : kept[i].handle = d
  BY <1>1, <1>6 DEF Relocate
<1>13. \A i \in 1 .. n : location'[kept[i].handle] = i
  <2>1. ASSUME NEW i \in 1 .. n PROVE location'[kept[i].handle] = i
    <3>1. PICK d \in Descriptors : d = kept[i].handle /\ d \in held
      BY <1>7
    <3>2. InPool(d)
      BY <1>7, <3>1 DEF InPool
    <3>3. location'[d] = CHOOSE j \in 1 .. n : kept[j].handle = d
      BY <1>12, <3>1, <3>2
    <3>4. \A j \in 1 .. n : kept[j].handle = d => j = i
      BY <1>8, <3>1
    <3> QED BY <3>1, <3>3, <3>4
  <2> QED BY <2>1
<1>14. \A d \in Descriptors : (~ \E i \in 1 .. n : kept[i].handle = d) => location'[d] = -1
  <2>1. ASSUME NEW d \in Descriptors, ~ \E i \in 1 .. n : kept[i].handle = d
        PROVE  location'[d] = -1
    <3>1. CASE ~InPool(d)
      BY <1>12, <3>1 DEF PoolInv, Located
    <3>2. CASE InPool(d)
      <4>1. PICK i \in DOMAIN slices : slices[i].handle = d
        BY <3>2 DEF InPool
      <4>2. i \notin stay
        BY <1>6, <2>1, <4>1
      <4>3. d \notin held
        BY <1>5, <4>1, <4>2 DEF IsFree
      <4> QED BY <1>12, <3>2, <4>3
    <3> QED BY <3>1, <3>2
  <2> QED BY <2>1
<1>15. TypeOK'
  <2>1. DOMAIN sizes' \subseteq Nat
    BY <1>9, <1>11
  <2>2. \A k \in DOMAIN sizes' : sizes'[k] \in Seq(DOMAIN slices')
    BY <1>1, <1>6, <1>10
  <2>3. location' \in [Descriptors -> Nat \cup {-1}]
    <3>1. ASSUME NEW d \in Descriptors PROVE location'[d] \in Nat \cup {-1}
      <4>1. CASE \E i \in 1 .. n : kept[i].handle = d
        BY <1>13, <4>1
      <4>2. CASE ~ \E i \in 1 .. n : kept[i].handle = d
        BY <1>14, <4>2
      <4> QED BY <4>1, <4>2
    <3>2. location' = [d \in Descriptors |-> location'[d]]
      BY <1>1 DEF Relocate
    <3> QED BY <3>1, <3>2
  <2>4. buffers' \subseteq [storage: Storages, bytes: Nat]
    BY <1>1 DEF BuffersKept, PoolInv, TypeOK
  <2> QED BY <1>1, <1>6, <2>1, <2>2, <2>3, <2>4 DEF PoolInv, TypeOK
<1>16. Located'
  <2>1. \A d \in Descriptors : ~InPool(d)' => location'[d] = -1
    BY <1>1, <1>6, <1>14 DEF InPool
  <2> QED BY <1>1, <1>6, <1>13, <2>1 DEF Located
<1>17. IndexComplete'
  <2>1. ASSUME NEW i \in 1 .. n
        PROVE  \E k \in DOMAIN sizes' : \E m \in DOMAIN sizes'[k] :
                 /\ sizes'[k][m] = i
                 /\ \A j \in DOMAIN sizes' : \A o \in DOMAIN sizes'[j] :
                      sizes'[j][o] = i => j = k /\ o = m
    <3>1. PICK k \in DOMAIN sizes' : k = EffectiveSize(kept[i])
      BY <1>9
    <3>2. PICK m \in DOMAIN sizes'[k] : sizes'[k][m] = i
      BY <1>10, <3>1
    <3>3. ASSUME NEW j \in DOMAIN sizes', NEW o \in DOMAIN sizes'[j], sizes'[j][o] = i
          PROVE  j = k /\ o = m
      <4>1. j = k
        BY <1>10, <3>1, <3>3
      <4> QED BY <1>10, <3>2, <3>3, <4>1
    <3> QED BY <3>2, <3>3
  <2> QED BY <1>1, <1>6, <2>1 DEF IndexComplete
\* The buffers that stay are those of the kept slices.
<1>18. \A b \in buffers :
         /\ b \in buffers' => \E q \in 1 .. n : kept[q].storage = b.storage
         /\ \A q \in 1 .. n : kept[q].storage = b.storage => b \in buffers'
  <2>1. ASSUME NEW b \in buffers, b \in buffers'
        PROVE  \E q \in 1 .. n : kept[q].storage = b.storage
    <3>1. PICK i \in DOMAIN slices : slices[i].storage = b.storage
      BY DEF PoolInv, BuffersOwned
    <3>2. i \in stay
      BY <1>1, <1>5, <2>1, <3>1 DEF BuffersKept
    <3>3. PICK q \in 1 .. n : from[q] = i
      BY <1>6, <3>2
    <3> QED BY <1>7, <3>1, <3>3
  <2>2. ASSUME NEW b \in buffers, NEW q \in 1 .. n, kept[q].storage = b.storage
        PROVE  b \in buffers'
    <3>1. from[q] \in DOMAIN slices /\ ~IsFree(from[q]) /\ slices[from[q]].storage = b.storage
      BY <1>5, <1>7, <2>2
    <3>2. ASSUME NEW i \in DOMAIN slices, slices[i].storage = b.storage
          PROVE  ~IsFree(i)
      <4>1. i = from[q]
        BY <3>1, <3>2 DEF PoolInv, BuffersOwned
      <4> QED BY <3>1, <4>1
    <3> QED BY <1>1, <3>2 DEF BuffersKept
  <2> QED BY <2>1, <2>2
<1>19. buffers' \subseteq buffers
  BY <1>1 DEF BuffersKept
<1>20. ASSUME NEW q \in 1 .. n PROVE \E b \in buffers' : b.storage = kept[q].storage
  <2>1. kept[q].storage = slices[from[q]].storage /\ from[q] \in DOMAIN slices
    BY <1>7
  <2>2. PICK b \in buffers : b.storage = slices[from[q]].storage
    BY <2>1 DEF PoolInv, BuffersOwned
  <2> QED BY <1>18, <2>1, <2>2
<1>21. BuffersOwned'
  <2>3. ASSUME NEW b \in buffers' PROVE \E q \in 1 .. n : kept[q].storage = b.storage
    BY <1>18, <1>19
  <2>4. {b.storage : b \in buffers'} = {slices'[q].storage : q \in DOMAIN slices'}
    <3>1. {slices'[q].storage : q \in DOMAIN slices'} = {kept[q].storage : q \in 1 .. n}
      BY <1>1, <1>6
    <3>2. {b.storage : b \in buffers'} = {kept[q].storage : q \in 1 .. n}
      BY <1>20, <2>3
    <3> QED BY <3>1, <3>2
  <2>5. \A b, c \in buffers' : b.storage = c.storage => b = c
    BY <1>19 DEF PoolInv, BuffersOwned
  <2>6. \A q, r \in DOMAIN slices' : slices'[q].storage = slices'[r].storage => q = r
    BY <1>1, <1>6, <1>8
  <2> QED BY <2>4, <2>5, <2>6 DEF BuffersOwned
<1>22. BuffersAligned'
  <2>1. \A b \in buffers' : b.bytes % Alignment = 0
    BY <1>19 DEF PoolInv, BuffersAligned
  <2>2. \A q \in 1 .. n : kept[q].padding < Alignment
    BY <1>7 DEF PoolInv, BuffersAligned
  <2> QED BY <1>1, <1>6, <2>1, <2>2 DEF BuffersAligned
\* A kept slice and its buffer.
<1>23. ASSUME NEW q \in 1 .. n, NEW b \in buffers', b.storage = kept[q].storage
       PROVE  kept[q].size <= b.bytes
  <2>1. from[q] \in DOMAIN slices /\ kept[q] = slices[from[q]]
    BY <1>7
  <2>2. PICK c \in buffers : c.storage = kept[q].storage /\ kept[q].size <= c.bytes
    BY <2>1 DEF PoolInv, SizeFitsBuffer
  <2>3. c = b
    BY <1>19, <1>23, <2>2 DEF PoolInv, BuffersOwned
  <2> QED BY <2>2, <2>3
<1>24. KeysFit'
  <2>1. ASSUME NEW k \in DOMAIN sizes', NEW m \in DOMAIN sizes'[k], NEW b \in buffers',
               k % Alignment = 0, b.storage = kept[sizes'[k][m]].storage
        PROVE  k <= b.bytes
    <3>1. PICK q \in 1 .. n : q = sizes'[k][m] /\ EffectiveSize(kept[q]) = k
      BY <1>10
    <3>2. kept[q].size <= b.bytes
      BY <1>23, <2>1, <3>1
    <3>3. /\ k = kept[q].size + kept[q].padding
          /\ kept[q].size \in Nat /\ kept[q].padding \in Nat /\ kept[q].padding < Alignment
      BY <1>1, <1>6, <1>7, <1>22, <3>1 DEF EffectiveSize, BuffersAligned
    <3>4. b.bytes \in Nat /\ b.bytes % Alignment = 0
      BY <1>19 DEF PoolInv, TypeOK, BuffersAligned
    <3>5. k \in Nat /\ k < b.bytes + Alignment
      BY <3>2, <3>3, <3>4, PersistentAssumption
    <3> QED BY <2>1, <3>4, <3>5, AlignedWithin
  <2> QED BY <1>1, <2>1 DEF KeysFit
<1>25. SizeFitsBuffer'
  <2>1. ASSUME NEW q \in 1 .. n
        PROVE  \E b \in buffers' : b.storage = kept[q].storage /\ kept[q].size <= b.bytes
    <3>1. PICK b \in buffers' : b.storage = kept[q].storage
      BY <1>20
    <3> QED BY <1>23, <3>1
  <2> QED BY <1>1, <1>6, <2>1 DEF SizeFitsBuffer
<1> QED BY <1>15, <1>16, <1>17, <1>21, <1>22, <1>24, <1>25 DEF PoolInv

-----------------------------------------------------------------------------
(* Theorems *)

LEMMA NextInv ==
  ASSUME PoolInv, [Next]_vars
  PROVE  PoolInv'
<1>1. CASE UNCHANGED vars
  <2>1. mode' \in {"auto", "persistent"} /\ held' \subseteq Descriptors
    BY <1>1 DEF vars, PoolInv, TypeOK
  <2> QED BY <1>1, <2>1, SameInv DEF vars
<1>2. CASE \E d \in Descriptors : NewHandle(d) \/ Release(d)
  BY <1>2, NewHandleInv, ReleaseInv
<1>3. CASE SetMode
  BY <1>3, SetModeInv
<1>4. CASE \E size \in Sizes : TryReserve(size) \/ Alloc(size)
  BY <1>4, TryReserveInv, AllocInv
<1>5. CASE Cleanup
  BY <1>5, CleanupInv
<1>6. CASE \E reserved, new \in Descriptors : Bind(reserved, new)
  BY <1>6, BindInv
<1> QED BY <1>1, <1>2, <1>3, <1>4, <1>5, <1>6 DEF Next

\* The pool keeps its invariant: every slice is in the index once and knows its
\* buffer and its descriptor, whatever sizes it was reused for.
THEOREM PoolInvariant == Spec => []PoolInv
<1>1. Init => PoolInv
  BY InitInv
<1>2. PoolInv /\ [Next]_vars => PoolInv'
  BY NextInv
<1> QED BY <1>1, <1>2, PTL DEF Spec

\* Every slice is in the index once, across the rebuilding of the index.
THEOREM EverySliceIndexed == Spec => []IndexComplete
<1>1. PoolInv => IndexComplete
  BY DEF PoolInv
<1> QED BY <1>1, PoolInvariant, PTL

\* However many slices cleanup() takes out, a binding leads to its own slice.
THEOREM BindingFindsSlice == Spec => []FindsSlice
<1>1. PoolInv => FindsSlice
  <2>1. SUFFICES ASSUME PoolInv, NEW d \in held
                 PROVE  IF InPool(d)
                        THEN location[d] \in DOMAIN slices /\ slices[location[d]].handle = d
                        ELSE location[d] = -1
    BY DEF FindsSlice
  <2>2. CASE InPool(d)
    <3>1. PICK i \in DOMAIN slices : slices[i].handle = d
      BY <2>2 DEF InPool
    <3>2. location[d] = i
      BY <2>1, <3>1 DEF PoolInv, Located
    <3> QED BY <2>2, <3>1, <3>2
  <2>3. CASE ~InPool(d)
    BY <2>1, <2>3 DEF PoolInv, Located, TypeOK
  <2> QED BY <2>2, <2>3
<1> QED BY <1>1, PoolInvariant, PTL

\* Whatever sizes a slice was reused for, the size it has fits in its buffer.
THEOREM SizesFitBuffers == Spec => []SizeFitsBuffer
<1>1. PoolInv => SizeFitsBuffer
  BY DEF PoolInv
<1> QED BY <1>1, PoolInvariant, PTL
=============================================================================
