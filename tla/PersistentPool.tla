--------------------------- MODULE PersistentPool ---------------------------
(***************************************************************************)
(* The pool of memory that is likely never freed (cubecl-runtime,          *)
(* memory_management/memory_pool/persistent_pool.rs): one buffer for each  *)
(* slice, found again by its padded size.  MemoryManagement asks this pool *)
(* first for every reserve, whatever its mode, and never asks accept()     *)
(* (memory_manage.rs); a buffer the device refuses changes nothing.        *)
(*                                                                         *)
(* Each operation reads every slice at most once, so a reference dropped   *)
(* meanwhile is as good as one dropped before or after the operation.      *)
(***************************************************************************)
EXTENDS Slices, Sequences

CONSTANTS
  Storages,  \* identities of the buffers the device has room for
  Sizes      \* sizes a client may ask for

ASSUME PersistentAssumption ==
  /\ Alignment \in Nat \ {0}
  /\ Sizes \subseteq Nat

VARIABLES
  mode,      \* MemoryManagement::mode: "auto" or "persistent"
  slices,    \* PersistentPool::slices
  sizes,     \* PersistentPool::sizes: positions of the slices of a padded size
  location,  \* slice position stored in each descriptor, -1 when it has none
  held,      \* descriptors referenced outside the pool
  buffers    \* buffers allocated on the device, with their sizes

vars == <<mode, slices, sizes, location, held, buffers>>

\* A slice and the buffer it is the whole of.
PersistentSlice ==
  [offset: {0}, size: Nat, padding: Nat, handle: Descriptors, storage: Storages]

IsFree(i) == slices[i].handle \notin held

InPool(d) == \E i \in DOMAIN slices : slices[i].handle = d

Fresh(d) == d \notin held /\ ~InPool(d)

Padded(size) == size + CalculatePadding(size)

HasSize(size) == Padded(size) \in DOMAIN sizes

Positions(size) == IF HasSize(size) THEN sizes[Padded(size)] ELSE <<>>

\* First free slice of the size.
FirstFree(size, i) ==
  \E n \in DOMAIN Positions(size) :
    /\ i = Positions(size)[n]
    /\ IsFree(i)
    /\ \A k \in 1..(n - 1) : ~IsFree(Positions(size)[k])

\* Mutant: the index stays as it was.
IndexOfStale(list) == sizes

\* The index of a list of slices by effective size.
IndexOf(list) ==
  [k \in {EffectiveSize(list[i]) : i \in DOMAIN list} |->
     InOrder({i \in DOMAIN list : EffectiveSize(list[i]) = k})]
-----------------------------------------------------------------------------
Init ==
  /\ mode \in {"auto", "persistent"}
  /\ slices = <<>>
  /\ sizes = <<>>
  /\ location = [d \in Descriptors |-> -1]
  /\ held = {}
  /\ buffers = {}

\* ManagedMemoryHandle::new()
NewHandle(d) ==
  /\ Fresh(d)
  /\ held' = held \cup {d}
  /\ UNCHANGED <<mode, slices, sizes, location, buffers>>

\* The last reference to a handle and its bindings is dropped.
Release(d) ==
  /\ d \in held
  /\ held' = held \ {d}
  /\ location' = IF InPool(d) THEN location ELSE [location EXCEPT ![d] = -1]
  /\ UNCHANGED <<mode, slices, sizes, buffers>>

\* MemoryManagement::mode(), around the loading of weights.
SetMode ==
  /\ mode' = IF mode = "auto" THEN "persistent" ELSE "auto"
  /\ UNCHANGED <<slices, sizes, location, held, buffers>>

\* try_reserve() finds a slice, whose size is now the one asked for.
TryReserve(size) ==
  \E i \in DOMAIN slices :
    /\ FirstFree(size, i)
    /\ slices' = [slices EXCEPT ![i].size = size, ![i].offset = 0]
    /\ held' = held \cup {slices[i].handle}
    /\ UNCHANGED <<mode, sizes, location, buffers>>

\* Mutant: the padding is not allocated.
BufferSizeUnpadded(size) == size

BufferSize(size) == Padded(size)

\* try_reserve() finds none; alloc() adds a slice, in persistent mode or when
\* the pool knows the size.  Another reserve goes to another pool.
Alloc(size) ==
  /\ ~\E i \in DOMAIN slices : FirstFree(size, i)
  /\ mode = "persistent" \/ HasSize(size)
  /\ \E s \in Storages \ {b.storage : b \in buffers}, d \in Descriptors :
       /\ Fresh(d)
       /\ buffers' = buffers \cup {[storage |-> s, bytes |-> BufferSize(size)]}
       /\ slices' = Append(slices,
            [offset |-> 0, size |-> size, padding |-> CalculatePadding(size),
             handle |-> d, storage |-> s])
       /\ sizes' = [k \in DOMAIN sizes \cup {Padded(size)} |->
                      IF k # Padded(size) THEN sizes[k]
                      ELSE Append(Positions(size), Len(slices) + 1)]
       /\ location' = [location EXCEPT ![d] = Len(slices) + 1]
       /\ held' = held \cup {d}
  /\ UNCHANGED mode

\* Mutant: the positions in the descriptors stay.
RelocateNone(kept) == location

\* Positions of the descriptors once only the slices kept remain.
Relocate(kept) ==
  [d \in Descriptors |->
     IF ~InPool(d) THEN location[d]
     ELSE IF d \notin held THEN -1
     ELSE CHOOSE i \in DOMAIN kept : kept[i].handle = d]

\* Mutant: the buffers of the free slices are not given back.
BuffersKeptAll(kept) == buffers

BuffersKept(kept) ==
  {b \in buffers : \A i \in DOMAIN slices : slices[i].storage = b.storage => ~IsFree(i)}

\* cleanup(explicit): free slices go, the index is built again.
Cleanup ==
  /\ slices # <<>>
  /\ LET kept == Kept(slices, {i \in DOMAIN slices : ~IsFree(i)})
     IN /\ slices' = kept
        /\ sizes' = IndexOf(kept)
        /\ location' = Relocate(kept)
        /\ buffers' = BuffersKept(kept)
  /\ UNCHANGED <<mode, held>>

\* bind(): the slice of a reserved handle passes to the user's own handle.
Bind(reserved, new) ==
  /\ reserved \in held /\ InPool(reserved)
  /\ new \in held /\ ~InPool(new)
  /\ slices' = [slices EXCEPT ![location[reserved]].handle = new]
  /\ location' = [location EXCEPT ![new] = location[reserved], ![reserved] = -1]
  /\ held' = held \ {reserved}
  /\ UNCHANGED <<mode, sizes, buffers>>

Next ==
  \/ \E d \in Descriptors : NewHandle(d) \/ Release(d)
  \/ SetMode
  \/ \E size \in Sizes : TryReserve(size) \/ Alloc(size)
  \/ Cleanup
  \/ \E reserved, new \in Descriptors : Bind(reserved, new)

Spec == Init /\ [][Next]_vars
-----------------------------------------------------------------------------
(***************************************************************************)
(* Properties.                                                             *)
(***************************************************************************)
\* Every variable keeps its type: no position in the index lies beyond the slices.
TypeOK ==
  /\ mode \in {"auto", "persistent"}
  /\ slices \in Seq(PersistentSlice)
  /\ DOMAIN sizes \subseteq Nat
  /\ \A k \in DOMAIN sizes : sizes[k] \in Seq(DOMAIN slices)
  /\ location \in [Descriptors -> Nat \cup {-1}]
  /\ held \subseteq Descriptors
  /\ buffers \subseteq [storage: Storages, bytes: Nat]

\* The index and the slices agree across allocations and the rebuilding of
\* cleanup(): every slice is in the index once.
IndexComplete ==
  \A i \in DOMAIN slices :
    \E k \in DOMAIN sizes : \E n \in DOMAIN sizes[k] :
      /\ sizes[k][n] = i
      /\ \A j \in DOMAIN sizes : \A m \in DOMAIN sizes[j] :
           sizes[j][m] = i => j = k /\ m = n

\* A binding leads to its own slice, a handle that was never bound nowhere.
FindsSlice ==
  \A d \in held :
    IF InPool(d)
    THEN location[d] \in DOMAIN slices /\ slices[location[d]].handle = d
    ELSE location[d] = -1

\* A buffer of the device belongs to exactly one slice: none leaks, none is
\* freed under a slice.
BuffersOwned ==
  /\ {b.storage : b \in buffers} = {slices[i].storage : i \in DOMAIN slices}
  /\ \A i, j \in DOMAIN slices : slices[i].storage = slices[j].storage => i = j
  /\ \A b, c \in buffers : b.storage = c.storage => b = c

\* Whatever sizes a slice was reused for, the size it has fits in its buffer.
SizeFitsBuffer ==
  \A i \in DOMAIN slices : \E b \in buffers :
    b.storage = slices[i].storage /\ slices[i].size <= b.bytes

(***************************************************************************)
(* The inductive invariant behind them.                                    *)
(***************************************************************************)
\* Every descriptor knows the slice it is in, held or not; no two slices share one.
Located ==
  /\ \A i \in DOMAIN slices : location[slices[i].handle] = i
  /\ \A d \in Descriptors : ~InPool(d) => location[d] = -1

\* Buffers are of an aligned size, and no padding makes up for a whole alignment.
BuffersAligned ==
  /\ \A b \in buffers : b.bytes % Alignment = 0
  /\ \A i \in DOMAIN slices : slices[i].padding < Alignment

\* A slice reused for a larger size may be filed under a key its buffer is too
\* small for, but under no aligned one, and a request only looks those up.
KeysFit ==
  \A k \in DOMAIN sizes : \A n \in DOMAIN sizes[k] : \A b \in buffers :
    k % Alignment = 0 /\ b.storage = slices[sizes[k][n]].storage => k <= b.bytes

PoolInv ==
  /\ TypeOK
  /\ Located
  /\ IndexComplete
  /\ BuffersOwned
  /\ BuffersAligned
  /\ KeysFit
  /\ SizeFitsBuffer

\* "alloc and try_reserve must use the same sizes key (size + padding)": a free
\* slice is found by a request for the padded size of its buffer.  This is not so:
\* a slice reused for another size is filed by cleanup() under a key of its own.
FreeIsFound ==
  \A i \in DOMAIN slices : \A b \in buffers :
    IsFree(i) /\ b.storage = slices[i].storage
      => \E n \in DOMAIN Positions(b.bytes) : Positions(b.bytes)[n] = i
=============================================================================
