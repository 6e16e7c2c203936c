--------------------------- MODULE RegionAllocator ---------------------------
(***************************************************************************)
(* What a memory page promises to the compute server: a handle that        *)
(* somebody references owns a region of the buffer, alone, and that region *)
(* neither moves nor changes size until the last reference is dropped.     *)
(* How the page cuts, pads and merges its slices does not appear here.     *)
(***************************************************************************)
EXTENDS Integers

CONSTANTS
  Descriptors,  \* identities of handles
  PageSize      \* size of the buffer

VARIABLE owned  \* set of [handle, offset, size], one per referenced handle

Region ==
  [handle: Descriptors, offset: 0..PageSize, size: 0..PageSize]

Disjoint(r, s) ==
  \/ r.offset + r.size <= s.offset
  \/ s.offset + s.size <= r.offset

Init == owned = {}

\* Give a region that nobody owns to a handle that owns none.
Allocate(r) ==
  /\ r \in Region
  /\ r.offset + r.size <= PageSize
  /\ \A s \in owned : s.handle # r.handle /\ Disjoint(r, s)
  /\ owned' = owned \cup {r}

\* The last reference to a handle is dropped.
Free(r) ==
  /\ r \in owned
  /\ owned' = owned \ {r}

\* The owner of a region becomes another handle; the region stays.
Rebind(r, new) ==
  /\ r \in owned
  /\ \A s \in owned : s.handle # new
  /\ owned' = (owned \ {r}) \cup {[r EXCEPT !.handle = new]}

\* The new region is one that is owned afterwards: there is no need to try all.
Next ==
  \/ \E r \in owned' : Allocate(r)
  \/ \E r \in owned : Free(r)
  \/ \E r \in owned, new \in Descriptors : Rebind(r, new)

Spec == Init /\ [][Next]_owned
=============================================================================
