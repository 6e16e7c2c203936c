------------------------------- MODULE Slices -------------------------------
(***************************************************************************)
(* Slices of a storage buffer (cubecl-runtime,                             *)
(* memory_management/memory_pool/base.rs and storage/base.rs), the part    *)
(* that the page and the pools have in common.  Offsets and sizes are in   *)
(* units of the model, padding makes the next offset aligned.              *)
(***************************************************************************)
EXTENDS Common

CONSTANTS
  Descriptors,  \* identities of ManagedMemoryDescriptor
  Alignment     \* memory alignment of the pool

Slice == [offset: Nat, size: Nat, padding: Nat, handle: Descriptors]

\* Mutant: sizes are not padded.
CalculatePaddingNone(size) == 0

CalculatePadding(size) == PaddingTo(size, Alignment)

EffectiveSize(s) == s.size + s.padding

\* Slice::new() and StorageHandle::offset_start()
NewSlice(offset, size, d) ==
  [offset |-> offset, size |-> size, padding |-> 0, handle |-> d]
=============================================================================
