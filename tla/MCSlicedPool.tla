---------------------------- MODULE MCSlicedPool ----------------------------
(* Small instance of SlicedPool for TLC. *)
EXTENDS SlicedPool

\* Storages are told apart by StorageNumber, so only descriptors are symmetric.
Perms == Permutations(Descriptors)
=============================================================================
