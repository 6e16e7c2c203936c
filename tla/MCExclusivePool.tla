-------------------------- MODULE MCExclusivePool --------------------------
(* Small instance of ExclusivePool for TLC. *)
EXTENDS ExclusivePool, TLC

Perms == Permutations(Descriptors) \cup Permutations(Storages)
=============================================================================
