-------------------------- MODULE MCPersistentPool --------------------------
(* Small instance of PersistentPool for TLC. *)
EXTENDS PersistentPool, TLC

Perms == Permutations(Descriptors) \cup Permutations(Storages)
=============================================================================
