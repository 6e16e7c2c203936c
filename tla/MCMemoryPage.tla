---- MODULE MCMemoryPage ----
(* Small instance of MemoryPage for TLC. *)
EXTENDS MemoryPage

Perms == Permutations(Descriptors)
====
