------------------------------ MODULE MCFusion ------------------------------
(* Small instance of FusionMultiStream for TLC. *)
EXTENDS FusionMultiStream, TLC

Perms == Permutations(Streams) \cup Permutations(Tensors)
=============================================================================
