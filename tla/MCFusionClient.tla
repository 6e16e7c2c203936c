--------------------------- MODULE MCFusionClient ---------------------------
(* Small instances of FusionClient for TLC. *)
EXTENDS FusionClient, TLC

Perms == Permutations(Threads)

\* The sound operations but those on quantized tensors, which no other
\* operation is about.
SoundOps == {o \in AllOps \ QuantizedOps : Sound(o)}

\* The others are bool_mask_where(), quantize(), q_gather() and q_select().
ASSUME AllButFourSound ==
  \A o \in AllOps :
    \/ Sound(o)
    \/ o.ir \in {<<"BaseBool", "MaskWhere">>, <<"Float", "Quantize">>}
    \/ /\ o.ir \in {<<"BaseFloat", "Gather">>, <<"BaseFloat", "Select">>}
       /\ o \in QuantizedOps

=============================================================================
