------------------------- MODULE MCFusionProcessor --------------------------
(* Small instances of FusionProcessor for TLC. *)
EXTENDS FusionProcessor

Ones == <<"BaseFloat", "Ones">>
Ceil == <<"Float", "Ceil">>
Trunc == <<"Float", "Trunc">>
Add == <<"NumericFloat", "Add">>
Sum == <<"NumericFloat", "SumDim">>

\* No fuser takes every variant, so that blocks close at different lengths.
TwoFusers == <<[takes |-> {Ones, Sum}, longest |-> 3], [takes |-> {Add}, longest |-> 2]>>
OnesSumAdd == {Ones, Sum, Add}

RoundFuser == <<[takes |-> {Ceil, Trunc}, longest |-> 2]>>
CeilTrunc == {Ceil, Trunc}

OneShape == {<<2>>}
=============================================================================
