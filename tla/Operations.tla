---------------------------- MODULE Operations ------------------------------
(***************************************************************************)
(* What the wrappers of burn-fusion/src/ops have in common.  A wrapper      *)
(* notes the streams of its inputs, turns each input into its              *)
(* representation with into_ir(), and registers the operation together with *)
(* a closure, which later reads the inputs, computes, and stores the        *)
(* outputs.  An operation is described by                                  *)
(*    ir       the family and the variant of its OperationIr               *)
(*    ins      the kinds of its inputs, in the order of the into_ir calls  *)
(*    opt      the inputs that may be absent                               *)
(*    streams  the inputs given to OperationStreams                        *)
(*    gets     the order in which the closure takes the inputs' handles    *)
(*    outs     the kinds of its outputs                                    *)
(*    makes    the outputs the closure stores                              *)
(*    optouts  the outputs that are there when the input of that number is *)
(***************************************************************************)
EXTENDS Naturals, Sequences

\* The kinds of tensors.
F == "float"
I == "int"
B == "bool"
Q == "quantized"

Op(ir, ins, outs) ==
  [ir |-> ir, ins |-> ins, opt |-> {}, streams |-> DOMAIN ins,
   gets |-> [i \in DOMAIN ins |-> i], outs |-> outs, makes |-> DOMAIN outs,
   optouts |-> {}]

\* Most wrappers: one operation for each of the variants.
Ops(family, variants, ins, outs) == {Op(<<family, v>>, ins, outs) : v \in variants}

\* Wrappers that depart from the rule.
ReadIn(ops, order) == {[o EXCEPT !.gets = order] : o \in ops}
RegisteredOnly(ops, inputs) == {[o EXCEPT !.streams = inputs] : o \in ops}
Optional(ops, inputs) == {[o EXCEPT !.opt = inputs] : o \in ops}
OptionalGradients(ops, inputs) ==
  {[o EXCEPT !.opt = inputs, !.optouts = inputs] : o \in ops}

\* cat() takes any number of tensors; up to MaxCat here.
MaxCat == 3
Concatenations(family, kind) ==
  UNION {Ops(family, {"Cat"}, [i \in 1..n |-> kind], <<kind>>) : n \in 1..MaxCat}

\* The macros of binary.rs.
binary_float_ops(family, variants) == Ops(family, variants, <<F, F>>, <<F>>)
binary_float_cmp_ops(family, variants) == Ops(family, variants, <<F, F>>, <<B>>)
binary_int_cmp_ops(family, variants) == Ops(family, variants, <<I, I>>, <<B>>)
binary_int_ops(family, variants) == Ops(family, variants, <<I, I>>, <<I>>)

\* The macros of unary.rs.
scalar_float_ops(family, variants) == Ops(family, variants, <<F>>, <<F>>)
reduce_float_ops(family, variants) == Ops(family, variants, <<F>>, <<F>>)
reduce_float2int_ops(family, variants) == Ops(family, variants, <<F>>, <<I>>)
reduce_int_ops(family, variants) == Ops(family, variants, <<I>>, <<I>>)
unary_float_ops(family, variants) == Ops(family, variants, <<F>>, <<F>>)
unary_int_ops(family, variants) == Ops(family, variants, <<I>>, <<I>>)
scalar_float_cmp_ops(family, variants) == Ops(family, variants, <<F>>, <<B>>)
scalar_int_cmp_ops(family, variants) == Ops(family, variants, <<I>>, <<B>>)
scalar_int_ops(family, variants) == Ops(family, variants, <<I>>, <<I>>)
=============================================================================
