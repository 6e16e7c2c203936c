--------------------------- MODULE IntOperations ----------------------------
(***************************************************************************)
(* The operations on int tensors that a client registers:                *)
(* IntTensorOps (burn-fusion/src/ops/int_tensor.rs)                        *)
(***************************************************************************)
EXTENDS Operations

\* int_empty().
IntEmpty ==
  Ops("BaseInt", {"Empty"}, <<>>, <<I>>)

\* int_reshape() to int_matmul().
IntSlicing ==
  Ops("BaseInt", {"Reshape", "Slice"}, <<I>>, <<I>>)
  \cup Ops("BaseInt", {"SliceAssign"}, <<I, I>>, <<I>>)
  \cup binary_int_ops("Float", {"Matmul"})

\* int_mask_where() to int_gather().
IntMasking ==
  ReadIn(Ops("BaseInt", {"MaskWhere"}, <<I, B, I>>, <<I>>), <<1, 3, 2>>)
  \cup Ops("BaseInt", {"MaskFill"}, <<I, B>>, <<I>>)
  \cup Ops("BaseInt", {"Gather"}, <<I, I>>, <<I>>)

\* int_scatter_add() to int_gather_nd().
IntScattering ==
  Ops("BaseInt", {"Scatter", "ScatterNd"}, <<I, I, I>>, <<I>>)
  \cup Ops("BaseInt", {"GatherNd"}, <<I, I>>, <<I>>)

\* int_select() to int_equal().
IntSelection ==
  Ops("BaseInt", {"Select"}, <<I, I>>, <<I>>)
  \cup Ops("BaseInt", {"SelectAssign"}, <<I, I, I>>, <<I>>)
  \cup Concatenations("BaseInt", I)
  \cup binary_int_cmp_ops("BaseInt", {"Equal"})

\* int_equal_elem() to int_lower().
IntEquality ==
  scalar_int_cmp_ops("BaseInt", {"EqualElem"})
  \cup binary_int_cmp_ops("NumericInt", {"Greater", "GreaterEqual", "Lower"})
  \cup scalar_int_cmp_ops("NumericInt", {"GreaterElem", "GreaterEqualElem"})

\* int_lower_elem() to int_sub().
IntOrder ==
  scalar_int_cmp_ops("NumericInt", {"LowerElem", "LowerEqualElem"})
  \cup binary_int_cmp_ops("NumericInt", {"LowerEqual"})
  \cup binary_int_ops("NumericInt", {"Add", "Sub"})
  \cup scalar_int_ops("NumericInt", {"AddScalar"})

\* int_sub_scalar() to int_remainder_scalar().
IntArithmetic ==
  scalar_int_ops("NumericInt", {"SubScalar", "MulScalar", "DivScalar",
          "RemScalar"})
  \cup binary_int_ops("NumericInt", {"Mul", "Div", "Rem"})

\* int_zeros() to int_prod().
IntCreation ==
  Ops("BaseInt", {"Zeros", "Ones"}, <<>>, <<I>>)
  \cup Ops("NumericInt", {"Full"}, <<>>, <<I>>)
  \cup unary_int_ops("NumericInt", {"Sum", "Prod"})
  \cup reduce_int_ops("NumericInt", {"SumDim"})

\* int_prod_dim() to int_cummin().
IntReduction ==
  reduce_int_ops("NumericInt", {"ProdDim", "MeanDim"})
  \cup unary_int_ops("NumericInt", {"Mean"})
  \cup Ops("NumericInt", {"CumSum", "CumProd", "CumMin"}, <<I>>, <<I>>)

\* int_cummax() to int_abs().
IntRanking ==
  Ops("NumericInt", {"CumMax", "Clamp"}, <<I>>, <<I>>)
  \cup reduce_int_ops("NumericInt", {"ArgMax", "ArgTopK", "TopK", "ArgMin"})
  \cup unary_int_ops("NumericInt", {"Abs"})

\* int_into_float() to int_min().
IntExtremes ==
  Ops("Int", {"IntoFloat"}, <<I>>, <<F>>)
  \cup Ops("BaseInt", {"SwapDims"}, <<I>>, <<I>>)
  \cup unary_int_ops("NumericInt", {"Max", "Min"})
  \cup reduce_int_ops("NumericInt", {"MaxDim"})
  \cup Ops("NumericInt", {"MaxDimWithIndices"}, <<I>>, <<I, I>>)

\* int_max_abs() to int_random().
IntMagnitude ==
  unary_int_ops("NumericInt", {"MaxAbs"})
  \cup reduce_int_ops("NumericInt", {"MaxAbsDim", "MinDim"})
  \cup Ops("NumericInt", {"MinDimWithIndices"}, <<I>>, <<I, I>>)
  \cup Ops("NumericInt", {"IntRandom"}, <<>>, <<I>>)

\* int_permute() to bitwise_and().
IntShaping ==
  Ops("BaseInt", {"Permute", "Expand", "Flip", "RepeatDim"}, <<I>>,
          <<I>>)
  \cup binary_int_ops("Int", {"BitwiseAnd"})

\* bitwise_and_scalar() to bitwise_left_shift_scalar().
IntBits ==
  scalar_int_ops("Int", {"BitwiseAndScalar", "BitwiseOrScalar",
          "BitwiseXorScalar", "BitwiseLeftShiftScalar"})
  \cup binary_int_ops("Int", {"BitwiseOr", "BitwiseXor", "BitwiseLeftShift"})
  \cup unary_int_ops("Int", {"BitwiseNot"})

\* bitwise_right_shift() to int_powi_scalar_impl().
IntPowers ==
  binary_int_ops("Int", {"BitwiseRightShift"})
  \cup scalar_int_ops("Int", {"BitwiseRightShiftScalar"})
  \cup Ops("BaseInt", {"Cast", "Unfold"}, <<I>>, <<I>>)
  \cup binary_int_ops("NumericInt", {"Powi"})
  \cup scalar_int_ops("NumericInt", {"PowiScalar"})

IntOps ==
  IntEmpty \cup IntSlicing \cup IntMasking \cup IntScattering
    \cup IntSelection \cup IntEquality \cup IntOrder \cup IntArithmetic
    \cup IntCreation \cup IntReduction \cup IntRanking \cup IntExtremes
    \cup IntMagnitude \cup IntShaping \cup IntBits \cup IntPowers
=============================================================================
