-------------------------- MODULE FloatOperations ---------------------------
(***************************************************************************)
(* The operations on float tensors that a client registers:              *)
(* FloatTensorOps (burn-fusion/src/ops/tensor.rs)                          *)
(***************************************************************************)
EXTENDS Operations

\* float_random() to float_full().
FloatCreation ==
  Ops("Float", {"Random"}, <<>>, <<F>>)
  \cup Ops("BaseFloat", {"Zeros", "Ones"}, <<>>, <<F>>)
  \cup Ops("NumericFloat", {"Full"}, <<>>, <<F>>)

\* float_into_int() to float_clamp().
FloatAffine ==
  Ops("Float", {"IntoInt"}, <<F>>, <<I>>)
  \cup Ops("BaseFloat", {"Empty"}, <<>>, <<F>>)
  \cup binary_float_ops("NumericFloat", {"Add"})
  \cup scalar_float_ops("NumericFloat", {"AddScalar"})
  \cup Ops("NumericFloat", {"Clamp"}, <<F>>, <<F>>)

\* float_sub() to float_remainder().
FloatArithmetic ==
  binary_float_ops("NumericFloat", {"Sub", "Mul", "Div", "Rem"})
  \cup scalar_float_ops("NumericFloat", {"SubScalar", "MulScalar",
          "DivScalar"})

\* float_remainder_scalar() to float_reshape().
FloatProducts ==
  scalar_float_ops("NumericFloat", {"RemScalar"})
  \cup binary_float_ops("Float", {"Matmul"})
  \cup Ops("Float", {"Cross"}, <<F, F>>, <<F>>)
  \cup Ops("BaseFloat", {"SwapDims", "Reshape"}, <<F>>, <<F>>)

\* float_gather() to float_scatter_nd().
FloatScattering ==
  Ops("BaseFloat", {"Gather"}, <<F, I>>, <<F>>)
  \cup Ops("BaseFloat", {"Scatter", "ScatterNd"}, <<F, I, F>>, <<F>>)

\* float_gather_nd() to float_slice().
FloatIndexing ==
  Ops("BaseFloat", {"GatherNd", "Select"}, <<F, I>>, <<F>>)
  \cup Ops("BaseFloat", {"SelectAssign"}, <<F, I, F>>, <<F>>)
  \cup Ops("BaseFloat", {"Slice"}, <<F>>, <<F>>)

\* float_slice_assign() to float_equal().
FloatMasking ==
  Ops("BaseFloat", {"SliceAssign"}, <<F, F>>, <<F>>)
  \cup ReadIn(Ops("BaseFloat", {"MaskWhere"}, <<F, B, F>>, <<F>>), <<1, 3, 2>>)
  \cup Ops("BaseFloat", {"MaskFill"}, <<F, B>>, <<F>>)
  \cup binary_float_cmp_ops("BaseFloat", {"Equal"})

\* float_equal_elem() to float_greater_equal_elem().
FloatEquality ==
  scalar_float_cmp_ops("BaseFloat", {"EqualElem"})
  \cup binary_float_cmp_ops("NumericFloat", {"Greater", "GreaterEqual"})
  \cup scalar_float_cmp_ops("NumericFloat", {"GreaterElem",
          "GreaterEqualElem"})

\* float_lower() to float_sum_dim().
FloatOrder ==
  binary_float_cmp_ops("NumericFloat", {"Lower", "LowerEqual"})
  \cup scalar_float_cmp_ops("NumericFloat", {"LowerElem", "LowerEqualElem"})
  \cup unary_float_ops("NumericFloat", {"Sum"})
  \cup reduce_float_ops("NumericFloat", {"SumDim"})

\* float_prod() to float_cumprod().
FloatReduction ==
  unary_float_ops("NumericFloat", {"Prod", "Mean"})
  \cup reduce_float_ops("NumericFloat", {"ProdDim", "MeanDim"})
  \cup Ops("NumericFloat", {"CumSum", "CumProd"}, <<F>>, <<F>>)

\* float_cummin() to float_sqrt().
FloatCumulation ==
  Ops("NumericFloat", {"CumMin", "CumMax"}, <<F>>, <<F>>)
  \cup unary_float_ops("Float", {"Exp", "Log", "Log1p", "Sqrt"})
  \cup scalar_float_ops("Float", {"PowfScalar"})

\* float_abs() to float_acos().
FloatTrigonometry ==
  unary_float_ops("NumericFloat", {"Abs"})
  \cup unary_float_ops("Float", {"Cos", "Sin", "Tan", "Cosh", "Sinh", "Tanh",
          "ArcCos"})

\* float_acosh() to float_erf().
FloatInverses ==
  unary_float_ops("Float", {"ArcCosh", "ArcSin", "ArcSinh", "ArcTan",
          "ArcTanh", "Recip", "Erf"})
  \cup binary_float_ops("Float", {"ArcTan2"})

\* float_cat() to float_repeat_dim().
FloatShaping ==
  Concatenations("BaseFloat", F)
  \cup reduce_float2int_ops("NumericFloat", {"ArgMax", "ArgTopK"})
  \cup reduce_float_ops("NumericFloat", {"TopK"})
  \cup Ops("BaseFloat", {"RepeatDim"}, <<F>>, <<F>>)

\* float_argmin() to float_min_dim().
FloatExtremes ==
  reduce_float2int_ops("NumericFloat", {"ArgMin"})
  \cup unary_float_ops("NumericFloat", {"Max", "Min"})
  \cup reduce_float_ops("NumericFloat", {"MaxDim", "MinDim"})
  \cup Ops("NumericFloat", {"MaxDimWithIndices"}, <<F>>, <<F, I>>)

\* float_min_dim_with_indices() to float_permute().
FloatMagnitude ==
  Ops("NumericFloat", {"MinDimWithIndices"}, <<F>>, <<F, I>>)
  \cup unary_float_ops("NumericFloat", {"MaxAbs"})
  \cup reduce_float_ops("NumericFloat", {"MaxAbsDim"})
  \cup binary_float_ops("Float", {"Powf"})
  \cup Ops("BaseInt", {"Permute"}, <<F>>, <<F>>)

\* float_expand() to float_trunc().
FloatRounding ==
  Ops("BaseFloat", {"Expand"}, <<F>>, <<F>>)
  \cup Ops("BaseInt", {"Flip"}, <<F>>, <<F>>)
  \cup unary_float_ops("Float", {"Round", "Floor", "Ceil", "Trunc"})

\* float_cast() to float_is_inf().
FloatViews ==
  Ops("BaseFloat", {"Cast", "Unfold"}, <<F>>, <<F>>)
  \cup Ops("Float", {"IsNan", "IsInf"}, <<F>>, <<B>>)

\* float_grid_sample_2d().
FloatSampling ==
  Ops("Float", {"GridSample2d"}, <<F, F>>, <<F>>)

FloatOps ==
  FloatCreation \cup FloatAffine \cup FloatArithmetic \cup FloatProducts
    \cup FloatScattering \cup FloatIndexing \cup FloatMasking \cup FloatEquality
    \cup FloatOrder \cup FloatReduction \cup FloatCumulation \cup FloatTrigonometry
    \cup FloatInverses \cup FloatShaping \cup FloatExtremes \cup FloatMagnitude
    \cup FloatRounding \cup FloatViews \cup FloatSampling
=============================================================================
