--------------------------- MODULE BoolOperations ---------------------------
(***************************************************************************)
(* The operations on bool tensors that a client registers:               *)
(* BoolTensorOps (burn-fusion/src/ops/bool_tensor.rs)                      *)
(***************************************************************************)
EXTENDS Operations

\* bool_empty() to bool_ones().
BoolCreation ==
  Ops("BaseBool", {"Empty", "Zeros", "Ones"}, <<>>, <<B>>)

\* bool_into_int() to bool_into_float().
BoolConversions ==
  Ops("Bool", {"IntoInt"}, <<B>>, <<I>>)
  \cup Ops("Bool", {"IntoFloat"}, <<B>>, <<F>>)

\* bool_reshape() to bool_cat().
BoolSlicing ==
  Ops("BaseBool", {"Reshape", "Slice"}, <<B>>, <<B>>)
  \cup Ops("BaseBool", {"SliceAssign"}, <<B, B>>, <<B>>)
  \cup Concatenations("BaseBool", B)

\* bool_equal() to bool_or().
BoolLogic ==
  Ops("BaseBool", {"Equal"}, <<B, B>>, <<B>>)
  \cup Ops("Bool", {"Not"}, <<B>>, <<B>>)
  \cup Ops("Bool", {"And", "Or"}, <<B, B>>, <<B>>)

\* bool_swap_dims() to bool_flip().
BoolShaping ==
  Ops("BaseBool", {"SwapDims", "Expand", "Flip"}, <<B>>, <<B>>)
  \cup Ops("BaseInt", {"Permute"}, <<B>>, <<B>>)

\* bool_repeat_dim() to bool_mask_fill().
BoolMasking ==
  Ops("BaseBool", {"RepeatDim", "Unfold"}, <<B>>, <<B>>)
  \cup ReadIn(Ops("BaseBool", {"MaskWhere"}, <<B, B, B>>, <<B>>), <<1, 3, 2>>)
  \cup Ops("BaseBool", {"MaskFill"}, <<B, B>>, <<B>>)

\* bool_gather() to bool_equal_elem().
BoolScattering ==
  Ops("BaseBool", {"Gather"}, <<B, I>>, <<B>>)
  \cup Ops("BaseBool", {"Scatter"}, <<B, I, B>>, <<B>>)
  \cup Ops("BaseBool", {"EqualElem"}, <<B>>, <<B>>)

\* bool_select() to bool_select_or().
BoolSelection ==
  Ops("BaseBool", {"Select"}, <<B, I>>, <<B>>)
  \cup Ops("BaseBool", {"SelectAssign"}, <<B, I, B>>, <<B>>)

BoolOps ==
  BoolCreation \cup BoolConversions \cup BoolSlicing \cup BoolLogic
    \cup BoolShaping \cup BoolMasking \cup BoolScattering \cup BoolSelection
=============================================================================
