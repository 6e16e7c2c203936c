---------------------------- MODULE RelativeOps -----------------------------
(***************************************************************************)
(* RelativeOps::to_relative (burn-fusion/src/stream/context.rs): the form of *)
(* the queued operations that execution plans are made of and found by.    *)
(* Tensors, dimensions and scalars are replaced by numbers in the order in *)
(* which they appear in the queue, so that two programs that differ in     *)
(* their names only have the same form.                                    *)
(*                                                                         *)
(* A row describes the conversion of one variant by the fields of its      *)
(* description in the order in which they are converted.                   *)
(***************************************************************************)
EXTENDS Integers, Sequences, SequencesExt

T == "tensor"              \* an input
U == "result"              \* an output
O == "optional tensor"
P == "optional result"
L == "tensors"             \* any number of inputs
S == "scalar"              \* replaced by its number
D == "data"                \* dimensions, options, ...: kept
E == "erased"              \* replaced by a constant

Rows(family, variants, fields) ==
  {[ir |-> <<family, v>>, to |-> <<family, v>>, fields |-> fields] : v \in variants}

\* Rows whose operations become those of another variant.
Into(variant, rows) == {[r EXCEPT !.to[2] = variant] : r \in rows}

\* Embedding() to DeformableConv2d().
ModuleRows1 ==
  Rows("Module", {"Embedding", "LinearXBackward", "LinearWeightBackward"},
       <<T, T, U>>)
  \cup Rows("Module", {"EmbeddingBackward", "Conv1dBiasBackward",
            "Conv2dBiasBackward", "Conv3dBiasBackward"}, <<T, T, T, U>>)
  \cup Rows("Module", {"Linear"}, <<T, T, O, U>>)
  \cup Rows("Module", {"LinearBiasBackward"}, <<T, U>>)
  \cup Rows("Module", {"Conv1d", "Conv2d", "Conv3d"}, <<T, T, O, U, D>>)
  \cup Rows("Module", {"Conv1dXBackward", "Conv1dWeightBackward",
            "Conv2dXBackward", "Conv2dWeightBackward", "Conv3dXBackward",
            "Conv3dWeightBackward"}, <<T, T, T, U, D>>)
  \cup Rows("Module", {"DeformableConv2d"}, <<T, T, T, O, O, U, D>>)

\* DeformableConv2dBackward() to MaxPool1dWithIndicesBackward().
ModuleRows2 ==
  Rows("Module", {"DeformableConv2dBackward"}, <<T, T, T, O, O, T, U, U, U, P,
       P, D>>)
  \cup Rows("Module", {"ConvTranspose1d", "ConvTranspose2d",
            "ConvTranspose3d"}, <<T, T, O, U, D>>)
  \cup Rows("Module", {"AvgPool1d", "AvgPool2d", "AdaptiveAvgPool1d",
            "AdaptiveAvgPool2d", "MaxPool1d"}, <<T, U, D>>)
  \cup Rows("Module", {"AvgPool1dBackward", "AvgPool2dBackward"}, <<T, T, U,
            D>>)
  \cup Rows("Module", {"AdaptiveAvgPool1dBackward",
            "AdaptiveAvgPool2dBackward"}, <<T, T, U>>)
  \cup Rows("Module", {"MaxPool1dWithIndices"}, <<T, U, U, D>>)
  \cup Rows("Module", {"MaxPool1dWithIndicesBackward"}, <<T, T, T, U, D>>)

\* MaxPool2d() to CtcLossBackward().
ModuleRows3 ==
  Rows("Module", {"MaxPool2d", "Interpolate"}, <<T, U, D>>)
  \cup Rows("Module", {"MaxPool2dWithIndices", "Rfft"}, <<T, U, U, D>>)
  \cup Rows("Module", {"MaxPool2dWithIndicesBackward"}, <<T, T, T, U, D>>)
  \cup Rows("Module", {"InterpolateBackward", "IRfft"}, <<T, T, U, D>>)
  \cup Rows("Module", {"Attention"}, <<T, T, T, O, O, U, D>>)
  \cup Rows("Module", {"CtcLoss"}, <<T, T, T, T, U, D>>)
  \cup Rows("Module", {"CtcLossBackward"}, <<T, T, T, T, T, U, D>>)

\* Exp() to GridSample2d().
FloatRows ==
  Rows("Float", {"Exp", "Log", "Log1p", "Erf", "Sqrt", "Cos", "Sin", "Tanh",
       "Tan", "Cosh", "Sinh", "ArcCos", "ArcCosh", "ArcSin", "ArcSinh",
       "ArcTan", "ArcTanh", "IntoInt", "Recip", "Dequantize", "Round",
       "Floor", "Ceil", "IsNan", "IsInf"}, <<T, U>>)
  \cup Rows("Float", {"Powf", "ArcTan2", "Matmul"}, <<T, T, U>>)
  \cup Rows("Float", {"PowfScalar"}, <<T, S, U>>)
  \cup Rows("Float", {"Cross", "Quantize", "GridSample2d"}, <<T, T, U, D>>)
  \cup Rows("Float", {"Random"}, <<U, D>>)
  \cup Into("Ceil", Rows("Float", {"Trunc"}, <<T, U>>))

\* IntoFloat() to Or().
BoolRows ==
  Rows("Bool", {"IntoFloat", "IntoInt", "Not"}, <<T, U>>)
  \cup Rows("Bool", {"And", "Or"}, <<T, T, U>>)

\* IntoFloat() to BitwiseRightShiftScalar().
IntRows ==
  Rows("Int", {"IntoFloat", "BitwiseNot"}, <<T, U>>)
  \cup Rows("Int", {"Matmul", "BitwiseAnd", "BitwiseOr", "BitwiseXor",
            "BitwiseLeftShift", "BitwiseRightShift"}, <<T, T, U>>)
  \cup Rows("Int", {"BitwiseAndScalar", "BitwiseOrScalar", "BitwiseXorScalar",
            "BitwiseLeftShiftScalar", "BitwiseRightShiftScalar"}, <<T, U, D>>)

\* Add() to TopK().
NumericRows1(family) ==
  Rows(family, {"Add", "Sub", "Div", "Rem", "Mul", "Greater", "GreaterEqual",
       "Lower", "LowerEqual"}, <<T, T, U>>)
  \cup Rows(family, {"AddScalar", "SubScalar", "DivScalar", "RemScalar",
            "MulScalar", "GreaterElem", "GreaterEqualElem", "LowerElem",
            "LowerEqualElem"}, <<T, S, U>>)
  \cup Rows(family, {"Abs", "Mean", "Sum", "Prod"}, <<T, U>>)
  \cup Rows(family, {"Full"}, <<U, S>>)
  \cup Rows(family, {"MeanDim", "SumDim", "ProdDim", "ArgMax", "ArgTopK",
            "TopK"}, <<T, U, D>>)

\* ArgMin() to CumMax().
NumericRows2(family) ==
  Rows(family, {"ArgMin", "MaxDim", "MinDim", "MaxAbsDim", "CumSum",
       "CumProd", "CumMin", "CumMax"}, <<T, U, D>>)
  \cup Rows(family, {"Max", "Min", "MaxAbs"}, <<T, U>>)
  \cup Rows(family, {"MaxDimWithIndices", "MinDimWithIndices"}, <<T, U, U,
            D>>)
  \cup Rows(family, {"Clamp"}, <<T, S, S, U>>)
  \cup Rows(family, {"IntRandom"}, <<U, D>>)
  \cup Rows(family, {"Powi"}, <<T, T, U>>)
  \cup Rows(family, {"PowiScalar"}, <<T, S, U>>)

\* Reshape() to Zeros().
BaseRows(family) ==
  Rows(family, {"Reshape", "Expand", "Cast"}, <<T, U>>)
  \cup Rows(family, {"SwapDims", "Permute", "Unfold", "Flip", "RepeatDim"},
            <<T, U, D>>)
  \cup Rows(family, {"Slice"}, <<T, E, U>>)
  \cup Rows(family, {"SliceAssign"}, <<T, E, T, U>>)
  \cup Rows(family, {"Gather", "Select"}, <<T, T, U, D>>)
  \cup Rows(family, {"Scatter", "ScatterNd", "SelectAssign"}, <<T, T, T, U,
            D>>)
  \cup Rows(family, {"GatherNd", "Equal"}, <<T, T, U>>)
  \cup Rows(family, {"MaskWhere"}, <<T, T, T, U>>)
  \cup Rows(family, {"MaskFill"}, <<T, T, S, U>>)
  \cup Rows(family, {"EqualElem"}, <<T, S, U>>)
  \cup Rows(family, {"Cat"}, <<L, U, D>>)
  \cup Rows(family, {"Empty", "Ones", "Zeros"}, <<U>>)

\* DistributedOperationIr.
DistributedRows ==
  Rows("Distributed", {"AllReduce"}, <<T, U>>)

\* OperationIr, InitOperationIr, and DropOp's TensorIr.
AllRows ==
  ModuleRows1 \cup ModuleRows2 \cup ModuleRows3 \cup FloatRows \cup BoolRows
    \cup IntRows \cup DistributedRows
    \cup UNION {NumericRows1(f) \cup NumericRows2(f) : f \in {"NumericFloat", "NumericInt"}}
    \cup UNION {BaseRows(f) : f \in {"BaseFloat", "BaseInt", "BaseBool"}}
    \cup Rows("Init", {"Init"}, <<U>>) \cup Rows("Drop", {"Drop"}, <<T>>)

RowOf == [ir \in {r.ir : r \in AllRows} |-> CHOOSE r \in AllRows : r.ir = ir]

-----------------------------------------------------------------------------
(***************************************************************************)
(* An operation has one argument per field: the tensors in it, with their  *)
(* ids and shapes, and its data.                                           *)
(***************************************************************************)
Tensor(id, shape) == [id |-> id, shape |-> shape]
Argument(tensors, data) == [tensors |-> tensors, data |-> data]
Operation(ir, args) == [ir |-> ir, args |-> args]

TensorsOf(op) == FlattenSeq([i \in DOMAIN op.args |-> op.args[i].tensors])
Nodes(op) == {t.id : t \in Range(TensorsOf(op))}

(***************************************************************************)
(* OperationConverter.  The keys of tensors_global2relative and of         *)
(* shapes_global2relative in the order of their insertion, which is that of*)
(* their numbers: the number is the length of the map.  1 is always        *)
(* dimension 0.                                                            *)
(***************************************************************************)
Cleared == [tensors |-> <<>>, shapes |-> <<1>>, scalars |-> 0]

Seen(keys, key) == IF key \in Range(keys) THEN keys ELSE Append(keys, key)
Number(keys, key) == CHOOSE i \in DOMAIN keys : keys[i] = key

\* A conversion step: the converter, and what was converted so far.
Converting(converter) == [converter |-> converter, done |-> <<>>]

\* TensorIr
TensorToRelative(c, t) ==
  LET tensors == Seen(c.converter.tensors, t.id)
      shapes == FoldLeft(Seen, c.converter.shapes, t.shape)
  IN [converter |-> [c.converter EXCEPT !.tensors = tensors, !.shapes = shapes],
      done |-> Append(c.done, Tensor(Number(tensors, t.id),
                              [i \in DOMAIN t.shape |-> Number(shapes, t.shape[i])]))]

\* ScalarIr, kept data and erased data.
DataToRelative(converter, field, data) ==
  IF field = S THEN converter.scalars ELSE IF field = E THEN 0 ELSE data

FieldToRelative(c, field, arg) ==
  LET tensors == FoldLeft(TensorToRelative, Converting(c.converter), arg.tensors)
  IN [converter |-> [tensors.converter EXCEPT !.scalars = @ + (IF field = S THEN 1 ELSE 0)],
      done |-> Append(c.done,
                 Argument(tensors.done, DataToRelative(c.converter, field, arg.data)))]

OperationToRelative(c, op) ==
  LET row == RowOf[op.ir]
      args == FoldLeft(LAMBDA a, i : FieldToRelative(a, row.fields[i], op.args[i]),
                       Converting(c.converter), [i \in DOMAIN op.args |-> i])
  IN [converter |-> args.converter,
      done |-> Append(c.done, Operation(row.to, args.done))]

\* OperationQueue::reset_relative(); add() extends it by one operation.
Relative(ops) == FoldLeft(OperationToRelative, Converting(Cleared), ops).done

-----------------------------------------------------------------------------
(***************************************************************************)
(* What the form is for: two lists of operations are the same program when *)
(* they differ only in the names of their tensors, in the dimensions other *)
(* than 1, in the values of scalars, and in erased data.                   *)
(***************************************************************************)
SamePattern(s, t) ==
  /\ Len(s) = Len(t)
  /\ \A i, j \in DOMAIN s : s[i] = s[j] <=> t[i] = t[j]

Ids(ops) == FlattenSeq([i \in DOMAIN ops |->
              LET ts == TensorsOf(ops[i]) IN [j \in DOMAIN ts |-> ts[j].id]])
Dimensions(ops) == <<1>> \o FlattenSeq([i \in DOMAIN ops |->
              LET ts == TensorsOf(ops[i])
              IN FlattenSeq([j \in DOMAIN ts |-> ts[j].shape])])

SameProgram(p, q) ==
  /\ Len(p) = Len(q)
  /\ \A i \in DOMAIN p :
       /\ p[i].ir = q[i].ir
       /\ \A f \in DOMAIN p[i].args :
            /\ Len(p[i].args[f].tensors) = Len(q[i].args[f].tensors)
            /\ \A t \in DOMAIN p[i].args[f].tensors :
                 Len(p[i].args[f].tensors[t].shape) = Len(q[i].args[f].tensors[t].shape)
            /\ RowOf[p[i].ir].fields[f] = D => p[i].args[f].data = q[i].args[f].data
  /\ SamePattern(Ids(p), Ids(q))
  /\ SamePattern(Dimensions(p), Dimensions(q))
=============================================================================
