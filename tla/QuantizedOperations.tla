------------------------ MODULE QuantizedOperations -------------------------
(***************************************************************************)
(* The operations on quantized tensors that a client registers:          *)
(* QTensorOps (burn-fusion/src/ops/qtensor.rs)                             *)
(***************************************************************************)
EXTENDS Operations

\* quantize() to dequantize().
Quantization ==
  ReadIn(Ops("Float", {"Quantize"}, <<F, F>>, <<Q>>), <<2, 1>>)
  \cup Ops("Float", {"Dequantize"}, <<Q>>, <<F>>)

\* q_reshape().
QuantizedReshape ==
  Ops("BaseFloat", {"Reshape"}, <<Q>>, <<Q>>)

\* q_swap_dims() to q_gather().
QuantizedViews ==
  Ops("BaseFloat", {"SwapDims", "Permute", "Flip"}, <<Q>>, <<Q>>)
  \cup RegisteredOnly(Ops("BaseFloat", {"Gather"}, <<Q, I>>, <<Q>>), {1})

\* q_select() to q_expand().
QuantizedSelection ==
  RegisteredOnly(Ops("BaseFloat", {"Select"}, <<Q, I>>, <<Q>>), {1})
  \cup Ops("BaseFloat", {"Slice", "Expand"}, <<Q>>, <<Q>>)

\* q_matmul().
QuantizedMatmul ==
  UNION {Ops("Float", {"Matmul"}, <<k1, k2>>, <<k3>>) : k1, k2, k3 \in {F, Q}}

QuantizedOps ==
  Quantization \cup QuantizedReshape \cup QuantizedViews \cup QuantizedSelection
    \cup QuantizedMatmul
=============================================================================
