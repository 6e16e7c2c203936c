-------------------------- MODULE ModuleOperations --------------------------
(***************************************************************************)
(* The operations on modules that a client registers:                    *)
(* ModuleOps (burn-fusion/src/ops/module.rs)                               *)
(***************************************************************************)
EXTENDS Operations

\* conv1d() to conv1d_weight_backward().
Conv1d ==
  Optional(Ops("Module", {"Conv1d"}, <<F, F, F>>, <<F>>), {3})
  \cup Ops("Module", {"Conv1dXBackward", "Conv1dWeightBackward"}, <<F, F, F>>,
          <<F>>)

\* conv1d_bias_backward() to conv2d_x_backward().
Conv2d ==
  Ops("Module", {"Conv1dBiasBackward", "Conv2dXBackward"}, <<F, F, F>>,
          <<F>>)
  \cup Optional(Ops("Module", {"Conv2d"}, <<F, F, F>>, <<F>>), {3})

\* conv2d_weight_backward() to deform_conv2d().
DeformConv2d ==
  Ops("Module", {"Conv2dWeightBackward", "Conv2dBiasBackward"}, <<F, F, F>>,
          <<F>>)
  \cup Optional(Ops("Module", {"DeformableConv2d"}, <<F, F, F, F, F>>, <<F>>),
          {4, 5})

\* deform_conv2d_backward() to conv3d().
DeformConv2dBackward ==
  OptionalGradients(Ops("Module", {"DeformableConv2dBackward"}, 
          <<F, F, F, F, F, F>>, <<F, F, F, F, F>>), {4, 5})
  \cup Optional(Ops("Module", {"Conv3d"}, <<F, F, F>>, <<F>>), {3})

\* conv3d_x_backward() to conv3d_bias_backward().
Conv3dBackward ==
  Ops("Module", {"Conv3dXBackward", "Conv3dWeightBackward",
          "Conv3dBiasBackward"}, <<F, F, F>>, <<F>>)

\* conv_transpose1d() to conv_transpose3d().
ConvTranspose ==
  Optional(Ops("Module", {"ConvTranspose1d", "ConvTranspose2d",
          "ConvTranspose3d"}, <<F, F, F>>, <<F>>), {3})

\* avg_pool1d() to avg_pool1d_backward().
AvgPool ==
  Ops("Module", {"AvgPool1d", "AvgPool2d"}, <<F>>, <<F>>)
  \cup Ops("Module", {"AvgPool1dBackward"}, <<F, F>>, <<F>>)

\* avg_pool2d_backward() to max_pool2d().
MaxPool ==
  Ops("Module", {"AvgPool2dBackward"}, <<F, F>>, <<F>>)
  \cup Ops("Module", {"MaxPool1d", "MaxPool2d"}, <<F>>, <<F>>)

\* max_pool1d_with_indices() to max_pool2d_with_indices().
MaxPoolIndices ==
  Ops("Module", {"MaxPool1dWithIndices", "MaxPool2dWithIndices"}, <<F>>,
          <<F, I>>)

\* max_pool1d_with_indices_backward() to adaptive_avg_pool1d().
AdaptivePool ==
  Ops("Module", {"MaxPool1dWithIndicesBackward",
          "MaxPool2dWithIndicesBackward"}, <<F, F, I>>, <<F>>)
  \cup Ops("Module", {"AdaptiveAvgPool1d"}, <<F>>, <<F>>)

\* adaptive_avg_pool2d() to interpolate().
Interpolation ==
  Ops("Module", {"AdaptiveAvgPool2d", "Interpolate"}, <<F>>, <<F>>)
  \cup Ops("Module", {"AdaptiveAvgPool1dBackward",
          "AdaptiveAvgPool2dBackward"}, <<F, F>>, <<F>>)

\* interpolate_backward() to rfft().
Attention ==
  Ops("Module", {"InterpolateBackward"}, <<F, F>>, <<F>>)
  \cup Optional(Ops("Module", {"Attention"}, <<F, F, F, B, F>>, <<F>>), {4, 5})
  \cup Ops("Module", {"Rfft"}, <<F>>, <<F, F>>)

\* irfft().
InverseFft ==
  Ops("Module", {"IRfft"}, <<F, F>>, <<F>>)

\* ctc_loss() to ctc_loss_backward().
CtcLoss ==
  Ops("Module", {"CtcLoss"}, <<F, I, I, I>>, <<F>>)
  \cup Ops("Module", {"CtcLossBackward"}, <<F, I, I, I, F>>, <<F>>)

ModuleOps ==
  Conv1d \cup Conv2d \cup DeformConv2d \cup DeformConv2dBackward
    \cup Conv3dBackward \cup ConvTranspose \cup AvgPool \cup MaxPool
    \cup MaxPoolIndices \cup AdaptivePool \cup Interpolation \cup Attention
    \cup InverseFft \cup CtcLoss
=============================================================================
