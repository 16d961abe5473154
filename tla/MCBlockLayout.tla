--------------------------- MODULE MCBlockLayout ---------------------------
(* The launches of the runs of BlockLayout.                                  *)
EXTENDS BlockLayout

GemmTypes == Tiled32 \cup GridTypes \cup LlamaTypes
               \cup {"Q2_K", "Q3_K", "Q4_K", "Q5_K", "Q6_K", "IQ4_XS", "NVFP4"}
CpuTypes == ROCmFPXTypes \cup {"MXFP4", "NVFP4"}
\* The Python decoder of IQ5_KS leaves a bit of every scale byte unread.
MCLaunches ==
  ({"gemm", "moe"} \X GemmTypes) \cup ({"gemm_cpu"} \X CpuTypes)
    \cup ({"dequantize"} \X ((GemmTypes \ (LlamaTypes \cup {"MXFP4", "NVFP4"}))
                              \cup (IKTypes \ {"IQ5_KS"})))
    \cup ({"native"} \X (IKTypes \ {"IQ1_BN", "IQ3_KS", "IQ5_KS"}))
MCNativeLaunches == {"native"} \X IKTypes
MCLlamaLaunches == {"dequantize"} \X LlamaTypes
=============================================================================
