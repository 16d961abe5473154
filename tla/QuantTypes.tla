----------------------------- MODULE QuantTypes -----------------------------
(***************************************************************************)
(* The quantization types and the tables that route them: the families of  *)
(* quantization/utils.py, the capability sets of ops.py, the dispatch      *)
(* tables of triton/gemm and triton/dequantize, and the cases of the       *)
(* switches in csrc/gguf.  A type is the string of its enum name; type 41  *)
(* is "Q1_0", the six types of rocmfpx_types.py keep their numbers' names. *)
(*                                                                         *)
(* IQ1_BN, IQ2_BN and the four *_KT types are left out: they have no entry *)
(* in GGML_QUANT_SIZES, so the reader cannot deliver such a tensor.        *)
(***************************************************************************)
EXTENDS Integers

UNQUANTIZED_TYPES    == {"F32", "F16", "BF16"}
STANDARD_QUANT_TYPES == {"Q4_0", "Q4_1", "Q5_0", "Q5_1", "Q8_0", "Q8_1"}
KQUANT_TYPES         == {"Q2_K", "Q3_K", "Q4_K", "Q5_K", "Q6_K"}
IMATRIX_QUANT_TYPES  == {"IQ1_M", "IQ1_S", "IQ2_XXS", "IQ2_XS", "IQ2_S",
                         "IQ3_XXS", "IQ3_S", "IQ4_XS", "IQ4_NL"}
LOWBIT_TRITON_TYPES  == {"TQ1_0", "TQ2_0", "Q1_0", "Q2_0"}
FP4_TRITON_TYPES     == {"MXFP4", "NVFP4"}
ROCMFPX_TYPES        == {"Q4_0_ROCMFP4", "Q4_0_ROCMFP4_FAST", "Q2_0_ROCMFPX",
                         "Q3_0_ROCMFPX", "Q6_0_ROCMFPX", "Q8_0_ROCMFPX"}
IK_IQK_TYPES         == {"IQ2_K", "IQ3_K", "IQ4_K", "IQ5_K", "IQ6_K",
                         "IQ4_KS", "IQ2_KS", "IQ3_KS", "IQ5_KS",
                         "IQ4_KSS", "IQ2_KL"}
IK_BASIC_TYPES       == {"I2_S", "Q1_0", "Q6_0"}
LLAMA_EXTRA_TYPES    == {"TQ1_0", "TQ2_0", "Q2_0"}

DEQUANT_TYPES == STANDARD_QUANT_TYPES \cup KQUANT_TYPES
                   \cup IMATRIX_QUANT_TYPES \cup ROCMFPX_TYPES
                   \cup IK_IQK_TYPES \cup IK_BASIC_TYPES
                   \cup LLAMA_EXTRA_TYPES

MMVQ_QUANT_TYPES == STANDARD_QUANT_TYPES \cup KQUANT_TYPES
                      \cup IMATRIX_QUANT_TYPES \cup LOWBIT_TRITON_TYPES
                      \cup FP4_TRITON_TYPES \cup {"Q4_0_ROCMFP4_FAST"}

\* Mutant of MMQ_QUANT_TYPES: the low-bit formats are forgotten.
MmqWithoutLowbit == STANDARD_QUANT_TYPES \cup KQUANT_TYPES
                      \cup FP4_TRITON_TYPES

MMQ_QUANT_TYPES == STANDARD_QUANT_TYPES \cup KQUANT_TYPES
                     \cup LOWBIT_TRITON_TYPES \cup FP4_TRITON_TYPES

\* Every type the reader can deliver.
ReadableTypes == UNQUANTIZED_TYPES \cup DEQUANT_TYPES \cup FP4_TRITON_TYPES

-----------------------------------------------------------------------------
(* What ops.py says the extension has kernels for.                         *)
NativeQuants == {"Q4_0", "Q4_1", "Q5_0", "Q5_1", "Q8_0"} \cup KQUANT_TYPES

\* Mutant of CUDA_GEMV_QUANT_TYPES: built from the families, Q8_1 included.
GemvOfFamilies ==
  STANDARD_QUANT_TYPES \cup KQUANT_TYPES \cup IMATRIX_QUANT_TYPES

CUDA_GEMV_QUANT_TYPES == NativeQuants \cup IMATRIX_QUANT_TYPES

CUDA_GEMM_QUANT_TYPES == NativeQuants

CUDA_DEQUANT_ONLY_TYPES ==
  IK_BASIC_TYPES \cup LLAMA_EXTRA_TYPES \cup IK_IQK_TYPES \cup ROCMFPX_TYPES

ROCMFPX_GEMM_TYPES == ROCMFPX_TYPES \ {"Q4_0_ROCMFP4_FAST"}

(* The cases of the switches in the extension itself.                      *)
GemvCases == NativeQuants \cup IMATRIX_QUANT_TYPES
GemmCases == NativeQuants
DequantizeCases == GemvCases \cup LLAMA_EXTRA_TYPES \cup IK_BASIC_TYPES
                     \cup ROCMFPX_TYPES \cup IK_IQK_TYPES

(* The Triton tables: types with a GEMM kernel, with a dequantize kernel,  *)
(* and with a decoder written in PyTorch.                                  *)
TritonGemmTypes == STANDARD_QUANT_TYPES \cup KQUANT_TYPES
                     \cup IMATRIX_QUANT_TYPES \cup ROCMFPX_TYPES
                     \cup FP4_TRITON_TYPES \cup LOWBIT_TRITON_TYPES
TritonDequantizeTypes ==
  STANDARD_QUANT_TYPES \cup KQUANT_TYPES \cup IMATRIX_QUANT_TYPES
ReferenceDecoders == ROCMFPX_TYPES \cup LOWBIT_TRITON_TYPES
                       \cup {"I2_S", "Q6_0"} \cup IK_IQK_TYPES

-----------------------------------------------------------------------------
(* Geometry.  The types below store a scale per row beside the blocks of   *)
(* the row; size is the entry of GGML_QUANT_SIZES, which has no place for  *)
(* the scale and adds it to every block.  All other types are blocks only: *)
(* their widths are counted in weights, since every check on their bytes   *)
(* is a check on the number of weights.                                    *)
RowPrefixTypes ==
  {"IQ4_KS", "IQ2_KS", "IQ3_KS", "IQ5_KS", "IQ4_KSS", "IQ2_KL"}
RowScaledTypes == RowPrefixTypes \cup {"I2_S"}

Geometry(t) ==
  CASE t = "IQ4_KS"  -> [size |-> 140, scale |-> 4, payload |-> 136]
    [] t = "IQ2_KS"  -> [size |->  72, scale |-> 2, payload |->  70]
    [] t = "IQ3_KS"  -> [size |-> 104, scale |-> 2, payload |-> 102]
    [] t = "IQ5_KS"  -> [size |-> 172, scale |-> 4, payload |-> 168]
    [] t = "IQ4_KSS" -> [size |-> 132, scale |-> 4, payload |-> 128]
    [] t = "IQ2_KL"  -> [size |->  88, scale |-> 2, payload |->  86]
    [] t = "I2_S"    -> [size |->  36, scale |-> 4, payload |->  32]

BlockSize(t) ==
  CASE t \in UNQUANTIZED_TYPES -> 1
    [] t \in STANDARD_QUANT_TYPES \cup ROCMFPX_TYPES
             \cup {"Q6_0", "IQ4_NL", "MXFP4"} -> 32
    [] t \in {"Q2_0", "NVFP4"} -> 64
    [] t \in {"Q1_0", "I2_S"} -> 128
    [] OTHER -> 256

\* Width of a row of n weights as the decoders lay it out.
RowWidth(t, n) ==
  IF t \in RowScaledTypes
  THEN Geometry(t).scale + (n \div BlockSize(t)) * Geometry(t).payload
  ELSE n

\* Width of a row of n weights as GGML_QUANT_SIZES makes the reader cut it.
ReadWidth(t, n) ==
  IF t \in RowScaledTypes
  THEN (n \div BlockSize(t)) * Geometry(t).size
  ELSE n

\* gguf_qweight_dequant_shape: weights in a row of the given width.
DequantColumns(t, width) ==
  CASE t \in RowPrefixTypes ->
         ((width - Geometry(t).scale) \div Geometry(t).payload) * BlockSize(t)
    [] t = "I2_S" -> (width \div Geometry(t).size) * BlockSize(t)
    [] OTHER -> width
=============================================================================
