------------------------------ MODULE QuantOps ------------------------------
(***************************************************************************)
(* How a packed weight is multiplied or looked up: _fused_mul_mat_gguf of  *)
(* quantization/linear.py and _apply_gguf_embedding of vocal_embeds.py,    *)
(* the functions of ops.py they call, and the native and Triton kernels at *)
(* the end of each route.                                                  *)
(*                                                                         *)
(* A tensor is its shape and whether its numbers are the right ones        *)
(* ("exact").  Activations have two or three dimensions and the width and  *)
(* type the layer expects, weights are packed uint8 tensors on the GPU:    *)
(* the checks of dtype, device and rank never fire here.                   *)
(***************************************************************************)
EXTENDS QuantTypes, Sequences

CONSTANTS
  Setups,  \* layers in their surroundings, see SetupsAssumption
  Leads    \* shapes of a request, without the feature dimension

\* extension: "none" (not built, or VLLM_GGUF_USE_CUDA=0), "old" (built
\* before the ROCmFPX GEMV operators were added) or "full".  rank: leading
\* dimensions of the requests, 1 for vLLM's flattened tokens.
ASSUME SetupsAssumption ==
  Setups \subseteq
    [ extension : {"none", "old", "full"},
      device    : {"nvidia", "rocm", "gfx115x"},
      use       : {"linear", "embedding"},
      type      : ReadableTypes,
      rank      : {1, 2},
      rows      : Nat \ {0},
      hidden    : {n \in Nat \ {0} : n % 256 = 0} ]

ASSUME LeadsAssumption ==
  Leads \subseteq {l \in Seq(Nat) : Len(l) \in {1, 2}}

VARIABLES
  setup,    \* the layer and the platform it runs on
  status,   \* "loaded", "ready", "refused" (process_weights_after_loading)
  request,  \* shape of the last request, without the feature dimension
  answer    \* its result

vars == <<setup, status, request, answer>>

type   == setup.type
rows   == setup.rows
hidden == setup.hidden

\* The route an answer came by; the first three are no tensors.
Kernels == {"none", "raise", "invalid", "empty", "dense", "lookup",
            "dequantize", "native gemv", "native gemm", "rocm gemv",
            "triton gemm"}

Nothing == [kernel |-> "none", shape |-> <<>>, exact |-> FALSE]
Raised  == [kernel |-> "raise", shape |-> <<>>, exact |-> FALSE]
Invalid == [kernel |-> "invalid", shape |-> <<>>, exact |-> FALSE]

Init ==
  /\ setup \in Setups
  /\ status = "loaded"
  /\ request = <<>>
  /\ answer = Nothing

-----------------------------------------------------------------------------
(* Capabilities: _cuda_kernel_available, _cuda_gemm_kernel_available and   *)
(* _rocmfpx_gfx115x_available.                                             *)
HasNative == setup.extension # "none"
HasRocmGemv == setup.extension = "full"

HasDequantize == HasNative /\ type \in CUDA_GEMV_QUANT_TYPES
                                         \cup CUDA_DEQUANT_ONLY_TYPES
HasGemv == HasNative /\ type \in CUDA_GEMV_QUANT_TYPES
                                   \ CUDA_DEQUANT_ONLY_TYPES
HasGemm == HasNative /\ type \in CUDA_GEMM_QUANT_TYPES

\* Mutant of Gfx115x: the gate of the wave32 kernels asks for ROCm only.
AnyRocm == setup.device # "nvidia"

Gfx115x == setup.device = "gfx115x"

-----------------------------------------------------------------------------
(* Requests and kernels.  A kernel that multiplies returns its answer for  *)
(* the leading dimensions it is given.                                     *)
Tokens(lead) == IF Len(lead) = 1 THEN lead[1] ELSE lead[1] * lead[2]

Product(kernel, lead) ==
  [kernel |-> kernel, shape |-> lead \o <<rows>>, exact |-> TRUE]

\* The extension reads X.sizes()[0] and [1] and returns {sizes[0], row}.
NativeProduct(kernel, lead) ==
  [ kernel |-> kernel,
    shape  |-> <<lead[1], rows>>,
    exact  |-> Len(lead) = 1 ]

NativeGemv(lead) ==
  IF type \in GemvCases THEN NativeProduct("native gemv", lead) ELSE Raised

NativeGemm(lead) ==
  IF type \in GemmCases THEN NativeProduct("native gemm", lead) ELSE Raised

\* ggml_mul_mat_a8_triton; its kernels flatten the request and restore it.
TritonGemm(lead) ==
  IF type \in TritonGemmTypes THEN Product("triton gemm", lead) ELSE Raised

-----------------------------------------------------------------------------
(* Dequantization.  A packed tensor has some rows of some width; it is     *)
(* intact when its bytes follow each other as they do in the file.  The    *)
(* result is "exact", "wrong" or "raised".                                 *)
Qweight == [rows |-> rows, width |-> ReadWidth(type, hidden), intact |-> TRUE]

\* torch.index_select of n rows: right only when rows are cut where they end.
Selected(n) ==
  [ rows   |-> n,
    width  |-> Qweight.width,
    intact |-> Qweight.width = RowWidth(type, hidden) ]

\* Blocks are read one after the other; formats with a scale per row find it
\* from n, the length of a row.
Decoded(w, n) ==
  IF w.intact /\ (type \in RowScaledTypes => n = hidden)
  THEN "exact" ELSE "wrong"

NativeDequantize(w, m, n) ==
  CASE type \notin DequantizeCases -> "raised"
    [] /\ type \in {"Q4_0_ROCMFP4", "Q4_0_ROCMFP4_FAST"}
       /\ ~ (m > 0 /\ n > 0 /\ n % 32 = 0 /\ m * n = w.rows * w.width)
       -> "raised"
    [] OTHER -> Decoded(w, n)

\* The scales of the llama.cpp types broadcast to (blocks, blocks, weights):
\* reshape gives the tensor back for one block only.
TritonDequantize(w, m, n) ==
  CASE type \in ReferenceDecoders ->
         IF /\ m > 0 /\ n > 0 /\ n % BlockSize(type) = 0
            /\ w.rows * w.width = m * RowWidth(type, n)
            /\ type \in LOWBIT_TRITON_TYPES => m * n = BlockSize(type)
         THEN Decoded(w, n) ELSE "raised"
    [] type \in TritonDequantizeTypes ->
         IF /\ (m * n) % BlockSize(type) = 0
            /\ w.rows * w.width >= m * n
         THEN Decoded(w, n) ELSE "raised"
    [] OTHER -> "raised"

\* ops.ggml_dequantize
Dequantize(w, m, n) ==
  IF /\ type = "Q8_0_ROCMFPX"
     /\ ~ (m = w.rows /\ m > 0 /\ n > 0 /\ n = w.width)
  THEN "raised"
  ELSE IF HasDequantize THEN NativeDequantize(w, m, n)
  ELSE TritonDequantize(w, m, n)

\* Dequantize the whole weight, then the dense product x @ weight.T.
DequantizedProduct(lead) ==
  LET n == DequantColumns(type, Qweight.width)
      weight == Dequantize(Qweight, rows, n)
  IN  IF weight = "raised" \/ n # hidden THEN Raised
      ELSE [Product("dequantize", lead) EXCEPT !.exact = weight = "exact"]

-----------------------------------------------------------------------------
(* ops.ggml_mul_mat_vec_a8, called with a flattened request.  Its branch   *)
(* for the other five ROCmFPX types is never taken: they are not in        *)
(* MMVQ_QUANT_TYPES.                                                       *)
MulMatVec(lead) ==
  IF HasRocmGemv /\ type \in ROCMFPX_TYPES
  THEN NativeProduct("rocm gemv", lead)
  ELSE IF type = "Q4_0_ROCMFP4_FAST" THEN DequantizedProduct(lead)
  ELSE IF HasGemv THEN NativeGemv(lead)
  ELSE TritonGemm(lead)

(* ops.ggml_mul_mat_a8                                                     *)
MulMat(lead) ==
  IF type \in ROCMFPX_TYPES
  THEN IF Gfx115x THEN TritonGemm(lead) ELSE DequantizedProduct(lead)
  ELSE IF HasGemm THEN NativeGemm(lead)
  ELSE TritonGemm(lead)

\* The largest number of tokens for which the GEMV is used.
MmvqSafe ==
  IF type \in IMATRIX_QUANT_TYPES
  THEN IF rows > 5120 THEN 8 ELSE 16
  ELSE IF rows > 5120 THEN 2 ELSE 6

\* y.reshape(*x.shape[:-1], qweight.shape[0])
Restored(y, lead) ==
  IF y.kernel = "raise" THEN y ELSE [y EXCEPT !.shape = lead \o <<rows>>]

\* Mutant of FusedMulMat: a three-dimensional request reaches the GEMV as is.
FusedMulMatUnflattened(lead) ==
  LET m == Tokens(lead)
  IN  IF m <= MmvqSafe /\ type \in MMVQ_QUANT_TYPES THEN MulMatVec(lead)
      ELSE IF type \in MMQ_QUANT_TYPES THEN MulMat(lead)
      ELSE DequantizedProduct(lead)

(* _fused_mul_mat_gguf                                                     *)
FusedMulMat(lead) ==
  LET m == Tokens(lead)
  IN  IF m = 0 /\ type \in {"Q4_0_ROCMFP4", "Q4_0_ROCMFP4_FAST"} THEN Invalid
      ELSE IF m = 0 THEN Product("empty", lead)
      ELSE IF type \in UNQUANTIZED_TYPES THEN Product("dense", lead)
      ELSE IF m <= MmvqSafe /\ type \in MMVQ_QUANT_TYPES
      THEN Restored(MulMatVec(<<m>>), lead)
      ELSE IF \/ type \in ROCMFPX_GEMM_TYPES /\ Gfx115x
              \/ type = "Q4_0_ROCMFP4_FAST" /\ m > MmvqSafe
              \/ type \in MMQ_QUANT_TYPES
      THEN MulMat(lead)
      ELSE IF type \in DEQUANT_TYPES THEN DequantizedProduct(lead)
      ELSE Raised

(* _apply_gguf_embedding.  It hands ggml_dequantize the hidden size as the *)
(* number of rows and the number of tokens as the number of columns.       *)
EmbeddingLookup(lead) ==
  LET n == Tokens(lead)
      quant == Dequantize(Selected(n), hidden, n)
      vectors == [kernel |-> "lookup", shape |-> lead \o <<hidden>>,
                  exact |-> TRUE]
  IN  IF type \in UNQUANTIZED_TYPES THEN vectors
      ELSE IF \/ type \notin DEQUANT_TYPES
              \/ hidden # DequantColumns(type, Qweight.width)
              \/ quant = "raised"
      THEN Raised
      ELSE [vectors EXCEPT !.exact = quant = "exact"]

-----------------------------------------------------------------------------
(* Actions.                                                                *)

\* Mutant of Load: the type is not checked.
LoadUnchecked ==
  /\ status = "loaded"
  /\ status' = "ready"
  /\ UNCHANGED <<setup, request, answer>>

\* process_weights_after_loading, inherited by GGUFEmbeddingMethod
Load ==
  /\ status = "loaded"
  /\ status' = IF type \in UNQUANTIZED_TYPES \cup DEQUANT_TYPES
               THEN "ready" ELSE "refused"
  /\ UNCHANGED <<setup, request, answer>>

Linear ==
  /\ status = "ready" /\ setup.use = "linear"
  /\ \E lead \in Leads :
       /\ Len(lead) = setup.rank
       /\ request' = lead
       /\ answer' = FusedMulMat(lead)
  /\ UNCHANGED <<setup, status>>

Embed ==
  /\ status = "ready" /\ setup.use = "embedding"
  /\ \E lead \in Leads :
       /\ Len(lead) = setup.rank /\ Tokens(lead) > 0
       /\ request' = lead
       /\ answer' = EmbeddingLookup(lead)
  /\ UNCHANGED <<setup, status>>

Next == Load \/ Linear \/ Embed

Spec == Init /\ [][Next]_vars

-----------------------------------------------------------------------------
(* Properties.                                                             *)

\* Every result has the form the callers rely on, and only a layer that
\* process_weights_after_loading accepted has any.
TypeOK ==
  /\ setup \in Setups
  /\ status \in {"loaded", "ready", "refused"}
  /\ request \in Seq(Nat)
  /\ answer \in [kernel : Kernels, shape : Seq(Nat), exact : BOOLEAN]
  /\ status = "ready" => type \in UNQUANTIZED_TYPES \cup DEQUANT_TYPES
  /\ answer # Nothing => status = "ready"

\* The wave32 Triton GEMM kernels of the ROCmFPX formats run on gfx115x and
\* nowhere else (ops.py: "every other device stays fail-closed"), and there no
\* batch too large for a GEMV is dequantized instead.
Gated ==
  type \in ROCMFPX_TYPES =>
    /\ answer.kernel = "triton gemm" => setup.device = "gfx115x"
    /\ answer.kernel = "dequantize" =>
         setup.device # "gfx115x" \/ Tokens(request) <= MmvqSafe

\* A format with a GEMM kernel that MMQ_QUANT_TYPES is there to route never
\* takes the dequantize-plus-dense path silently, small batch or large
\* (the comment above LOWBIT_TRITON_TYPES in quantization/utils.py).
ReachesKernel ==
  answer.kernel = "dequantize" =>
    type \notin STANDARD_QUANT_TYPES \cup KQUANT_TYPES \cup LOWBIT_TRITON_TYPES

\* gguf_qweight_dequant_shape finds the length of a row that the reader cut with
\* a scale for every block, unless the scales make up another block.
RowFits(t, n) ==
  t \in RowPrefixTypes =>
    Geometry(t).scale * (n \div BlockSize(t) - 1) < Geometry(t).payload

\* The linear layers that keep the promise: a native GEMM must not get requests
\* of three dimensions, and only the extension decodes scales per row.
LinearDelivers(s) ==
  /\ s.extension # "none" /\ s.rank = 2 => s.type \notin CUDA_GEMM_QUANT_TYPES
  /\ s.type \in RowScaledTypes => s.extension # "none" /\ RowFits(s.type, s.hidden)

\* The embeddings that keep it: upstream's formats, whose decoders do not look at
\* rows and columns, and blocks that the extension decodes without doing so.
EmbeddingDelivers(s) ==
  \/ s.type \in UNQUANTIZED_TYPES \cup FP4_TRITON_TYPES \cup STANDARD_QUANT_TYPES
                \cup KQUANT_TYPES \cup IMATRIX_QUANT_TYPES
  \/ /\ s.extension # "none"
     /\ s.type \notin RowScaledTypes
                       \cup {"Q4_0_ROCMFP4", "Q4_0_ROCMFP4_FAST", "Q8_0_ROCMFPX"}

Delivers(s) == IF s.use = "linear" THEN LinearDelivers(s) ELSE EmbeddingDelivers(s)

\* Both entry points implement the promise of their fake implementations:
\* every accepted layer that Delivers answers every request, in the promised shape,
\* with the right numbers, whichever tables and kernels the route went through.
Promise == INSTANCE LayerPromise WITH
  width   <- IF setup.use = "linear" THEN rows ELSE hidden,
  Nothing <- [shape |-> <<>>, exact |-> FALSE],
  Refused <- [shape |-> <<>>, exact |-> TRUE],
  answer  <- [shape |-> answer.shape,
              exact |-> answer.exact \/ answer.kernel = "invalid"]

KeepsPromise == Promise!Spec
=============================================================================
