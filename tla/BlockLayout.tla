---------------------------- MODULE BlockLayout ----------------------------
(* The kernels and decoders that read the packed blocks of a tensor.  A      *)
(* kernel is launched for a type, walks over a block in steps of a fixed     *)
(* number of lanes, and multiplies in each lane one weight by one activation *)
(* ("gemm", "moe") or writes one weight to its column of the output (the     *)
(* others).  The kernels of one type were written separately, and a layer    *)
(* may take any of them for the same tensor: they have to agree on where the *)
(* parts of every weight lie.                                                *)
(*                                                                           *)
(* A decoder made of tensor operations ("dequantize") ends by multiplying    *)
(* the codes by the scales, a broadcast of two shapes, and by reshaping the  *)
(* product to the rows and columns of the tensor.                            *)
EXTENDS GemmKernels, MoEKernels, Decoders, IKDecoders, NativeDecoders,
        FiniteSets

CONSTANTS Launches,   \* the pairs of a kernel and a type that are launched
          MaxRows, MaxBlocks   \* bounds: rows, and blocks in a row

Kernels == {"gemm", "gemm_cpu", "moe", "dequantize", "native"}
ASSUME LaunchesAssumption ==
  /\ \A launch \in Launches : launch[1] \in Kernels
  /\ MaxRows \in Nat \ {0} /\ MaxBlocks \in Nat \ {0}

VARIABLES kernel, type,    \* the launch under way, or "" for none
          rows, blocks,    \* the tensor: its rows and the blocks of a row
          step,            \* steps made on the current block
          tile,            \* activation and weight of each lane of the last step
          done, read, used, \* columns, bits, and codes read so far in this block
          result           \* what the last call gave back
vars == <<kernel, type, rows, blocks, step, tile, done, read, used, result>>
-----------------------------------------------------------------------------
(* Geometry.                                                                 *)

\* The first super-block kernels read chunks of a fixed width.
Tiled32 == {"Q4_0", "Q4_1", "Q5_0", "Q5_1", "Q8_0", "Q8_1", "IQ4_NL", "MXFP4", "Q4_0_ROCMFP4",
            "Q4_0_ROCMFP4_FAST", "Q8_0_ROCMFPX", "Q6_0_ROCMFPX", "Q3_0_ROCMFPX", "Q2_0_ROCMFPX"}
GridTypes == {"IQ1_M", "IQ1_S", "IQ2_S", "IQ2_XS", "IQ2_XXS", "IQ3_S", "IQ3_XXS"}
BLOCK_QK_BY_TYPE(t) ==
  CASE t \in Tiled32 \cup {"Q6_0"} -> 32
    [] t \in {"Q2_0", "NVFP4", "IQ1_BN", "IQ2_BN"} -> 64
    [] t \in {"Q1_0", "I2_S"} -> 128
    [] OTHER -> 256

BLOCK_BYTES_BY_TYPE ==
  [Q4_0 |-> 18, Q4_1 |-> 20, Q5_0 |-> 22, Q5_1 |-> 24, Q8_0 |-> 34, Q8_1 |-> 36,
   Q2_K |-> 84, Q3_K |-> 110, Q4_K |-> 144, Q5_K |-> 176, Q6_K |-> 210,
   IQ2_XXS |-> 66, IQ2_XS |-> 74, IQ3_XXS |-> 98, IQ1_S |-> 50, IQ4_NL |-> 18,
   IQ3_S |-> 110, IQ2_S |-> 82, IQ4_XS |-> 136, IQ1_M |-> 56,
   Q1_0 |-> 18, Q2_0 |-> 18, TQ1_0 |-> 54, TQ2_0 |-> 66, MXFP4 |-> 17, NVFP4 |-> 36,
   Q4_0_ROCMFP4 |-> 18, Q4_0_ROCMFP4_FAST |-> 17, Q6_0_ROCMFPX |-> 26,
   Q3_0_ROCMFPX |-> 14, Q2_0_ROCMFPX |-> 10, Q8_0_ROCMFPX |-> 33,
   IQ2_K |-> 76, IQ3_K |-> 110, IQ4_K |-> 144, IQ5_K |-> 176, IQ6_K |-> 212]
\* Types kept outside that table: bytes of the row prefix and of a block.
ROW_PREFIX_GGUF_TYPES ==
  [IQ4_KS |-> <<4, 136>>, IQ2_KS |-> <<2, 70>>, IQ3_KS |-> <<2, 102>>, IQ5_KS |-> <<4, 168>>,
   IQ4_KSS |-> <<4, 128>>, IQ2_KL |-> <<2, 86>>, IQ1_KT |-> <<4, 56>>, IQ2_KT |-> <<4, 68>>,
   IQ3_KT |-> <<4, 100>>, IQ4_KT |-> <<4, 128>>]
RowReferences ==
  [Q6_0 |-> <<0, 26>>, I2_S |-> <<0, 32>>, IQ1_BN |-> <<2, 13>>, IQ2_BN |-> <<4, 16>>]
Geometry(t) ==
  CASE t \in DOMAIN BLOCK_BYTES_BY_TYPE -> <<0, BLOCK_BYTES_BY_TYPE[t]>>
    [] t \in DOMAIN ROW_PREFIX_GGUF_TYPES -> ROW_PREFIX_GGUF_TYPES[t]
    [] OTHER -> RowReferences[t]

\* The lanes of one step of a kernel's loop over a block.
Lanes(k, t) ==
  IF k \notin {"gemm", "moe"} THEN BLOCK_QK_BY_TYPE(t)
  ELSE IF k = "moe" /\ t \in {"TQ1_0", "TQ2_0"} THEN K_CHUNK
  ELSE CASE t \in {"Q2_K", "Q4_K", "Q5_K", "IQ4_XS"} -> 32
         [] t \in {"Q3_K", "Q6_K"} -> 16
         [] t \in GridTypes -> 8
         [] OTHER -> BLOCK_QK_BY_TYPE(t)
-----------------------------------------------------------------------------
(* Kernels.                                                                  *)

ROCmFPXTypes == {"Q4_0_ROCMFP4", "Q4_0_ROCMFP4_FAST", "Q6_0_ROCMFPX", "Q8_0_ROCMFPX",
                 "Q3_0_ROCMFPX", "Q2_0_ROCMFPX"}
LlamaTypes == {"TQ1_0", "TQ2_0", "Q1_0", "Q2_0"}

_dequantize_rocmfpx_reference(t, pos) ==
  CASE t = "Q4_0_ROCMFP4" -> DequantizeRocm_Q4_0_ROCMFP4(pos)
    [] t = "Q4_0_ROCMFP4_FAST" -> DequantizeRocm_Q4_0_ROCMFP4_FAST(pos)
    [] t = "Q2_0_ROCMFPX" -> DequantizeRocm_Q2_0_ROCMFPX(pos)
    [] t = "Q3_0_ROCMFPX" -> DequantizeRocm_Q3_0_ROCMFPX(pos)
    [] t = "Q6_0_ROCMFPX" -> DequantizeRocm_Q6_0_ROCMFPX(pos)
    [] t = "Q8_0_ROCMFPX" -> DequantizeRocm_Q8_0_ROCMFPX(pos)
_dequantize_llama_reference(t, pos) ==
  CASE t = "Q1_0" -> DequantizeLlama_Q1_0(pos) [] t = "Q2_0" -> DequantizeLlama_Q2_0(pos)
    [] t = "TQ1_0" -> DequantizeLlama_TQ1_0(pos) [] t = "TQ2_0" -> DequantizeLlama_TQ2_0(pos)

\* Which decoder ggml_dequantize_triton takes, in the order of its tests.
ggml_dequantize_triton(t, pos) ==
  CASE t \in ROCmFPXTypes -> _dequantize_rocmfpx_reference(t, pos)
    [] t \in LlamaTypes -> _dequantize_llama_reference(t, pos)
    [] t \in IKTypes -> REFERENCE_DECODERS(t, pos)
    [] t = "IQ1_M" -> Dequantize_IQ1_M(pos) [] t = "IQ1_S" -> Dequantize_IQ1_S(pos)
    [] t = "IQ2_S" -> Dequantize_IQ2_S(pos) [] t = "IQ2_XXS" -> Dequantize_IQ2_XXS(pos)
    [] t = "IQ2_XS" -> Dequantize_IQ2_XS(pos) [] t = "IQ3_S" -> Dequantize_IQ3_S(pos)
    [] t = "IQ3_XXS" -> Dequantize_IQ3_XXS(pos) [] t = "IQ4_NL" -> Dequantize_IQ4_NL(pos)
    [] t = "IQ4_XS" -> Dequantize_IQ4_XS(pos) [] t = "Q2_K" -> Dequantize_Q2_K(pos)
    [] t = "Q3_K" -> Dequantize_Q3_K(pos) [] t = "Q4_0" -> Dequantize_Q4_0(pos)
    [] t = "Q4_1" -> Dequantize_Q4_1(pos) [] t = "Q4_K" -> Dequantize_Q4_K(pos)
    [] t = "Q5_0" -> Dequantize_Q5_0(pos) [] t = "Q5_1" -> Dequantize_Q5_1(pos)
    [] t = "Q5_K" -> Dequantize_Q5_K(pos) [] t = "Q6_K" -> Dequantize_Q6_K(pos)
    [] t = "Q8_0" -> Dequantize_Q8_0(pos) [] t = "Q8_1" -> Dequantize_Q8_1(pos)

\* Lane l of step c of a kernel.
Lane(k, t, c, l) ==
  CASE k = "gemm" -> ggml_mul_mat_a8_triton(t, c, l)
    [] k = "moe" -> ggml_moe_a8_triton(t, c, l)
    [] k = "gemm_cpu" -> At(l, _decode_cpu(t, l))
    [] k = "native" -> At(l, ggml_get_to_cuda(t, l))
    [] k = "dequantize" -> At(l, ggml_dequantize_triton(t, l))

BitsOf(seq) == {seq[j] : j \in DOMAIN seq}
BitsRead(w) ==
  BitsOf(w.code) \cup BitsOf(w.sign.bits)
    \cup UNION {BitsOf(factor.bits) : factor \in w.scale \cup w.min}
-----------------------------------------------------------------------------
(* Shapes of the tensor decoders.  A shape is a sequence of sizes.           *)

\* Sizes are aligned at the last axis; an axis of size one is stretched.
Dim(shape, back) == IF back > Len(shape) THEN 1 ELSE shape[Len(shape) + 1 - back]
\* The number of elements; no shape here has more than three axes.
Elements(shape) == Dim(shape, 1) * Dim(shape, 2) * Dim(shape, 3)
\* Mutant of Squeeze1: the axis of size one stays.
SqueezeForgotten(shape) == shape
Squeeze1(shape) == IF Len(shape) >= 2 /\ shape[2] = 1
                   THEN <<shape[1]>> \o SubSeq(shape, 3, Len(shape)) ELSE shape
\* t[:, None]: a new axis of size one after the first.
Unsqueeze1(shape) == <<shape[1], 1>> \o Tail(shape)
Broadcasts(a, b) ==
  \A back \in 1..(Len(a) + Len(b)) :
    Dim(a, back) = Dim(b, back) \/ 1 \in {Dim(a, back), Dim(b, back)}
Broadcast(a, b) ==
  LET rank == IF Len(a) >= Len(b) THEN Len(a) ELSE Len(b)
      larger(j) == LET back == rank + 1 - j IN
                   IF Dim(a, back) = 1 THEN Dim(b, back) ELSE Dim(a, back)
  IN  [j \in 1..rank |-> larger(j)]

\* The shapes of the codes and of the scales a decoder multiplies, for a tensor
\* of m rows of b blocks.
LlamaOperands(t, m, b) ==
  [codes |-> <<m * b, BLOCK_QK_BY_TYPE(t)>>, scales |-> Unsqueeze1(<<m * b, 1>>)]
ROCmFPXOperands(t, m, b) == [codes |-> <<m * b, 32>>, scales |-> <<m * b, 1>>]
\* One scale per block, and one per row: of I2_S, of the others.
BlockScaledOperands(t, m, b) ==
  [codes |-> <<m * b, IF t = "Q6_0" THEN 32 ELSE 16>>,
   scales |-> Unsqueeze1(Squeeze1(<<m * b, 1>>))]
RowScaledOperands(t, m, b) ==
  IF t = "I2_S" THEN [codes |-> <<m, b * 128>>, scales |-> <<m, 1>>]
  ELSE [codes |-> <<m, b, BLOCK_QK_BY_TYPE(t)>>, scales |-> Unsqueeze1(<<m, 1>>)]
\* How many products of that shape make the tensor (two for each group of 32 of
\* the K types of ik_llama).
Products(t) == IF t \in {"IQ2_K", "IQ3_K", "IQ4_K", "IQ5_K", "IQ6_K"} THEN 16 ELSE 1
Operands(t, m, b) ==
  CASE t \in ROCmFPXTypes -> ROCmFPXOperands(t, m, b)
    [] t \in LlamaTypes -> LlamaOperands(t, m, b)
    [] t \in {"Q6_0", "IQ2_K", "IQ3_K", "IQ4_K", "IQ5_K", "IQ6_K"} -> BlockScaledOperands(t, m, b)
    [] t \in DOMAIN ROW_PREFIX_GGUF_TYPES \cup {"I2_S", "IQ1_BN", "IQ2_BN"} ->
         RowScaledOperands(t, m, b)
    \* A Triton kernel writes its weights in place: nothing is broadcast.
    [] OTHER -> [codes |-> <<m, b, BLOCK_QK_BY_TYPE(t)>>, scales |-> <<1>>]
\* The product, and the reshape that raises when the sizes do not match.
Decode(t, m, b) ==
  LET operands == Operands(t, m, b)
      fits == /\ Broadcasts(operands.codes, operands.scales)
              /\ Products(t) * Elements(Broadcast(operands.codes, operands.scales))
                   = m * b * BLOCK_QK_BY_TYPE(t)
  IN  IF fits THEN "decoded" ELSE "raised"
-----------------------------------------------------------------------------
(* A call: launched, stepped through a block, returned.                      *)

Init == /\ kernel = "" /\ type = "" /\ rows = 1 /\ blocks = 1
        /\ step = 0 /\ tile = {} /\ done = {} /\ read = {} /\ used = {}
        /\ result = "none"

Launch(k, t, m, b) ==
  /\ kernel = ""
  /\ <<k, t>> \in Launches
  /\ kernel' = k /\ type' = t /\ rows' = m /\ blocks' = b
  /\ step' = 0 /\ tile' = {} /\ done' = {} /\ read' = {} /\ used' = {}
  /\ result' = "none"

Finished == step * Lanes(kernel, type) >= BLOCK_QK_BY_TYPE(type)

Step ==
  /\ kernel # "" /\ ~Finished
  /\ LET lanes == {Lane(kernel, type, step, l) : l \in 0..(Lanes(kernel, type) - 1)} IN
     /\ tile' = lanes
     /\ done' = done \cup {a.x : a \in lanes}
     /\ read' = read \cup UNION {BitsRead(a.w) : a \in lanes}
     /\ used' = used \cup {<<a.w.code, a.w.lane>> : a \in lanes}
  /\ step' = step + 1
  /\ UNCHANGED <<kernel, type, rows, blocks, result>>

Return ==
  /\ kernel # "" /\ Finished
  /\ result' = IF kernel = "dequantize" THEN Decode(type, rows, blocks) ELSE "decoded"
  /\ kernel' = ""
  /\ UNCHANGED <<type, rows, blocks, step, tile, done, read, used>>

\* Rows and blocks matter to the tensor decoders only.
Sizes(k) == IF k = "dequantize" THEN (1..MaxRows) \X (1..MaxBlocks) ELSE {<<1, 1>>}
Next == \/ \E launch \in Launches : \E size \in Sizes(launch[1]) :
             Launch(launch[1], launch[2], size[1], size[2])
        \/ Step
        \/ Return
Spec == Init /\ [][Next]_vars
-----------------------------------------------------------------------------
(* Properties.                                                               *)

\* The decoder that settles what a weight is: ggml_dequantize_triton, and for
\* the two 4-bit float types it does not serve the decoder of their own kernel.
Authority(t, pos) ==
  IF t \in {"MXFP4", "NVFP4"} THEN _decode_cpu(t, pos) ELSE ggml_dequantize_triton(t, pos)

\* Whatever kernel a layer takes for a tensor, the activation of column x meets
\* the weight the decoder would write at column x: same code, zero point,
\* codebook, grid entry, sign, scales and minimum.  A kernel that pairs halves
\* in another order, reads a scale of the neighbouring group or forgets a
\* minimum breaks it.  The dense, expert and native kernels were written
\* separately from the decoders.
SameWeights == \A a \in tile : a.w = Authority(type, a.x)

\* A step multiplies every lane by a column of its own that no earlier step of
\* the block took: nothing is added twice to the dot product (the chunk loops
\* of the kernels).
EachOnce ==
  [][step' = step + 1 =>
       Cardinality(done') = Cardinality(done) + Lanes(kernel, type)]_vars

\* Bits no kernel needs: the sum of the codes that a Q8_1 block carries.
Unread(t) == IF t = "Q8_1" THEN 16..31 ELSE {}

\* When a kernel is through with a block it has used every column of it and
\* every bit of its storage, prefix included, and none outside it: a wrong
\* offset or a block size that differs from the type table shows up as a bit
\* that is never read or that belongs to the next block.
WholeBlock ==
  kernel # "" /\ Finished =>
    /\ done = 0..(BLOCK_QK_BY_TYPE(type) - 1)
    /\ read = (-8 * Geometry(type)[1]..(8 * Geometry(type)[2] - 1)) \ Unread(type)

\* Two weights of a block never share a code and a place in it: each weight has
\* bits, or a digit or a draw, of its own.
OwnCode == Cardinality(used) = Cardinality(done)

\* A decoder gives back the tensor for every number of rows and blocks: the
\* scales line up with the codes and the product has the tensor's size.
DecodesWellFormed == result # "raised"
=============================================================================
