--------------------------- MODULE QuantOpsProofs ---------------------------
(***************************************************************************)
(* Theorems about QuantOps for every set of layers and every set of        *)
(* requests of two or three dimensions.                                    *)
(***************************************************************************)
EXTENDS QuantOps, SequenceTheorems, TLAPS

Answers == [kernel : Kernels, shape : Seq(Nat), exact : BOOLEAN]

\* The layer is one of those Setups allows.
LEMMA SetupType ==
  ASSUME TypeOK
  PROVE  rows \in Nat /\ hidden \in Nat /\ type \in ReadableTypes
BY SetupsAssumption DEF TypeOK, rows, hidden, type

\* The threshold between the two routes is a number.
LEMMA MmvqSafeType == MmvqSafe \in Nat
BY DEF MmvqSafe

\* A request has one or two dimensions and a number of tokens.
LEMMA TokensType ==
  ASSUME NEW lead \in Leads
  PROVE  /\ lead \in Seq(Nat) /\ Len(lead) \in {1, 2}
         /\ lead[1] \in Nat
         /\ Tokens(lead) \in Nat
<1>1. lead \in Seq(Nat) /\ Len(lead) \in {1, 2}
  BY LeadsAssumption
<1>2. CASE Len(lead) = 1
  BY <1>1, <1>2 DEF Tokens
<1>3. CASE Len(lead) = 2
  <2>1. lead[1] \in Nat /\ lead[2] \in Nat
    <3>1. 1 \in 1 .. Len(lead) /\ 2 \in 1 .. Len(lead)
      BY <1>3
    <3>. QED
      BY <1>1, <3>1, ElementOfSeq
  <2>2. lead[1] * lead[2] \in Nat
    BY <2>1
  <2>3. Tokens(lead) = lead[1] * lead[2]
    BY <1>3 DEF Tokens
  <2>. QED
    BY <1>1, <2>1, <2>2, <2>3
<1>. QED
  BY <1>1, <1>2, <1>3

\* What every kernel returns.
LEMMA ProductType ==
  ASSUME TypeOK, NEW k \in Kernels, NEW l \in Seq(Nat)
  PROVE  Product(k, l) \in Answers /\ Product(k, l).kernel = k
BY SetupType DEF Product, Answers

\* The same for a native kernel, whatever rank it drops.
LEMMA NativeType ==
  ASSUME TypeOK, NEW k \in Kernels, NEW l, l[1] \in Nat
  PROVE  NativeProduct(k, l) \in Answers /\ NativeProduct(k, l).kernel = k
BY SetupType DEF NativeProduct, Answers

\* An answer is put together from its fields.
LEMMA AnAnswer ==
  ASSUME NEW k \in Kernels, NEW l \in Seq(Nat), NEW e \in BOOLEAN
  PROVE  /\ [kernel |-> k, shape |-> l, exact |-> e] \in Answers
         /\ [kernel |-> k, shape |-> l, exact |-> e].kernel = k
BY DEF Answers

\* The answers that are no tensors.
LEMMA ConstantAnswers ==
  /\ Nothing \in Answers /\ Raised \in Answers /\ Invalid \in Answers
  /\ Raised.kernel = "raise" /\ Invalid.kernel = "invalid" /\ Nothing.kernel = "none"
<1>1. /\ <<>> \in Seq(Nat) /\ FALSE \in BOOLEAN
      /\ "none" \in Kernels /\ "raise" \in Kernels /\ "invalid" \in Kernels
  BY DEF Kernels
<1>2. \A k \in Kernels, l \in Seq(Nat), e \in BOOLEAN :
        /\ [kernel |-> k, shape |-> l, exact |-> e] \in Answers
        /\ [kernel |-> k, shape |-> l, exact |-> e].kernel = k
  BY AnAnswer
<1>3. Nothing \in Answers /\ Nothing.kernel = "none"
  BY <1>1, <1>2, Zenon DEF Nothing
<1>4. Raised \in Answers /\ Raised.kernel = "raise"
  BY <1>1, <1>2, Zenon DEF Raised
<1>5. Invalid \in Answers /\ Invalid.kernel = "invalid"
  BY <1>1, <1>2, Zenon DEF Invalid
<1>. QED
  BY <1>3, <1>4, <1>5

\* The dequantize route answers or raises.
LEMMA DequantizedType ==
  ASSUME TypeOK, NEW l \in Seq(Nat)
  PROVE  /\ DequantizedProduct(l) \in Answers
         /\ DequantizedProduct(l).kernel \in {"raise", "dequantize"}
<1> DEFINE n == DequantColumns(type, Qweight.width)
           weight == Dequantize(Qweight, rows, n)
           p == Product("dequantize", l)
<1>1. p \in Answers /\ p.kernel = "dequantize"
  BY ProductType DEF Kernels
<1>2. /\ [p EXCEPT !.exact = weight = "exact"] \in Answers
      /\ [p EXCEPT !.exact = weight = "exact"].kernel = "dequantize"
  <2>1. (weight = "exact") \in BOOLEAN
    OBVIOUS
  <2> HIDE DEF weight, p
  <2>. QED
    BY <1>1, <2>1 DEF Answers
<1>3. DequantizedProduct(l) = Raised
        \/ DequantizedProduct(l) = [p EXCEPT !.exact = weight = "exact"]
  BY DEF DequantizedProduct
<1>. QED
  BY <1>2, <1>3, ConstantAnswers

\* The Triton GEMM answers or raises.
LEMMA TritonType ==
  ASSUME TypeOK, NEW l \in Seq(Nat)
  PROVE  TritonGemm(l) \in Answers
           /\ TritonGemm(l).kernel \in {"raise", "triton gemm"}
BY ProductType, ConstantAnswers DEF TritonGemm, Kernels

\* Both entry points of ops.py answer in form.
LEMMA GemvType ==
  ASSUME TypeOK, NEW l \in Seq(Nat), l[1] \in Nat
  PROVE  MulMatVec(l) \in Answers
BY NativeType, DequantizedType, TritonType, ConstantAnswers DEF MulMatVec, NativeGemv, Kernels

LEMMA GemmType ==
  ASSUME TypeOK, NEW l \in Seq(Nat), l[1] \in Nat
  PROVE  MulMat(l) \in Answers
BY NativeType, DequantizedType, TritonType, ConstantAnswers DEF MulMat, NativeGemm, Kernels

\* Restoring the dimensions of a request leaves the route alone.
LEMMA RestoredType ==
  ASSUME TypeOK, NEW y \in Answers, NEW l \in Seq(Nat)
  PROVE  Restored(y, l) \in Answers /\ Restored(y, l).kernel = y.kernel
<1>1. l \o <<rows>> \in Seq(Nat)
  BY SetupType
<1>. QED
  BY <1>1 DEF Restored, Answers

\* Every branch of _fused_mul_mat_gguf answers in form.
LEMMA FusedType ==
  ASSUME TypeOK, NEW lead \in Leads
  PROVE  FusedMulMat(lead) \in Answers
<1> DEFINE m == Tokens(lead)
<1>1. lead \in Seq(Nat) /\ lead[1] \in Nat /\ <<m>> \in Seq(Nat) /\ <<m>>[1] \in Nat
  BY TokensType
<1>2. Restored(MulMatVec(<<m>>), lead) \in Answers
  BY <1>1, GemvType, RestoredType
<1>3. /\ MulMat(lead) \in Answers /\ DequantizedProduct(lead) \in Answers
      /\ Product("empty", lead) \in Answers /\ Product("dense", lead) \in Answers
  BY <1>1, GemmType, DequantizedType, ProductType DEF Kernels
<1> HIDE DEF m
<1>. QED
  BY <1>2, <1>3, ConstantAnswers DEF FusedMulMat, m

\* An embedding is looked up or raises.
LEMMA LookupType ==
  ASSUME TypeOK, NEW lead \in Leads
  PROVE  /\ EmbeddingLookup(lead) \in Answers
         /\ EmbeddingLookup(lead).kernel \in {"lookup", "raise"}
<1> DEFINE n == Tokens(lead)
           quant == Dequantize(Selected(n), hidden, n)
           v == [kernel |-> "lookup", shape |-> lead \o <<hidden>>, exact |-> TRUE]
<1>1. lead \o <<hidden>> \in Seq(Nat)
  BY TokensType, SetupType
<1>2. v \in Answers /\ v.kernel = "lookup"
  BY <1>1 DEF Answers, Kernels
<1>3. /\ [v EXCEPT !.exact = quant = "exact"] \in Answers
      /\ [v EXCEPT !.exact = quant = "exact"].kernel = "lookup"
  <2>1. (quant = "exact") \in BOOLEAN
    OBVIOUS
  <2> HIDE DEF quant, v
  <2>. QED
    BY <1>2, <2>1 DEF Answers
<1>4. \/ EmbeddingLookup(lead) \in {v, Raised}
      \/ EmbeddingLookup(lead) = [v EXCEPT !.exact = quant = "exact"]
  BY DEF EmbeddingLookup
<1>. QED
  BY <1>2, <1>3, <1>4, ConstantAnswers

-----------------------------------------------------------------------------
\* TypeOK is inductive.
LEMMA NextType == TypeOK /\ [Next]_vars => TypeOK'
<1> SUFFICES ASSUME TypeOK, [Next]_vars PROVE TypeOK'
  OBVIOUS
<1>1. CASE Load
  BY <1>1, ConstantAnswers DEF Load, TypeOK, type
<1>2. CASE Linear
  <2>1. PICK lead \in Leads : request' = lead /\ answer' = FusedMulMat(lead)
    BY <1>2 DEF Linear
  <2>2. request' \in Seq(Nat) /\ answer' \in Answers
    BY <2>1, FusedType, TokensType
  <2>. QED
    BY <1>2, <2>2 DEF Linear, TypeOK, Answers, type
<1>3. CASE Embed
  <2>1. PICK lead \in Leads : request' = lead /\ answer' = EmbeddingLookup(lead)
    BY <1>3 DEF Embed
  <2>2. request' \in Seq(Nat) /\ answer' \in Answers
    BY <2>1, LookupType, TokensType
  <2>. QED
    BY <1>3, <2>2 DEF Embed, TypeOK, Answers, type
<1>4. CASE UNCHANGED vars
  BY <1>4 DEF vars, TypeOK, type
<1>. QED
  BY <1>1, <1>2, <1>3, <1>4 DEF Next

\* TypeOK holds for every set of layers and requests: whatever route an
\* answer came by it has the form the callers rely on, and only a layer
\* that process_weights_after_loading accepted has one.
THEOREM TypeCorrect == Spec => []TypeOK
<1>1. Init => TypeOK
  BY ConstantAnswers DEF Init, TypeOK, Answers
<1>. QED
  BY <1>1, NextType, PTL DEF Spec

-----------------------------------------------------------------------------
(* The gate of the wave32 kernels.                                         *)

\* What the tables say of the ROCmFPX formats: type 101 alone has a GEMV route.
LEMMA RocmfpxTables ==
  /\ ROCMFPX_TYPES \cap MMQ_QUANT_TYPES = {}
  /\ ROCMFPX_TYPES \cap MMVQ_QUANT_TYPES = {"Q4_0_ROCMFP4_FAST"}
  /\ ROCMFPX_TYPES \cap UNQUANTIZED_TYPES = {}
  /\ ROCMFPX_TYPES = ROCMFPX_GEMM_TYPES \cup {"Q4_0_ROCMFP4_FAST"}
BY DEF ROCMFPX_TYPES, ROCMFPX_GEMM_TYPES, MMQ_QUANT_TYPES, MMVQ_QUANT_TYPES,
       STANDARD_QUANT_TYPES, KQUANT_TYPES, IMATRIX_QUANT_TYPES,
       LOWBIT_TRITON_TYPES, FP4_TRITON_TYPES, UNQUANTIZED_TYPES

\* A small batch of type 101 is multiplied natively or dequantized.
LEMMA RocmfpxGemv ==
  ASSUME TypeOK, type \in ROCMFPX_TYPES, type \in MMVQ_QUANT_TYPES,
         NEW l \in Seq(Nat), l[1] \in Nat
  PROVE  MulMatVec(l).kernel \in {"raise", "rocm gemv", "dequantize"}
<1>1. type = "Q4_0_ROCMFP4_FAST"
  BY RocmfpxTables
<1>2. NativeProduct("rocm gemv", l).kernel = "rocm gemv"
  BY DEF NativeProduct
<1>. QED
  BY <1>1, <1>2, DequantizedType DEF MulMatVec

\* A large batch runs the wave32 kernels exactly where they were validated.
LEMMA RocmfpxGemm ==
  ASSUME TypeOK, type \in ROCMFPX_TYPES, NEW l \in Seq(Nat)
  PROVE  /\ MulMat(l).kernel = "triton gemm" => Gfx115x
         /\ MulMat(l).kernel = "dequantize" => ~ Gfx115x
BY DequantizedType, TritonType DEF MulMat

\* Both hold of every branch _fused_mul_mat_gguf can take.
LEMMA RocmfpxRoute ==
  ASSUME TypeOK, type \in ROCMFPX_TYPES, NEW lead \in Leads
  PROVE  /\ FusedMulMat(lead).kernel = "triton gemm" => Gfx115x
         /\ FusedMulMat(lead).kernel = "dequantize" =>
              ~ Gfx115x \/ Tokens(lead) <= MmvqSafe
<1> DEFINE m == Tokens(lead)
<1>1. lead \in Seq(Nat) /\ lead[1] \in Nat /\ <<m>> \in Seq(Nat) /\ <<m>>[1] \in Nat
  BY TokensType
<1>2. CASE m = 0
  BY <1>2, ConstantAnswers DEF FusedMulMat, Product
<1>3. CASE m # 0 /\ m <= MmvqSafe /\ type \in MMVQ_QUANT_TYPES
  <2>1. FusedMulMat(lead) = Restored(MulMatVec(<<m>>), lead)
    BY <1>3, RocmfpxTables DEF FusedMulMat
  <2>2. Restored(MulMatVec(<<m>>), lead).kernel = MulMatVec(<<m>>).kernel
    BY <1>1, GemvType, RestoredType
  <2>3. MulMatVec(<<m>>).kernel # "triton gemm"
    BY <1>1, <1>3, RocmfpxGemv
  <2>. QED
    BY <1>3, <2>1, <2>2, <2>3
<1>4. CASE m # 0 /\ ~ (m <= MmvqSafe /\ type \in MMVQ_QUANT_TYPES)
  <2>1. \/ FusedMulMat(lead) \in {MulMat(lead), Raised}
        \/ FusedMulMat(lead) = DequantizedProduct(lead) /\ ~ Gfx115x
    <3>1. m \in Nat /\ MmvqSafe \in Nat
      BY TokensType, MmvqSafeType
    <3>2. CASE type = "Q4_0_ROCMFP4_FAST"
      <4>1. m > MmvqSafe
        BY <1>4, <3>1, <3>2 DEF MMVQ_QUANT_TYPES
      <4>. QED
        BY <1>4, <3>2, <4>1, RocmfpxTables DEF FusedMulMat
    <3>3. CASE type \in ROCMFPX_GEMM_TYPES
      BY <1>4, <3>3, RocmfpxTables DEF FusedMulMat
    <3>. QED
      BY <3>2, <3>3, RocmfpxTables
  <2>. QED
    BY <1>1, <2>1, RocmfpxGemm, DequantizedType, ConstantAnswers
<1>. QED
  BY <1>2, <1>3, <1>4

\* Gated is inductive under TypeOK.
LEMMA NextGated == TypeOK /\ Gated /\ [Next]_vars => Gated'
<1> SUFFICES ASSUME TypeOK, Gated, [Next]_vars PROVE Gated'
  OBVIOUS
<1> setup' = setup /\ type' = type /\ MmvqSafe' = MmvqSafe
  BY DEF Next, Load, Linear, Embed, vars, type, MmvqSafe, rows
<1>1. CASE Load \/ UNCHANGED vars
  <2>1. answer' = answer /\ Tokens(request)' = Tokens(request)
    BY <1>1 DEF Load, vars, Tokens
  <2>. QED
    BY <2>1 DEF Gated
<1>2. CASE Linear
  <2>1. PICK lead \in Leads : request' = lead /\ answer' = FusedMulMat(lead)
    BY <1>2 DEF Linear
  <2>2. Tokens(request)' = Tokens(lead)
    BY <2>1 DEF Tokens
  <2>. QED
    BY <2>1, <2>2, RocmfpxRoute DEF Gated, Gfx115x
<1>3. CASE Embed
  <2>1. PICK lead \in Leads : request' = lead /\ answer' = EmbeddingLookup(lead)
    BY <1>3 DEF Embed
  <2>2. answer'.kernel \in {"lookup", "raise"}
    BY <2>1, LookupType
  <2>. QED
    BY <2>2 DEF Gated
<1>. QED
  BY <1>1, <1>2, <1>3 DEF Next

\* The wave32 kernels of the ROCmFPX formats run on gfx115x only, for every
\* number of tokens and rows, and there every batch too large for a GEMV
\* reaches them.
THEOREM GatedAlways == Spec => []Gated
<1>1. Init => Gated
  BY ConstantAnswers DEF Init, Gated
<1>2. TypeOK /\ Gated /\ [Next]_vars => Gated'
  BY NextGated
<1>. QED
  BY <1>1, <1>2, TypeCorrect, PTL DEF Spec

-----------------------------------------------------------------------------
(* Formats with a kernel reach it.                                         *)

WithKernel == STANDARD_QUANT_TYPES \cup KQUANT_TYPES \cup LOWBIT_TRITON_TYPES

\* Both routing tables know them and no other branch takes them first.
LEMMA KernelTables ==
  /\ WithKernel \subseteq MMVQ_QUANT_TYPES \cap MMQ_QUANT_TYPES
  /\ WithKernel \cap ROCMFPX_TYPES = {}
BY DEF WithKernel, ROCMFPX_TYPES, MMQ_QUANT_TYPES, MMVQ_QUANT_TYPES,
       STANDARD_QUANT_TYPES, KQUANT_TYPES, LOWBIT_TRITON_TYPES

\* Neither entry point of ops.py, nor the branch order, dequantizes them.
LEMMA KernelRoute ==
  ASSUME TypeOK, type \in WithKernel, NEW lead \in Leads
  PROVE  FusedMulMat(lead).kernel # "dequantize"
<1> DEFINE m == Tokens(lead)
<1>1. lead \in Seq(Nat) /\ lead[1] \in Nat /\ <<m>> \in Seq(Nat) /\ <<m>>[1] \in Nat
  BY TokensType
<1>2. type \notin ROCMFPX_TYPES /\ type \in MMQ_QUANT_TYPES
  BY KernelTables
<1>3. MulMatVec(<<m>>).kernel # "dequantize"
  <2>1. type # "Q4_0_ROCMFP4_FAST"
    BY <1>2 DEF ROCMFPX_TYPES
  <2>2. MulMatVec(<<m>>) \in {NativeGemv(<<m>>), TritonGemm(<<m>>)}
    BY <1>2, <2>1 DEF MulMatVec
  <2>3. NativeGemv(<<m>>).kernel # "dequantize"
    BY ConstantAnswers DEF NativeGemv, NativeProduct
  <2>. QED
    BY <1>1, <2>2, <2>3, TritonType
<1>4. MulMat(lead).kernel # "dequantize"
  <2>1. MulMat(lead) \in {NativeGemm(lead), TritonGemm(lead)}
    BY <1>2 DEF MulMat
  <2>2. NativeGemm(lead).kernel # "dequantize"
    BY ConstantAnswers DEF NativeGemm, NativeProduct
  <2>. QED
    BY <1>1, <2>1, <2>2, TritonType
<1>5. Restored(MulMatVec(<<m>>), lead).kernel # "dequantize"
  BY <1>1, <1>3, GemvType, RestoredType
<1>6. FusedMulMat(lead) \in
        {Invalid, Product("empty", lead), Product("dense", lead),
         Restored(MulMatVec(<<m>>), lead), MulMat(lead)}
  BY <1>2 DEF FusedMulMat
<1>7. Product("empty", lead).kernel = "empty" /\ Product("dense", lead).kernel = "dense"
  BY DEF Product
<1>. QED
  BY <1>4, <1>5, <1>6, <1>7, ConstantAnswers

\* ReachesKernel is inductive under TypeOK.
LEMMA NextReaches == TypeOK /\ ReachesKernel /\ [Next]_vars => ReachesKernel'
<1> SUFFICES ASSUME TypeOK, ReachesKernel, [Next]_vars PROVE ReachesKernel'
  OBVIOUS
<1> type' = type
  BY DEF Next, Load, Linear, Embed, vars, type
<1>1. CASE Load \/ UNCHANGED vars
  BY <1>1 DEF Load, vars, ReachesKernel
<1>2. CASE Linear
  <2>1. PICK lead \in Leads : request' = lead /\ answer' = FusedMulMat(lead)
    BY <1>2 DEF Linear
  <2>. QED
    BY <2>1, KernelRoute DEF ReachesKernel, WithKernel
<1>3. CASE Embed
  <2>1. PICK lead \in Leads : request' = lead /\ answer' = EmbeddingLookup(lead)
    BY <1>3 DEF Embed
  <2>. QED
    BY <2>1, LookupType DEF ReachesKernel
<1>. QED
  BY <1>1, <1>2, <1>3 DEF Next

\* No request of a standard, k-quant or low-bit layer is dequantized, however
\* many tokens and dimensions it has and whatever the extension offers.
THEOREM ReachesKernelAlways == Spec => []ReachesKernel
<1>1. Init => ReachesKernel
  BY ConstantAnswers DEF Init, ReachesKernel
<1>. QED
  BY <1>1, NextReaches, TypeCorrect, PTL DEF Spec

-----------------------------------------------------------------------------
(* The promise.                                                            *)

\* Any number of rows of whole 256-weight blocks is whole blocks of every size.
Whole(b, n, m) == n % b = 0 /\ (m * n) % b = 0 /\ (n * m) % b = 0

LEMMA WholeBlocks ==
  ASSUME NEW b \in {1, 32, 64, 128, 256}, NEW n \in Nat, n % 256 = 0, NEW m \in Nat
  PROVE  Whole(b, n, m)
<1>1. PICK k \in Nat : n = 256 * k
  <2>1. n = 256 * (n \div 256) /\ n \div 256 \in Nat
    OBVIOUS
  <2>. QED
    BY <2>1
<1>2. \A j \in Nat : /\ (32 * j) % 32 = 0 /\ (64 * j) % 64 = 0
                     /\ (128 * j) % 128 = 0 /\ (256 * j) % 256 = 0 /\ j % 1 = 0
  OBVIOUS
<1>3. m * k \in Nat /\ m * n = 256 * (m * k) /\ n * m = 256 * (m * k)
  BY <1>1
<1> DEFINE j == m * k
<1> HIDE DEF j
<1>4. \A c \in {8, 4, 2, 1} : c * k \in Nat /\ c * j \in Nat
  BY <1>3 DEF j
<1>5. n = 256 * k /\ m * n = 256 * j /\ n * m = 256 * j /\ j \in Nat
  BY <1>1, <1>3 DEF j
<1>6. (256 * k) % b = 0 /\ (256 * j) % b = 0
  <2>1. CASE b = 1
    BY <1>5, <2>1
  <2>2. CASE b = 32
    BY <1>5, <2>2
  <2>3. CASE b = 64
    BY <1>5, <2>3
  <2>4. CASE b = 128
    BY <1>5, <2>4
  <2>5. CASE b = 256
    BY <1>5, <2>5
  <2>. QED
    BY <2>1, <2>2, <2>3, <2>4, <2>5
<1>. QED
  BY <1>5, <1>6, Zenon DEF Whole

\* The sizes of blocks.
LEMMA BlockSizes ==
  ASSUME NEW t \in ReadableTypes
  PROVE  /\ BlockSize(t) \in {1, 32, 64, 128, 256}
         /\ t \in RowPrefixTypes => BlockSize(t) = 256
         /\ t = "I2_S" => BlockSize(t) = 128
BY DEF BlockSize, ReadableTypes, RowPrefixTypes, UNQUANTIZED_TYPES, DEQUANT_TYPES,
       FP4_TRITON_TYPES, STANDARD_QUANT_TYPES, KQUANT_TYPES, IMATRIX_QUANT_TYPES,
       ROCMFPX_TYPES, IK_IQK_TYPES, IK_BASIC_TYPES, LLAMA_EXTRA_TYPES

\* Every packed type has a decoder: the extension's if it is built and knows the
\* type, and otherwise one in Python or Triton, which look at the shape in
\* different ways.
LEMMA DecoderTables ==
  /\ RowScaledTypes \subseteq CUDA_DEQUANT_ONLY_TYPES
  /\ CUDA_GEMV_QUANT_TYPES \cup CUDA_DEQUANT_ONLY_TYPES \subseteq DequantizeCases
  /\ DEQUANT_TYPES \subseteq ReferenceDecoders \cup TritonDequantizeTypes
  /\ ReferenceDecoders \cap TritonDequantizeTypes = {}
BY DEF RowScaledTypes, RowPrefixTypes, CUDA_DEQUANT_ONLY_TYPES, CUDA_GEMV_QUANT_TYPES,
       NativeQuants, DequantizeCases, GemvCases, ReferenceDecoders,
       TritonDequantizeTypes, DEQUANT_TYPES, STANDARD_QUANT_TYPES, KQUANT_TYPES,
       IMATRIX_QUANT_TYPES, ROCMFPX_TYPES, IK_IQK_TYPES, IK_BASIC_TYPES,
       LLAMA_EXTRA_TYPES, LOWBIT_TRITON_TYPES

\* gguf_qweight_dequant_shape gives back the length of the rows that were cut, for
\* any length whose scales do not make up a block.
LEMMA RowLength ==
  ASSUME NEW t \in ReadableTypes, NEW n \in Nat \ {0}, n % 256 = 0, RowFits(t, n)
  PROVE  DequantColumns(t, ReadWidth(t, n)) = n
<1>1. PICK k \in Nat : n = 256 * k /\ k > 0
  <2>1. n = 256 * (n \div 256) /\ n \div 256 \in Nat
    OBVIOUS
  <2>. QED
    BY <2>1
<1>2. n \div 256 = k /\ n \div 128 = 2 * k
  BY <1>1
<1>3. CASE t \in RowPrefixTypes
  <2>1. ReadWidth(t, n) = k * Geometry(t).size
    BY <1>2, <1>3, BlockSizes DEF ReadWidth, RowScaledTypes
  <2>2. Geometry(t).scale * (k - 1) < Geometry(t).payload
    BY <1>2, <1>3, BlockSizes DEF RowFits
  <2>3. DequantColumns(t, ReadWidth(t, n))
          = ((ReadWidth(t, n) - Geometry(t).scale) \div Geometry(t).payload) * 256
    BY <1>3, BlockSizes DEF DequantColumns, RowPrefixTypes
  <2>4. (k * Geometry(t).size - Geometry(t).scale) \div Geometry(t).payload = k
    <3>1. CASE t = "IQ4_KS"
      <4>1. Geometry(t) = [size |-> 140, scale |-> 4, payload |-> 136]
        BY <3>1 DEF Geometry
      <4>. QED
        BY <1>1, <2>2, <4>1
    <3>2. CASE t = "IQ2_KS"
      <4>1. Geometry(t) = [size |->  72, scale |-> 2, payload |->  70]
        BY <3>2 DEF Geometry
      <4>. QED
        BY <1>1, <2>2, <4>1
    <3>3. CASE t = "IQ3_KS"
      <4>1. Geometry(t) = [size |-> 104, scale |-> 2, payload |-> 102]
        BY <3>3 DEF Geometry
      <4>. QED
        BY <1>1, <2>2, <4>1
    <3>4. CASE t = "IQ5_KS"
      <4>1. Geometry(t) = [size |-> 172, scale |-> 4, payload |-> 168]
        BY <3>4 DEF Geometry
      <4>. QED
        BY <1>1, <2>2, <4>1
    <3>5. CASE t = "IQ4_KSS"
      <4>1. Geometry(t) = [size |-> 132, scale |-> 4, payload |-> 128]
        BY <3>5 DEF Geometry
      <4>. QED
        BY <1>1, <2>2, <4>1
    <3>6. CASE t = "IQ2_KL"
      <4>1. Geometry(t) = [size |->  88, scale |-> 2, payload |->  86]
        BY <3>6 DEF Geometry
      <4>. QED
        BY <1>1, <2>2, <4>1
    <3>. QED
      BY <1>3, <3>1, <3>2, <3>3, <3>4, <3>5, <3>6 DEF RowPrefixTypes
  <2>. QED
    BY <1>1, <2>1, <2>3, <2>4
<1>4. CASE t = "I2_S"
  <2>1. Geometry(t).size = 36
    BY <1>4 DEF Geometry
  <2>2. ReadWidth(t, n) = (2 * k) * 36
    BY <1>2, <1>4, <2>1, BlockSizes DEF ReadWidth, RowScaledTypes
  <2>3. DequantColumns(t, ReadWidth(t, n)) = (ReadWidth(t, n) \div 36) * 128
    BY <1>4, <2>1, BlockSizes DEF DequantColumns, RowPrefixTypes
  <2>. QED
    BY <1>1, <2>2, <2>3
<1>5. CASE t \notin RowScaledTypes
  BY <1>5 DEF ReadWidth, DequantColumns, RowScaledTypes
<1>. QED
  BY <1>3, <1>4, <1>5 DEF RowScaledTypes

\* What is known of a layer and its weight.
LEMMA LayerNumbers ==
  ASSUME TypeOK
  PROVE  /\ setup \in Setups /\ type = setup.type /\ hidden = setup.hidden
         /\ rows \in Nat \ {0} /\ hidden \in Nat \ {0} /\ hidden % 256 = 0
         /\ type \in ReadableTypes
         /\ setup.use \in {"linear", "embedding"} /\ setup.rank \in {1, 2}
         /\ Qweight.rows = rows /\ Qweight.width = ReadWidth(type, hidden)
         /\ Qweight.intact
BY SetupsAssumption DEF TypeOK, rows, hidden, type, Qweight

\* A linear weight is decoded as it was packed, by whichever decoder, if its type
\* is not one of llama.cpp's, which have kernels of their own.
LEMMA WeightDecodes ==
  ASSUME TypeOK, LinearDelivers(setup), type \in DEQUANT_TYPES, type \notin LOWBIT_TRITON_TYPES
  PROVE  /\ DequantColumns(type, Qweight.width) = hidden
         /\ Dequantize(Qweight, rows, hidden) = "exact"
<1>1. DequantColumns(type, Qweight.width) = hidden
  <2>1. RowFits(type, hidden)
    BY LayerNumbers DEF LinearDelivers, RowFits, RowScaledTypes
  <2>. QED
    BY <2>1, LayerNumbers, RowLength
<1>2. Decoded(Qweight, hidden) = "exact"
  BY LayerNumbers DEF Decoded
<1>3. type \notin RowScaledTypes => Qweight.width = hidden /\ RowWidth(type, hidden) = hidden
  BY LayerNumbers DEF ReadWidth, RowWidth
<1>4. ROCMFPX_TYPES \cap RowScaledTypes = {}
  BY DEF ROCMFPX_TYPES, RowScaledTypes, RowPrefixTypes
<1>5. ~ (/\ type = "Q8_0_ROCMFPX"
         /\ ~ (rows = Qweight.rows /\ rows > 0 /\ hidden > 0 /\ hidden = Qweight.width))
  BY <1>3, <1>4, LayerNumbers DEF ROCMFPX_TYPES
<1> DEFINE size == BlockSize(type)
<1>6. size \in {1, 32, 64, 128, 256} /\ hidden % size = 0 /\ (rows * hidden) % size = 0
      /\ hidden % 32 = 0
  <2>1. size \in {1, 32, 64, 128, 256} /\ 32 \in {1, 32, 64, 128, 256}
    BY LayerNumbers, BlockSizes
  <2> HIDE DEF size
  <2>2. rows \in Nat /\ hidden \in Nat /\ hidden % 256 = 0
    BY LayerNumbers
  <2>3. hidden % size = 0 /\ (rows * hidden) % size = 0
    <3>1. Whole(size, hidden, rows)
      BY <2>1, <2>2, WholeBlocks
    <3>. QED
      BY <3>1, Zenon DEF Whole
  <2>4. hidden % 32 = 0
    BY <2>2
  <2>. QED
    BY <2>1, <2>3, <2>4
<1>7. CASE HasDequantize
  <2>1. type \in DequantizeCases
    BY <1>7, DecoderTables DEF HasDequantize
  <2>2. type \in {"Q4_0_ROCMFP4", "Q4_0_ROCMFP4_FAST"} =>
          /\ rows > 0 /\ hidden > 0 /\ hidden % 32 = 0
          /\ rows * hidden = Qweight.rows * Qweight.width
    <3>1. ASSUME type \in {"Q4_0_ROCMFP4", "Q4_0_ROCMFP4_FAST"} PROVE Qweight.width = hidden
      BY <1>3, <1>4, <3>1 DEF ROCMFPX_TYPES
    <3>2. rows > 0 /\ hidden > 0
      BY LayerNumbers
    <3>. QED
      BY <1>6, <3>1, <3>2, LayerNumbers, Zenon
  <2>3. NativeDequantize(Qweight, rows, hidden) = Decoded(Qweight, hidden)
    BY <2>1, <2>2, Zenon DEF NativeDequantize
  <2>. QED
    BY <1>1, <1>2, <1>5, <1>7, <2>3, Zenon DEF Dequantize
<1>8. CASE ~ HasDequantize
  <2>1. type \notin RowScaledTypes
    BY <1>8, DecoderTables DEF HasDequantize, HasNative, LinearDelivers, type
  <2>2. TritonDequantize(Qweight, rows, hidden) = Decoded(Qweight, hidden)
    <3>1. rows > 0 /\ hidden > 0
      BY LayerNumbers
    <3>2. CASE type \in ReferenceDecoders
      <4>1. Qweight.rows * Qweight.width = rows * RowWidth(type, hidden)
        BY <1>3, <2>1, LayerNumbers, Zenon
      <4>2. type \notin TritonDequantizeTypes
        BY <3>2, DecoderTables
      <4>. QED
        BY <1>6, <3>1, <3>2, <4>1, <4>2, Zenon DEF TritonDequantize
    <3>3. CASE type \in TritonDequantizeTypes
      <4>1. Qweight.rows * Qweight.width = rows * hidden
        BY <1>3, <2>1, LayerNumbers, Zenon
      <4>2. type \notin ReferenceDecoders
        BY <3>3, DecoderTables
      <4>3. rows * hidden \in Nat
        BY LayerNumbers
      <4>4. Qweight.rows * Qweight.width >= rows * hidden
        BY <4>1, <4>3
      <4>. QED
        BY <1>6, <3>3, <4>2, <4>4, Zenon DEF TritonDequantize
    <3>. QED
      BY <3>2, <3>3, DecoderTables
  <2>. QED
    BY <1>1, <1>2, <1>5, <1>8, <2>2, Zenon DEF Dequantize
<1>. QED
  BY <1>1, <1>7, <1>8

\* An answer of the promised shape and numbers.
Right(a, lead, n) ==
  a.shape = lead \o <<n>> /\ a.exact /\ a.kernel \notin {"raise", "invalid"}

LEMMA ProductRight ==
  ASSUME NEW k \in Kernels \ {"raise", "invalid"}, NEW lead
  PROVE  Right(Product(k, lead), lead, rows)
BY DEF Right, Product

LEMMA DequantizedRight ==
  ASSUME TypeOK, LinearDelivers(setup), type \in DEQUANT_TYPES,
         type \notin LOWBIT_TRITON_TYPES, NEW lead
  PROVE  Right(DequantizedProduct(lead), lead, rows)
<1>1. DequantizedProduct(lead) = [Product("dequantize", lead) EXCEPT !.exact = TRUE]
  BY WeightDecodes DEF DequantizedProduct
<1>. QED
  BY <1>1 DEF Right, Product

\* A kernel of the extension reads two dimensions, those of a flattened request.
LEMMA NativeRight ==
  ASSUME TypeOK, NEW k \in Kernels \ {"raise", "invalid"}, NEW lead \in Seq(Nat), Len(lead) = 1
  PROVE  Right(NativeProduct(k, lead), lead, rows)
<1>1. lead = <<lead[1]>>
  BY SMT
<1>2. <<lead[1]>> \o <<rows>> = <<lead[1], rows>>
  <2>1. lead[1] \in Nat /\ rows \in Nat
    <3>1. 1 \in 1 .. Len(lead)
      OBVIOUS
    <3>. QED
      BY <3>1, SetupType, ElementOfSeq
  <2> DEFINE a == lead[1]  b == rows
             s == <<a>> \o <<b>>
  <2>2. <<a>> \in Seq(Nat) /\ <<b>> \in Seq(Nat) /\ <<a, b>> \in Seq(Nat)
        /\ Len(<<a>>) = 1 /\ Len(<<b>>) = 1 /\ Len(<<a, b>>) = 2
        /\ <<a, b>>[1] = a /\ <<a, b>>[2] = b
    BY <2>1
  <2>3. s \in Seq(Nat) /\ Len(s) = 2 /\ s[1] = a /\ s[2] = b
    BY <2>2, ConcatProperties
  <2>4. \A i \in 1 .. Len(s) : s[i] = <<a, b>>[i]
    BY <2>2, <2>3
  <2> HIDE DEF s, a, b
  <2>5. s = <<a, b>>
    BY <2>2, <2>3, <2>4, SeqEqual
  <2>. QED
    BY <2>5 DEF s, a, b
<1>. QED
  BY <1>1, <1>2 DEF Right, NativeProduct

\* What the tables of the routes say of each other: a type with a route has a
\* kernel at the end of it.
LEMMA RouteTables ==
  /\ MMVQ_QUANT_TYPES \cup MMQ_QUANT_TYPES \cup ROCMFPX_TYPES \subseteq TritonGemmTypes
  /\ CUDA_GEMV_QUANT_TYPES \subseteq GemvCases
  /\ CUDA_GEMM_QUANT_TYPES \subseteq GemmCases
  /\ ROCMFPX_TYPES \subseteq DEQUANT_TYPES
  /\ MMQ_QUANT_TYPES \cap ROCMFPX_TYPES = {}
  /\ LOWBIT_TRITON_TYPES \subseteq MMQ_QUANT_TYPES
  /\ ROCMFPX_GEMM_TYPES \subseteq ROCMFPX_TYPES
  /\ "Q4_0_ROCMFP4_FAST" \in ROCMFPX_TYPES
BY DEF MMVQ_QUANT_TYPES, MMQ_QUANT_TYPES, ROCMFPX_TYPES, TritonGemmTypes,
       CUDA_GEMV_QUANT_TYPES, NativeQuants, GemvCases, CUDA_GEMM_QUANT_TYPES, GemmCases,
       STANDARD_QUANT_TYPES, KQUANT_TYPES, IMATRIX_QUANT_TYPES, LOWBIT_TRITON_TYPES,
       FP4_TRITON_TYPES, DEQUANT_TYPES, ROCMFPX_GEMM_TYPES

\* A GEMV of flattened tokens is right, whoever multiplies.
LEMMA GemvRight ==
  ASSUME TypeOK, LinearDelivers(setup), type \in MMVQ_QUANT_TYPES,
         NEW lead \in Seq(Nat), Len(lead) = 1
  PROVE  Right(MulMatVec(lead), lead, rows)
<1>1. /\ Right(NativeProduct("rocm gemv", lead), lead, rows)
      /\ Right(NativeProduct("native gemv", lead), lead, rows)
      /\ Right(Product("triton gemm", lead), lead, rows)
  BY NativeRight, ProductRight DEF Kernels
<1>2. HasGemv => NativeGemv(lead) = NativeProduct("native gemv", lead)
  BY RouteTables DEF HasGemv, NativeGemv
<1>3. TritonGemm(lead) = Product("triton gemm", lead)
  BY RouteTables DEF TritonGemm
<1>4. type = "Q4_0_ROCMFP4_FAST" => Right(DequantizedProduct(lead), lead, rows)
  BY RouteTables, DequantizedRight
<1>. QED
  BY <1>1, <1>2, <1>3, <1>4, Zenon DEF MulMatVec

\* A GEMM is right for any number of dimensions, unless the extension reads two of
\* three.
LEMMA GemmRight ==
  ASSUME TypeOK, LinearDelivers(setup), type \in MMQ_QUANT_TYPES \cup ROCMFPX_TYPES,
         NEW lead \in Seq(Nat), Len(lead) = setup.rank
  PROVE  Right(MulMat(lead), lead, rows)
<1>1. Right(Product("triton gemm", lead), lead, rows)
  BY ProductRight DEF Kernels
<1>2. TritonGemm(lead) = Product("triton gemm", lead)
  BY RouteTables DEF TritonGemm
<1>3. type \in ROCMFPX_TYPES => Right(DequantizedProduct(lead), lead, rows)
  BY RouteTables, DequantizedRight
<1>4. HasGemm => Right(NativeGemm(lead), lead, rows)
  <2>1. SUFFICES ASSUME HasGemm PROVE Right(NativeGemm(lead), lead, rows)
    OBVIOUS
  <2>2. NativeGemm(lead) = NativeProduct("native gemm", lead)
    BY <2>1, RouteTables DEF HasGemm, NativeGemm
  <2>3. Len(lead) = 1
    BY <2>1, LayerNumbers DEF HasGemm, HasNative, LinearDelivers
  <2>. QED
    BY <2>2, <2>3, NativeRight DEF Kernels
<1>. QED
  BY <1>1, <1>2, <1>3, <1>4, Zenon DEF MulMat

\* A request of no tokens has a dimension of size 0.
LEMMA NoTokens ==
  ASSUME NEW lead \in Leads, Tokens(lead) = 0
  PROVE  \E i \in DOMAIN lead : lead[i] = 0
<1>1. lead \in Seq(Nat) /\ Len(lead) \in {1, 2} /\ DOMAIN lead = 1 .. Len(lead)
  BY LeadsAssumption, LenProperties
<1>2. CASE Len(lead) = 1
  BY <1>1, <1>2 DEF Tokens
<1>3. CASE Len(lead) = 2
  <2>1. 1 \in DOMAIN lead /\ 2 \in DOMAIN lead
    BY <1>1, <1>3
  <2>2. lead[1] \in Nat /\ lead[2] \in Nat
    BY <1>1, <2>1, ElementOfSeq
  <2>3. lead[1] * lead[2] = 0
    BY <1>3 DEF Tokens
  <2>. QED
    BY <2>1, <2>2, <2>3
<1>. QED
  BY <1>1, <1>2, <1>3

\* Every request to a layer of an accepted type that Delivers gets its answer.
LEMMA LinearRight ==
  ASSUME TypeOK, status = "ready", setup.use = "linear", LinearDelivers(setup),
         NEW lead \in Leads, Len(lead) = setup.rank
  PROVE  \/ FusedMulMat(lead) = Invalid /\ Tokens(lead) = 0
         \/ Right(FusedMulMat(lead), lead, rows)
<1> DEFINE m == Tokens(lead)
<1>1. lead \in Seq(Nat) /\ <<m>> \in Seq(Nat) /\ Len(<<m>>) = 1
  BY TokensType
<1>2. type \in UNQUANTIZED_TYPES \cup DEQUANT_TYPES
  BY DEF TypeOK
<1>3. Right(Product("empty", lead), lead, rows) /\ Right(Product("dense", lead), lead, rows)
  BY ProductRight DEF Kernels
<1>4. type \in MMVQ_QUANT_TYPES => Right(Restored(MulMatVec(<<m>>), lead), lead, rows)
  <2>1. SUFFICES ASSUME type \in MMVQ_QUANT_TYPES
                 PROVE  Right(Restored(MulMatVec(<<m>>), lead), lead, rows)
    OBVIOUS
  <2> DEFINE y == MulMatVec(<<m>>)
  <2>2. y \in Answers
    BY <1>1, GemvType, TokensType
  <2>3. Right(y, <<m>>, rows)
    BY <1>1, <2>1, GemvRight
  <2> HIDE DEF y
  <2>4. y.kernel # "raise"
    BY <2>2, <2>3 DEF Right
  <2>5. Restored(y, lead) = [y EXCEPT !.shape = lead \o <<rows>>]
    BY <2>4 DEF Restored
  <2>6. Right(Restored(y, lead), lead, rows)
    BY <2>2, <2>3, <2>5 DEF Right, Answers
  <2>. QED
    BY <2>6 DEF y
<1>5. type \in MMQ_QUANT_TYPES \cup ROCMFPX_TYPES => Right(MulMat(lead), lead, rows)
  BY <1>1, GemmRight
<1>6. type \in DEQUANT_TYPES \ LOWBIT_TRITON_TYPES => Right(DequantizedProduct(lead), lead, rows)
  BY DequantizedRight
<1> HIDE DEF m
<1>. QED
  BY <1>2, <1>3, <1>4, <1>5, <1>6, RouteTables DEF FusedMulMat, m

\* An embedding that Delivers is looked up right for any number of tokens: its
\* decoder gets rows and columns the other way round, and sees only their product.
LEMMA EmbeddingRight ==
  ASSUME TypeOK, status = "ready", setup.use = "embedding", EmbeddingDelivers(setup),
         NEW lead \in Leads, Tokens(lead) > 0
  PROVE  Right(EmbeddingLookup(lead), lead, hidden)
<1> DEFINE n == Tokens(lead)
           w == Selected(n)
<1>1. type \in UNQUANTIZED_TYPES \cup DEQUANT_TYPES
  BY DEF TypeOK
<1>2. CASE type \in UNQUANTIZED_TYPES
  BY <1>2 DEF EmbeddingLookup, Right
<1>3. CASE type \notin UNQUANTIZED_TYPES
  <2>1. type \in DEQUANT_TYPES /\ n \in Nat /\ n > 0
    BY <1>1, <1>3, TokensType
  <2>2. type \notin RowScaledTypes
              \cup {"Q4_0_ROCMFP4", "Q4_0_ROCMFP4_FAST", "Q8_0_ROCMFPX"}
    BY <1>3, <2>1, LayerNumbers
       DEF EmbeddingDelivers, RowScaledTypes, RowPrefixTypes, STANDARD_QUANT_TYPES,
           KQUANT_TYPES, IMATRIX_QUANT_TYPES, FP4_TRITON_TYPES, UNQUANTIZED_TYPES
  <2>3. /\ w.rows = n /\ w.width = hidden /\ w.intact
        /\ RowWidth(type, hidden) = hidden /\ Qweight.width = hidden
        /\ DequantColumns(type, Qweight.width) = hidden
    BY <2>2, LayerNumbers DEF Selected, ReadWidth, RowWidth, DequantColumns, RowScaledTypes
  <2> HIDE DEF w, n
  <2>4. Decoded(w, n) = "exact"
    BY <2>2, <2>3 DEF Decoded
  <2>5. Dequantize(w, hidden, n) = "exact"
    <3>1. CASE HasDequantize
      <4>1. type \in DequantizeCases
        BY <3>1, DecoderTables DEF HasDequantize
      <4>2. NativeDequantize(w, hidden, n) = Decoded(w, n)
        BY <2>2, <4>1 DEF NativeDequantize
      <4>. QED
        BY <2>2, <2>4, <3>1, <4>2 DEF Dequantize
    <3>2. CASE ~ HasDequantize
      <4>1. type \in TritonDequantizeTypes /\ type \notin ReferenceDecoders
        <5>1. type \in STANDARD_QUANT_TYPES \cup KQUANT_TYPES \cup IMATRIX_QUANT_TYPES
          <6>1. CASE setup.extension = "none"
            BY <1>3, <2>1, <6>1, LayerNumbers
               DEF EmbeddingDelivers, FP4_TRITON_TYPES, DEQUANT_TYPES, STANDARD_QUANT_TYPES,
                   KQUANT_TYPES, IMATRIX_QUANT_TYPES, ROCMFPX_TYPES, IK_IQK_TYPES,
                   IK_BASIC_TYPES, LLAMA_EXTRA_TYPES
          <6>2. CASE setup.extension # "none"
            BY <2>1, <3>2, <6>2
               DEF HasDequantize, HasNative, CUDA_DEQUANT_ONLY_TYPES, DEQUANT_TYPES
          <6>. QED
            BY <6>1, <6>2
        <5>. QED
          BY <5>1, DecoderTables DEF TritonDequantizeTypes
      <4>2. (hidden * n) % BlockSize(type) = 0
        <5>1. BlockSize(type) \in {1, 32, 64, 128, 256}
              /\ hidden \in Nat /\ hidden % 256 = 0
          BY LayerNumbers, BlockSizes
        <5>2. Whole(BlockSize(type), hidden, n)
          BY <2>1, <5>1, WholeBlocks
        <5>. QED
          BY <5>2, Zenon DEF Whole
      <4>3. w.rows * w.width >= hidden * n
        <5>1. n * hidden = hidden * n /\ hidden * n \in Nat
          BY <2>1, LayerNumbers
        <5>. QED
          BY <2>3, <5>1
      <4>4. TritonDequantize(w, hidden, n) = Decoded(w, n)
        BY <4>1, <4>2, <4>3, Zenon DEF TritonDequantize
      <4>. QED
        BY <2>2, <2>4, <3>2, <4>4 DEF Dequantize
    <3>. QED
      BY <3>1, <3>2
  <2>6. EmbeddingLookup(lead)
          = [ [kernel |-> "lookup", shape |-> lead \o <<hidden>>, exact |-> TRUE]
                EXCEPT !.exact = TRUE ]
    BY <1>3, <2>1, <2>3, <2>5 DEF EmbeddingLookup, n, w
  <2>. QED
    BY <2>6 DEF Right
<1>. QED
  BY <1>2, <1>3

\* An answer the caller can use is one of LayerPromise.
LEMMA StepPromised ==
  ASSUME TypeOK, Delivers(setup), [Next]_vars
  PROVE  [Promise!Ask]_(Promise!vars)
<1> setup' = setup /\ rows' = rows /\ hidden' = hidden
  BY DEF Next, Load, Linear, Embed, vars, rows, hidden
<1> DEFINE width == IF setup.use = "linear" THEN rows ELSE hidden
<1>1. ASSUME NEW lead \in Leads, request' = lead, answer' \in Answers,
             \/ answer' = Invalid /\ Tokens(lead) = 0
             \/ Right(answer', lead, width)
      PROVE  Promise!Ask
  <2>1. lead \in Seq(Nat) /\ width' = width
    BY TokensType
  <2>2. CASE answer' = Invalid /\ Tokens(lead) = 0
    <3>1. answer'.shape = <<>> /\ (answer'.exact \/ answer'.kernel = "invalid") = TRUE
      BY <2>2 DEF Invalid
    <3>2. \E i \in DOMAIN request' : request'[i] = 0
      BY <1>1, <2>2, NoTokens
    <3>. QED
      BY <1>1, <2>1, <3>1, <3>2, Zenon DEF Promise!Ask
  <2>3. CASE Right(answer', lead, width)
    <3>1. answer'.shape = Append(lead, width)
      <4>1. lead \o <<width>> = Append(lead, width)
        BY <2>1, LayerNumbers
      <4>. QED
        BY <2>3, <4>1 DEF Right
    <3>2. (answer'.exact \/ answer'.kernel = "invalid") = TRUE
      BY <2>3 DEF Right
    <3>. QED
      BY <1>1, <2>1, <3>1, <3>2, Zenon DEF Promise!Ask
  <2>. QED
    BY <1>1, <2>2, <2>3
<1>2. CASE Load \/ UNCHANGED vars
  BY <1>2 DEF Load, vars, Promise!vars
<1>3. CASE Linear
  <2>1. PICK lead \in Leads :
          Len(lead) = setup.rank /\ request' = lead /\ answer' = FusedMulMat(lead)
    BY <1>3 DEF Linear
  <2>2. status = "ready" /\ setup.use = "linear" /\ LinearDelivers(setup)
    BY <1>3 DEF Linear, Delivers
  <2>. QED
    BY <1>1, <2>1, <2>2, LinearRight, FusedType
<1>4. CASE Embed
  <2>1. PICK lead \in Leads :
          Tokens(lead) > 0 /\ request' = lead /\ answer' = EmbeddingLookup(lead)
    BY <1>4 DEF Embed
  <2>2. status = "ready" /\ setup.use = "embedding" /\ EmbeddingDelivers(setup)
    BY <1>4 DEF Embed, Delivers
  <2>. QED
    BY <1>1, <2>1, <2>2, EmbeddingRight, LookupType
<1>. QED
  BY <1>2, <1>3, <1>4 DEF Next

\* Every layer that Delivers keeps the promise of the fake implementations, for
\* every number of rows, tokens and dimensions, every hidden size of whole blocks,
\* and every device and build of the extension.
THEOREM PromiseKept == Spec /\ Delivers(setup) => KeepsPromise
<1>1. Init => Promise!Init
  <2>1. ASSUME Init PROVE rows \in Nat /\ hidden \in Nat
    BY <2>1, SetupsAssumption DEF Init, rows, hidden
  <2>2. ASSUME Init PROVE /\ answer.shape = <<>>
                          /\ (answer.exact \/ answer.kernel = "invalid") = FALSE
    BY <2>2 DEF Init, Nothing
  <2>3. ASSUME Init PROVE request = <<>>
    BY <2>3 DEF Init
  <2>. QED
    BY <2>1, <2>2, <2>3, Zenon DEF Promise!Init
<1>2. Delivers(setup) /\ [Next]_vars => Delivers(setup)'
  BY DEF Next, Load, Linear, Embed, vars, Delivers, LinearDelivers, EmbeddingDelivers
<1>3. TypeOK /\ Delivers(setup) /\ [Next]_vars => [Promise!Ask]_(Promise!vars)
  BY StepPromised
<1>. QED
  BY <1>1, <1>2, <1>3, TypeCorrect, PTL DEF Spec, KeepsPromise, Promise!Spec
===============================================================================
