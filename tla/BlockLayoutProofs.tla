------------------------- MODULE BlockLayoutProofs -------------------------
(* Proofs about the kernels and decoders of BlockLayout, for every set of    *)
(* launches and every number of rows and blocks.                             *)
(*                                                                           *)
(* The argument has three layers.  For each type, arithmetic on the offsets  *)
(* shows that lane l of step c of a kernel reads what the decoder reads for  *)
(* the column the lane multiplies (EveryLane).  The lanes of a step are then *)
(* shown to be the columns after those done (EveryColumn), whatever order    *)
(* the kernel takes them in.  BlockInv carries both over the steps of a call *)
(* and the properties follow.  CallInv carries the shapes of the tensor      *)
(* decoders in the same way.                                                 *)
EXTENDS BlockLayout, FiniteSetTheorems, SequenceTheorems, TLAPS

-----------------------------------------------------------------------------
(* Shapes: how the scales of the tensor decoders are stretched over the      *)
(* codes, and whether the product has the size of the tensor.                *)

\* A column of factors is stretched over the rows of the codes.
LEMMA BroadcastColumn ==
  ASSUME NEW n \in Nat \ {0}, NEW q \in Nat \ {0}
  PROVE  /\ Broadcasts(<<n, q>>, <<n, 1>>)
         /\ Elements(Broadcast(<<n, q>>, <<n, 1>>)) = n * q
<1> DEFINE a == <<n, q>>  b == <<n, 1>>  c == Broadcast(a, b)
<1>1. \A back \in 1 .. 4 : /\ Dim(a, back) = (IF back = 1 THEN q ELSE IF back = 2 THEN n ELSE 1)
                           /\ Dim(b, back) = (IF back = 2 THEN n ELSE 1)
  BY DEF Dim
<1>2. Broadcasts(a, b)
  BY <1>1 DEF Broadcasts
<1>3. c = <<n, q>>
  <2>1. c = [j \in 1 .. 2 |-> IF Dim(a, 3 - j) = 1 THEN Dim(b, 3 - j) ELSE Dim(a, 3 - j)]
    BY DEF Broadcast
  <2>2. \A j \in 1 .. 2 : 3 - j \in 1 .. 4 /\ (3 - j = 1 <=> j = 2) /\ (3 - j = 2 <=> j = 1)
    OBVIOUS
  <2>. QED
    BY <2>1, <2>2, <1>1
<1>4. Elements(c) = q * n * 1
  BY <1>3 DEF Elements, Dim
<1>. QED
  BY <1>2, <1>4

\* So is one factor per row over the blocks of the row.
LEMMA BroadcastRow ==
  ASSUME NEW m \in Nat \ {0}, NEW b \in Nat \ {0}, NEW q \in Nat \ {0}
  PROVE  /\ Broadcasts(<<m, b, q>>, <<m, 1, 1>>)
         /\ Elements(Broadcast(<<m, b, q>>, <<m, 1, 1>>)) = q * b * m
<1> DEFINE x == <<m, b, q>>  y == <<m, 1, 1>>  c == Broadcast(x, y)
<1>1. \A back \in 1 .. 6 :
        /\ Dim(x, back) = (IF back = 1 THEN q ELSE IF back = 2 THEN b
                           ELSE IF back = 3 THEN m ELSE 1)
        /\ Dim(y, back) = (IF back = 3 THEN m ELSE 1)
  BY DEF Dim
<1>2. Broadcasts(x, y)
  BY <1>1 DEF Broadcasts
<1>3. c = <<m, b, q>>
  <2>1. c = [j \in 1 .. 3 |-> IF Dim(x, 4 - j) = 1 THEN Dim(y, 4 - j) ELSE Dim(x, 4 - j)]
    BY DEF Broadcast
  <2>2. \A j \in 1 .. 3 : 4 - j \in 1 .. 6 /\ (4 - j = 1 <=> j = 3) /\ (4 - j = 2 <=> j = 2)
                            /\ (4 - j = 3 <=> j = 1)
    OBVIOUS
  <2>. QED
    BY <2>1, <2>2, <1>1
<1>4. Dim(<<m, b, q>>, 1) = q /\ Dim(<<m, b, q>>, 2) = b /\ Dim(<<m, b, q>>, 3) = m
  BY DEF Dim
<1>5. Elements(c) = q * b * m
  BY <1>3, <1>4, Zenon DEF Elements
<1>. QED
  BY <1>2, <1>5

\* One number is stretched over everything.
LEMMA BroadcastNumber ==
  ASSUME NEW m \in Nat \ {0}, NEW b \in Nat \ {0}, NEW q \in Nat \ {0}
  PROVE  /\ Broadcasts(<<m, b, q>>, <<1>>)
         /\ Elements(Broadcast(<<m, b, q>>, <<1>>)) = q * b * m
<1> DEFINE x == <<m, b, q>>  y == <<1>>  c == Broadcast(x, y)
<1>1. \A back \in 1 .. 4 :
        /\ Dim(x, back) = (IF back = 1 THEN q ELSE IF back = 2 THEN b
                           ELSE IF back = 3 THEN m ELSE 1)
        /\ Dim(y, back) = 1
  BY DEF Dim
<1>2. Broadcasts(x, y)
  BY <1>1 DEF Broadcasts
<1>3. c = <<m, b, q>>
  <2>1. c = [j \in 1 .. 3 |-> IF Dim(x, 4 - j) = 1 THEN Dim(y, 4 - j) ELSE Dim(x, 4 - j)]
    BY DEF Broadcast
  <2>2. \A j \in 1 .. 3 : 4 - j \in 1 .. 4 /\ (4 - j = 1 <=> j = 3) /\ (4 - j = 2 <=> j = 2)
                            /\ (4 - j = 3 <=> j = 1)
    OBVIOUS
  <2>. QED
    BY <2>1, <2>2, <1>1
<1>4. Dim(<<m, b, q>>, 1) = q /\ Dim(<<m, b, q>>, 2) = b /\ Dim(<<m, b, q>>, 3) = m
  BY DEF Dim
<1>5. Elements(c) = q * b * m
  BY <1>3, <1>4, Zenon DEF Elements
<1>. QED
  BY <1>2, <1>5

\* The scales of the llama.cpp types have an axis too many: every scale meets
\* the codes of every block.
LEMMA BroadcastSquare ==
  ASSUME NEW n \in Nat \ {0}, NEW q \in Nat \ {0}
  PROVE  /\ Broadcasts(<<n, q>>, <<n, 1, 1>>)
         /\ Elements(Broadcast(<<n, q>>, <<n, 1, 1>>)) = q * n * n
<1> DEFINE x == <<n, q>>  y == <<n, 1, 1>>  c == Broadcast(x, y)
<1>1. \A back \in 1 .. 5 :
        /\ Dim(x, back) = (IF back = 1 THEN q ELSE IF back = 2 THEN n ELSE 1)
        /\ Dim(y, back) = (IF back = 3 THEN n ELSE 1)
  BY DEF Dim
<1>2. Broadcasts(x, y)
  BY <1>1 DEF Broadcasts
<1>3. c = <<n, n, q>>
  <2>1. c = [j \in 1 .. 3 |-> IF Dim(x, 4 - j) = 1 THEN Dim(y, 4 - j) ELSE Dim(x, 4 - j)]
    BY DEF Broadcast
  <2>2. \A j \in 1 .. 3 : 4 - j \in 1 .. 5 /\ (4 - j = 1 <=> j = 3) /\ (4 - j = 2 <=> j = 2)
                            /\ (4 - j = 3 <=> j = 1)
    OBVIOUS
  <2>. QED
    BY <2>1, <2>2, <1>1
<1>4. Dim(<<n, n, q>>, 1) = q /\ Dim(<<n, n, q>>, 2) = n /\ Dim(<<n, n, q>>, 3) = n
  BY DEF Dim
<1>5. Elements(c) = q * n * n
  BY <1>3, <1>4, Zenon DEF Elements
<1>. QED
  BY <1>2, <1>5

\* The axes the decoders add and drop.
LEMMA Unsqueezed ==
  ASSUME NEW n \in Nat
  PROVE  /\ Unsqueeze1(<<n, 1>>) = <<n, 1, 1>>
         /\ Unsqueeze1(Squeeze1(<<n, 1>>)) = <<n, 1>>
<1>1. Unsqueeze1(<<n, 1>>) = <<n, 1, 1>>
  <2>1. Tail(<<n, 1>>) = <<1>>
    OBVIOUS
  <2>2. <<n, 1>> \o <<1>> = [i \in 1 .. 3 |-> IF i = 1 THEN n ELSE 1]
    OBVIOUS
  <2>3. <<n, 1, 1>> = [i \in 1 .. 3 |-> IF i = 1 THEN n ELSE 1]
    OBVIOUS
  <2>. QED
    BY <2>1, <2>2, <2>3 DEF Unsqueeze1
<1>2. Squeeze1(<<n, 1>>) = <<n>>
  <2> DEFINE s == <<n, 1>>
  <2>1. SubSeq(s, 3, 2) = << >> /\ Len(s) = 2 /\ s[2] = 1 /\ s[1] = n
    OBVIOUS
  <2>2. <<n>> \o << >> = <<n>>
    OBVIOUS
  <2> HIDE DEF s
  <2>3. Squeeze1(s) = <<n>>
    <3>1. Len(s) >= 2 /\ s[2] = 1
      BY <2>1
    <3>2. Squeeze1(s) = <<s[1]>> \o SubSeq(s, 3, Len(s))
      BY <3>1, Zenon DEF Squeeze1
    <3>. QED
      BY <3>2, <2>1, <2>2, Zenon
  <2>. QED
    BY <2>3 DEF s
<1>3. Unsqueeze1(<<n>>) = <<n, 1>>
  <2>1. Tail(<<n>>) = << >>
    OBVIOUS
  <2>2. <<n, 1>> \o << >> = <<n, 1>>
    OBVIOUS
  <2>. QED
    BY <2>1, <2>2 DEF Unsqueeze1
<1>. QED
  BY <1>1, <1>2, <1>3

\* The widths of blocks.
LEMMA BlockSizes == \A t : BLOCK_QK_BY_TYPE(t) \in {32, 64, 128, 256}
BY DEF BLOCK_QK_BY_TYPE

\* The size of a tensor, in the orders the shapes give it.
LEMMA Reordered ==
  ASSUME NEW m \in Nat \ {0}, NEW b \in Nat \ {0}, NEW q \in Nat \ {0}
  PROVE  /\ m * b \in Nat \ {0}
         /\ q * b * m = m * b * q
         /\ m * (b * q) = m * b * q
         /\ b * q \in Nat \ {0}
OBVIOUS

\* n rows squared are n rows for one row only.
LEMMA SquareOnly ==
  ASSUME NEW n \in Nat \ {0}, NEW q \in Nat \ {0}
  PROVE  (q * n * n = n * q) <=> (n = 1)
<1>1. ASSUME n # 1 PROVE q * n * n # n * q
  <2> DEFINE p == n * q
  <2>1. p \in Nat /\ p > 0 /\ q * n * n = p * n
    OBVIOUS
  <2> HIDE DEF p
  <2>2. n >= 2
    BY <1>1
  <2>3. p * n >= p * 2
    BY <2>1, <2>2
  <2>. QED
    BY <2>1, <2>3 DEF p
<1>2. n = 1 => q * n * n = n * q
  OBVIOUS
<1>. QED
  BY <1>1, <1>2

\* The types of which ggml_dequantize_triton knows a decoder.
KTypes == {"IQ2_K", "IQ3_K", "IQ4_K", "IQ5_K", "IQ6_K"}
KernelTypes ==
  GridTypes \cup {"IQ4_NL", "IQ4_XS", "Q2_K", "Q3_K", "Q4_0", "Q4_1", "Q4_K", "Q5_0", "Q5_1",
                  "Q5_K", "Q6_K", "Q8_0", "Q8_1"}
DecoderTypes == ROCmFPXTypes \cup LlamaTypes \cup IKTypes \cup KernelTypes

\* One scale per block: ROCmFPX and Q6_0.
LEMMA DecodeBlocks ==
  ASSUME NEW t \in ROCmFPXTypes \cup {"Q6_0"}, NEW m \in Nat \ {0}, NEW b \in Nat \ {0}
  PROVE  Decode(t, m, b) = "decoded"
<1> DEFINE n == m * b
<1>1. n \in Nat \ {0}
  BY Reordered
<1>2. Operands(t, m, b).codes = <<n, 32>> /\ Operands(t, m, b).scales = <<n, 1>>
  <2>1. CASE t \in ROCmFPXTypes
    BY <2>1 DEF Operands, ROCmFPXOperands, ROCmFPXTypes, LlamaTypes, ROW_PREFIX_GGUF_TYPES
  <2>2. CASE t = "Q6_0"
    <3>1. Unsqueeze1(Squeeze1(<<n, 1>>)) = <<n, 1>>
      BY <1>1, Unsqueezed
    <3>2. Operands(t, m, b) = BlockScaledOperands(t, m, b)
      BY <2>2 DEF Operands, ROCmFPXTypes, LlamaTypes, ROW_PREFIX_GGUF_TYPES
    <3>. QED
      BY <2>2, <3>1, <3>2 DEF BlockScaledOperands
  <2>. QED
    BY <2>1, <2>2
<1>3. BLOCK_QK_BY_TYPE(t) = 32 /\ Products(t) = 1
  BY DEF BLOCK_QK_BY_TYPE, Products, ROCmFPXTypes, Tiled32
<1> HIDE DEF n
<1>4. /\ Broadcasts(<<n, 32>>, <<n, 1>>)
      /\ Elements(Broadcast(<<n, 32>>, <<n, 1>>)) = n * 32
  BY <1>1, BroadcastColumn
<1>5. 1 * (n * 32) = n * 32
  BY <1>1
<1>. QED
  BY <1>2, <1>3, <1>4, <1>5, Zenon DEF Decode, n

\* One scale per half of each group of 32: the K types of ik_llama.
LEMMA DecodeGroups ==
  ASSUME NEW t \in KTypes, NEW m \in Nat \ {0}, NEW b \in Nat \ {0}
  PROVE  Decode(t, m, b) = "decoded"
<1> DEFINE n == m * b
<1>1. n \in Nat \ {0}
  BY Reordered
<1>2. Operands(t, m, b).codes = <<n, 16>> /\ Operands(t, m, b).scales = <<n, 1>>
  <2>1. Unsqueeze1(Squeeze1(<<n, 1>>)) = <<n, 1>>
    BY <1>1, Unsqueezed
  <2>2. Operands(t, m, b) = BlockScaledOperands(t, m, b)
    BY DEF Operands, ROCmFPXTypes, LlamaTypes, ROW_PREFIX_GGUF_TYPES, KTypes
  <2>. QED
    BY <2>1, <2>2 DEF BlockScaledOperands, KTypes
<1>3. BLOCK_QK_BY_TYPE(t) = 256 /\ Products(t) = 16
  BY DEF BLOCK_QK_BY_TYPE, Products, KTypes, Tiled32
<1> HIDE DEF n
<1>4. /\ Broadcasts(<<n, 16>>, <<n, 1>>)
      /\ Elements(Broadcast(<<n, 16>>, <<n, 1>>)) = n * 16
  BY <1>1, BroadcastColumn
<1>5. 16 * (n * 16) = n * 256
  BY <1>1
<1>. QED
  BY <1>2, <1>3, <1>4, <1>5, Zenon DEF Decode, n

\* One scale per row: the row-prefixed types.
LEMMA DecodeRows ==
  ASSUME NEW t \in DOMAIN ROW_PREFIX_GGUF_TYPES \cup {"I2_S", "IQ1_BN", "IQ2_BN"},
         NEW m \in Nat \ {0}, NEW b \in Nat \ {0}
  PROVE  Decode(t, m, b) = "decoded"
<1> DEFINE q == BLOCK_QK_BY_TYPE(t)
<1>1. q \in Nat \ {0}
  BY BlockSizes
<1>2. Operands(t, m, b) = RowScaledOperands(t, m, b) /\ Products(t) = 1
  BY DEF Operands, Products, ROCmFPXTypes, LlamaTypes, ROW_PREFIX_GGUF_TYPES
<1>3. Unsqueeze1(<<m, 1>>) = <<m, 1, 1>>
  BY Unsqueezed
<1>4. CASE t = "I2_S"
  <2>1. Operands(t, m, b).codes = <<m, b * 128>> /\ Operands(t, m, b).scales = <<m, 1>> /\ q = 128
    BY <1>2, <1>4 DEF RowScaledOperands, BLOCK_QK_BY_TYPE, Tiled32
  <2>2. b * 128 \in Nat \ {0} /\ 1 * (m * (b * 128)) = m * b * 128
    BY Reordered
  <2>3. /\ Broadcasts(<<m, b * 128>>, <<m, 1>>)
        /\ Elements(Broadcast(<<m, b * 128>>, <<m, 1>>)) = m * (b * 128)
    BY <2>2, BroadcastColumn
  <2>. QED
    BY <1>2, <2>1, <2>2, <2>3, Zenon DEF Decode
<1>5. CASE t # "I2_S"
  <2>1. Operands(t, m, b).codes = <<m, b, q>> /\ Operands(t, m, b).scales = <<m, 1, 1>>
    BY <1>2, <1>3, <1>5 DEF RowScaledOperands
  <2> HIDE DEF q
  <2>2. /\ Broadcasts(<<m, b, q>>, <<m, 1, 1>>)
        /\ Elements(Broadcast(<<m, b, q>>, <<m, 1, 1>>)) = q * b * m
    BY <1>1, BroadcastRow
  <2>3. 1 * (q * b * m) = m * b * q
    BY <1>1
  <2>. QED
    BY <1>2, <2>1, <2>2, <2>3, Zenon DEF Decode, q
<1>. QED
  BY <1>4, <1>5

\* The Triton kernels write in place.
LEMMA DecodeInPlace ==
  ASSUME NEW t \in KernelTypes, NEW m \in Nat \ {0}, NEW b \in Nat \ {0}
  PROVE  Decode(t, m, b) = "decoded"
<1> DEFINE q == BLOCK_QK_BY_TYPE(t)
<1>1. q \in Nat \ {0}
  BY BlockSizes
<1>2. /\ Operands(t, m, b).codes = <<m, b, q>>
      /\ Operands(t, m, b).scales = <<1>>
      /\ Products(t) = 1
  BY DEF Operands, Products, ROCmFPXTypes, LlamaTypes, ROW_PREFIX_GGUF_TYPES, KernelTypes, GridTypes
<1> HIDE DEF q
<1>3. /\ Broadcasts(<<m, b, q>>, <<1>>)
      /\ Elements(Broadcast(<<m, b, q>>, <<1>>)) = q * b * m
  BY <1>1, BroadcastNumber
<1>4. 1 * (q * b * m) = m * b * q
  BY <1>1
<1>. QED
  BY <1>2, <1>3, <1>4, Zenon DEF Decode, q

\* A llama.cpp decoder survives its reshape for a tensor of one block only.
LEMMA DecodeLlama ==
  ASSUME NEW t \in LlamaTypes, NEW m \in Nat \ {0}, NEW b \in Nat \ {0}
  PROVE  Decode(t, m, b) = IF m * b = 1 THEN "decoded" ELSE "raised"
<1> DEFINE n == m * b  q == BLOCK_QK_BY_TYPE(t)
<1>1. n \in Nat \ {0} /\ q \in Nat \ {0}
  BY Reordered, BlockSizes
<1>2. Unsqueeze1(<<n, 1>>) = <<n, 1, 1>>
  BY <1>1, Unsqueezed
<1>3. /\ Operands(t, m, b).codes = <<n, q>>
      /\ Operands(t, m, b).scales = <<n, 1, 1>>
      /\ Products(t) = 1
  BY <1>2 DEF Operands, Products, ROCmFPXTypes, LlamaTypes, ROW_PREFIX_GGUF_TYPES, LlamaOperands
<1> HIDE DEF n, q
<1>4. /\ Broadcasts(<<n, q>>, <<n, 1, 1>>)
      /\ Elements(Broadcast(<<n, q>>, <<n, 1, 1>>)) = q * n * n
  BY <1>1, BroadcastSquare
<1>5. 1 * (q * n * n) = n * q <=> n = 1
  <2>1. 1 * (q * n * n) = q * n * n
    BY <1>1
  <2>2. q * n * n = n * q <=> n = 1
    BY <1>1, SquareOnly
  <2>. QED
    BY <2>1, <2>2, Zenon
<1>6. Decode(t, m, b) = IF n = 1 THEN "decoded" ELSE "raised"
  BY <1>3, <1>4, <1>5, Zenon DEF Decode, n, q
<1>. QED
  BY <1>6 DEF n

-----------------------------------------------------------------------------
(* Bits.                                                                     *)

\* A part of a run of bits is a run of bits.
LEMMA NibbleParts ==
  ASSUME NEW b \in Int, NEW h \in Int
  PROVE  /\ SubSeq(Nibble(b, h), 1, 3) = Bits(b, 4 * h, 3)
         /\ <<Nibble(b, h)[4]>> = Bits(b, 4 * h + 3, 1)
<1>1. SubSeq(Nibble(b, h), 1, 3) = Bits(b, 4 * h, 3)
  BY DEF Nibble, Bits
<1>2. <<Nibble(b, h)[4]>> = Bits(b, 4 * h + 3, 1)
  BY DEF Nibble, Bits
<1>. QED
  BY <1>1, <1>2

\* Half bytes and pairs are runs of bits.
LEMMA NibbleBits ==
  /\ \A b : Nibble(b, 0) = Bits(b, 0, 4) /\ Nibble(b, 1) = Bits(b, 4, 4)
  /\ \A b, j : Pair(b, j) = Bits(b, 2 * j, 2)
  /\ \A b, j : Nibble(b, j) = Bits(b, 4 * j, 4)
BY DEF Nibble, Pair

\* Codes packed back to back are the runs of bits of a triple of bytes.
LEMMA PackedBits ==
  ASSUME NEW k \in 0 .. 31
  PROVE  Packed(k, 6, 24) = Bits(0, 6 * k, 6) /\ Packed(k, 3, 12) = Bits(0, 3 * k, 3)
BY DEF Packed, Bits

\* The codes of three bytes, taken four or eight at a time.
LEMMA TripleBits ==
  ASSUME NEW p \in 0 .. 31
  PROVE  /\ SubSeq(Triple(p \div 4), 6 * (p % 4) + 1, 6 * (p % 4) + 6) = Bits(0, 6 * p, 6)
         /\ SubSeq(Triple(p \div 8), 3 * (p % 8) + 1, 3 * (p % 8) + 3) = Bits(0, 3 * p, 3)
BY DEF Triple, Bits

-----------------------------------------------------------------------------
(* Scales that were unpacked separately.                                     *)

\* The six-bit scale and minimum of Q4_K and Q5_K: one at a time, and all eight at once.
LEMMA ScaleMinVector ==
  ASSUME NEW s \in Int, NEW j \in 0 .. 7
  PROVE  /\ load_scale_min_k4(s, j).d = load_scale_min_k4_vector(s, j).d
         /\ load_scale_min_k4(s, j).m = load_scale_min_k4_vector(s, j).m
BY DEF load_scale_min_k4, load_scale_min_k4_vector, Nibble, Pair

\* The same in the expert kernels.
LEMMA ScaleMinMoe ==
  ASSUME NEW j \in 0 .. 7
  PROVE  /\ moe_k4_scale(j) = load_scale_min_k4_vector(4, j).d
         /\ moe_k4_min(j) = load_scale_min_k4_vector(4, j).m
BY DEF moe_k4_scale, moe_k4_min, load_scale_min_k4_vector

\* The six-bit scale of Q3_K: one at a time, and all sixteen at once.
LEMMA Q3Vector ==
  ASSUME NEW s \in Int, NEW i \in 0 .. 15
  PROVE  load_q3_k_scale(s, i) = load_q3_k_scale_vector(s, i)
<1>1. CASE i \in 0 .. 3
  <2>1. i % 4 = i /\ i \div 4 = 0 /\ s + i + 8 = s + 8 + (i % 4)
    BY <1>1
  <2>2. i < 4 /\ i < 8 /\ i \notin 4 .. 7 /\ i \notin 8 .. 11 /\ ~(i >= 12)
    BY <1>1
  <2>3. load_q3_k_scale(s, i) = Nibble(s + i, 0) \o Pair(s + i + 8, 0)
    BY <2>2, Zenon DEF load_q3_k_scale
  <2>4. load_q3_k_scale_vector(s, i) = Nibble(s + i, 0) \o Pair(s + 8 + (i % 4), 0)
    BY <2>1, <2>2, Zenon DEF load_q3_k_scale_vector
  <2>. QED
    BY <2>1, <2>3, <2>4, Zenon
<1>2. CASE i \in 4 .. 7
  <2>1. i % 4 = i - 4 /\ i \div 4 = 1 /\ s + i + 4 = s + 8 + (i % 4)
    BY <1>2
  <2>2. ~(i < 4) /\ i < 8 /\ i \in 4 .. 7 /\ i \notin 8 .. 11 /\ ~(i >= 12)
    BY <1>2
  <2>3. load_q3_k_scale(s, i) = Nibble(s + i, 0) \o Pair(s + i + 4, 1)
    BY <2>2, Zenon DEF load_q3_k_scale
  <2>4. load_q3_k_scale_vector(s, i) = Nibble(s + i, 0) \o Pair(s + 8 + (i % 4), 1)
    BY <2>1, <2>2, Zenon DEF load_q3_k_scale_vector
  <2>. QED
    BY <2>1, <2>3, <2>4, Zenon
<1>3. CASE i \in 8 .. 11
  <2>1. i % 4 = i - 8 /\ i \div 4 = 2 /\ s + i = s + 8 + (i % 4)
    BY <1>3
  <2>2. ~(i < 4) /\ ~(i < 8) /\ i \notin 4 .. 7 /\ i \in 8 .. 11 /\ ~(i >= 12)
    BY <1>3
  <2>3. load_q3_k_scale(s, i) = Nibble(s + i - 8, 1) \o Pair(s + i, 2)
    BY <2>2, Zenon DEF load_q3_k_scale
  <2>4. load_q3_k_scale_vector(s, i) = Nibble(s + i - 8, 1) \o Pair(s + 8 + (i % 4), 2)
    BY <2>1, <2>2, Zenon DEF load_q3_k_scale_vector
  <2>. QED
    BY <2>1, <2>3, <2>4, Zenon
<1>4. CASE i \in 12 .. 15
  <2>1. i % 4 = i - 12 /\ i \div 4 = 3 /\ s + i - 4 = s + 8 + (i % 4)
    BY <1>4
  <2>2. ~(i < 4) /\ ~(i < 8) /\ i \notin 4 .. 7 /\ i \notin 8 .. 11 /\ i >= 12
    BY <1>4
  <2>3. load_q3_k_scale(s, i) = Nibble(s + i - 8, 1) \o Pair(s + i - 4, 3)
    BY <2>2, Zenon DEF load_q3_k_scale
  <2>4. load_q3_k_scale_vector(s, i) = Nibble(s + i - 8, 1) \o Pair(s + 8 + (i % 4), 3)
    BY <2>1, <2>2, Zenon DEF load_q3_k_scale_vector
  <2>. QED
    BY <2>1, <2>3, <2>4, Zenon
<1>5. i \in 0 .. 3 \/ i \in 4 .. 7 \/ i \in 8 .. 11 \/ i \in 12 .. 15
  OBVIOUS
<1>. QED
  BY <1>1, <1>2, <1>3, <1>4, <1>5, Zenon

\* The Q3_K scale as the expert kernel unpacks it in place.
LEMMA Moe_Q3_K_Scale ==
  ASSUME NEW i \in 0 .. 15
  PROVE  LET lo == IF i < 8 THEN Bits(96 + i, 0, 4) ELSE Bits(96 + i - 8, 4, 4)
             hi == CASE i < 4       -> Bits(96 + i + 8, 0, 2)
              [] i \in 4..7  -> Bits(96 + i + 4, 2, 2)
              [] i \in 8..11 -> Bits(96 + i, 4, 2)
              [] i >= 12     -> Bits(96 + i - 4, 6, 2)
         IN  lo \o hi = load_q3_k_scale(96, i)
<1>1. \A b : /\ Nibble(b, 0) = Bits(b, 0, 4) /\ Nibble(b, 1) = Bits(b, 4, 4)
             /\ Pair(b, 0) = Bits(b, 0, 2) /\ Pair(b, 1) = Bits(b, 2, 2)
             /\ Pair(b, 2) = Bits(b, 4, 2) /\ Pair(b, 3) = Bits(b, 6, 2)
  BY DEF Nibble, Pair
<1>2. CASE i \in 0 .. 3
  <2>1. i < 4 /\ i < 8 /\ i \notin 4 .. 7 /\ i \notin 8 .. 11 /\ ~(i >= 12)
    BY <1>2
  <2>. QED
    BY <2>1, <1>1, Zenon DEF load_q3_k_scale
<1>3. CASE i \in 4 .. 7
  <2>1. ~(i < 4) /\ i < 8 /\ i \in 4 .. 7 /\ i \notin 8 .. 11 /\ ~(i >= 12)
    BY <1>3
  <2>. QED
    BY <2>1, <1>1, Zenon DEF load_q3_k_scale
<1>4. CASE i \in 8 .. 11
  <2>1. ~(i < 4) /\ ~(i < 8) /\ i \notin 4 .. 7 /\ i \in 8 .. 11 /\ ~(i >= 12)
    BY <1>4
  <2>. QED
    BY <2>1, <1>1, Zenon DEF load_q3_k_scale
<1>5. CASE i \in 12 .. 15
  <2>1. ~(i < 4) /\ ~(i < 8) /\ i \notin 4 .. 7 /\ i \notin 8 .. 11 /\ i >= 12
    BY <1>5
  <2>. QED
    BY <2>1, <1>1, Zenon DEF load_q3_k_scale
<1>6. i \in 0 .. 3 \/ i \in 4 .. 7 \/ i \in 8 .. 11 \/ i \in 12 .. 15
  OBVIOUS
<1>. QED
  BY <1>2, <1>3, <1>4, <1>5, <1>6, Zenon

\* The expert kernels of Q3_K and Q6_K read as the dense ones do.
LEMMA Moe_Q3_K_Gemm ==
  ASSUME NEW c \in 0 .. 15, NEW l \in 0 .. 15
  PROVE  Moe_Q3_K(c, l) = Gemm_Q3_K(c, l)
<1> DEFINE group == c \div 8  j == (c % 8) \div 2  half == c % 2
           i == 8 * group + 2 * j + half
<1>1. i \in 0 .. 15
  OBVIOUS
<1>2. load_x_chunk(128 * group + 32 * j + 16 * half, l)
        = load_moe_x_chunk(128 * group + 32 * j + 16 * half, l)
  BY DEF load_x_chunk, load_moe_x_chunk
<1> HIDE DEF i
<1>4.  LET lo == IF i < 8 THEN Bits(96 + i, 0, 4) ELSE Bits(96 + i - 8, 4, 4)
             hi == CASE i < 4       -> Bits(96 + i + 8, 0, 2)
              [] i \in 4..7  -> Bits(96 + i + 4, 2, 2)
              [] i \in 8..11 -> Bits(96 + i, 4, 2)
              [] i >= 12     -> Bits(96 + i - 4, 6, 2)
         IN  lo \o hi = load_q3_k_scale(96, i)
  BY <1>1, Moe_Q3_K_Scale
<1>. QED
  BY <1>2, <1>4, NibbleBits, Zenon DEF Moe_Q3_K, Gemm_Q3_K, i

LEMMA Moe_Q6_K_Gemm ==
  ASSUME NEW c \in 0 .. 15, NEW l \in 0 .. 15
  PROVE  Moe_Q6_K(c, l) = Gemm_Q6_K(c, l)
<1> DEFINE g == (c % 8) \div 2  il == 16 * (c % 2) + l  hb == c \div 8
           S(x, ql, h) == At(x, Linear(Bits(ql, h, 4) \o Bits(128 + 32 * hb + il, 2 * g, 2), 32,
                {Int8(192 + 8 * hb + 2 * g + (c % 2)), F16(208)}))
<1>1. \A b : Nibble(b, IF g < 2 THEN 0 ELSE 1) = Bits(b, 4 * (g \div 2), 4)
  <2>1. g \in 0 .. 3 /\ (g < 2 => g \div 2 = 0) /\ (~(g < 2) => g \div 2 = 1)
    OBVIOUS
  <2> HIDE DEF g
  <2>2. CASE g < 2
    BY <2>1, <2>2 DEF Nibble
  <2>3. CASE ~(g < 2)
    BY <2>1, <2>3 DEF Nibble
  <2>. QED
    BY <2>2, <2>3
<1>2. 64 * hb + (IF g % 2 = 1 THEN 32 ELSE 0) + il = 64 * hb + 32 * (g % 2) + il
  <2>1. CASE g % 2 = 1
    BY <2>1
  <2>2. CASE g % 2 # 1
    <3>1. g % 2 = 0
      BY <2>2
    <3>. QED
      BY <3>1
  <2>. QED
    BY <2>1, <2>2
<1>3. load_x_chunk(128 * hb + 32 * g + 16 * (c % 2), l)
        = load_moe_x_chunk(128 * hb + 32 * g + 16 * (c % 2), l)
  BY DEF load_x_chunk, load_moe_x_chunk
<1>4. Moe_Q6_K(c, l)
        = S(load_moe_x_chunk(128 * hb + 32 * g + 16 * (c % 2), l), 64 * hb + 32 * (g % 2) + il,
          4 * (g \div 2))
  BY Zenon DEF Moe_Q6_K
<1>5. Gemm_Q6_K(c, l)
        = S(load_x_chunk(128 * hb + 32 * g + 16 * (c % 2), l),
          64 * hb + (IF g % 2 = 1 THEN 32 ELSE 0) + il, 4 * (g \div 2))
  BY <1>1, NibbleBits DEF Gemm_Q6_K
<1>. QED
  BY <1>2, <1>3, <1>4, <1>5, Zenon

-----------------------------------------------------------------------------
(* Lanes of the dense and of the expert kernels.  Each lane multiplies the   *)
(* activation of a column p by the weight the decoder writes at p.  The      *)
(* lemmas follow the geometry: which column a lane of a step has.            *)

\* A tile of joined halves: lane l holds column l \div 2 of the half l % 2.
LEMMA HalvesLanes ==
  ASSUME NEW c, NEW l \in 0 .. 31, NEW p, p = l \div 2 + 16 * (l % 2)
  PROVE  /\ Gemm_Q4_0(c, l) = At(p, Dequantize_Q4_0(p))
         /\ Moe_Q4_0(c, l) = At(p, Dequantize_Q4_0(p))
         /\ Gemm_Q4_1(c, l) = At(p, Dequantize_Q4_1(p))
         /\ Moe_Q4_1(c, l) = At(p, Dequantize_Q4_1(p))
         /\ Gemm_Q5_0(c, l) = At(p, Dequantize_Q5_0(p))
         /\ Moe_Q5_0(c, l) = At(p, Dequantize_Q5_0(p))
         /\ Gemm_Q5_1(c, l) = At(p, Dequantize_Q5_1(p))
         /\ Moe_Q5_1(c, l) = At(p, Dequantize_Q5_1(p))
         /\ Gemm_Q8_0(c, l) = At(p, Dequantize_Q8_0(p))
         /\ Moe_Q8_0(c, l) = At(p, Dequantize_Q8_0(p))
         /\ Gemm_Q8_1(c, l) = At(p, Dequantize_Q8_1(p))
         /\ Moe_Q8_1(c, l) = At(p, Dequantize_Q8_1(p))
         /\ Gemm_IQ4_NL(c, l) = At(p, Dequantize_IQ4_NL(p))
         /\ Moe_IQ4_NL(c, l) = At(p, Dequantize_IQ4_NL(p))
         /\ Gemm_MXFP4(c, l) = At(p, DecodeCpu_MXFP4(p))
         /\ Moe_MXFP4(c, l) = At(p, DecodeCpu_MXFP4(p))
         /\ Gemm_Q4_0_ROCMFP4(c, l) = At(p, DequantizeRocm_Q4_0_ROCMFP4(p))
         /\ Moe_Q4_0_ROCMFP4(c, l) = Gemm_Q4_0_ROCMFP4(c, l)
         /\ Gemm_Q4_0_ROCMFP4_FAST(c, l) = At(p, DequantizeRocm_Q4_0_ROCMFP4_FAST(p))
         /\ Moe_Q4_0_ROCMFP4_FAST(c, l) = At(p, DequantizeRocm_Q4_0_ROCMFP4_FAST(p))
<1>1. /\ p \in 0 .. 31
      /\ p % 16 = l \div 2
      /\ p \div 16 = l % 2
      /\ load_x_tile(l) = p
      /\ load_moe_x_tile(l) = p
      /\ 16 + p \div 16 = 16 + (l % 2)
      /\ l % 2 \in {0, 1}
  BY DEF load_x_tile, load_moe_x_tile
<1>2. Gemm_Q4_0(c, l) = At(p, Dequantize_Q4_0(p))
  BY <1>1 DEF Gemm_Q4_0, Dequantize_Q4_0, HalfNibble, Nibble
<1>3. Moe_Q4_0(c, l) = At(p, Dequantize_Q4_0(p))
  BY <1>1 DEF Moe_Q4_0, Dequantize_Q4_0, HalfNibble, Nibble
<1>4. Gemm_Q4_1(c, l) = At(p, Dequantize_Q4_1(p))
  BY <1>1 DEF Gemm_Q4_1, Dequantize_Q4_1, HalfNibble, Nibble
<1>5. Moe_Q4_1(c, l) = At(p, Dequantize_Q4_1(p))
  BY <1>1 DEF Moe_Q4_1, Dequantize_Q4_1, HalfNibble, Nibble
<1>6. Gemm_Q5_0(c, l) = At(p, Dequantize_Q5_0(p))
  BY <1>1 DEF Gemm_Q5_0, Dequantize_Q5_0, HalfNibble, Nibble
<1>7. Moe_Q5_0(c, l) = At(p, Dequantize_Q5_0(p))
  BY <1>1 DEF Moe_Q5_0, Dequantize_Q5_0, HalfNibble, Nibble
<1>8. Gemm_Q5_1(c, l) = At(p, Dequantize_Q5_1(p))
  BY <1>1 DEF Gemm_Q5_1, Dequantize_Q5_1, HalfNibble, Nibble
<1>9. Moe_Q5_1(c, l) = At(p, Dequantize_Q5_1(p))
  BY <1>1 DEF Moe_Q5_1, Dequantize_Q5_1, HalfNibble, Nibble
<1>10. Gemm_Q8_0(c, l) = At(p, Dequantize_Q8_0(p))
  BY <1>1 DEF Gemm_Q8_0, Dequantize_Q8_0
<1>11. Moe_Q8_0(c, l) = At(p, Dequantize_Q8_0(p))
  BY <1>1 DEF Moe_Q8_0, Dequantize_Q8_0
<1>12. Gemm_Q8_1(c, l) = At(p, Dequantize_Q8_1(p))
  BY <1>1 DEF Gemm_Q8_1, Dequantize_Q8_1
<1>13. Moe_Q8_1(c, l) = At(p, Dequantize_Q8_1(p))
  BY <1>1 DEF Moe_Q8_1, Dequantize_Q8_1
<1>14. Gemm_IQ4_NL(c, l) = At(p, Dequantize_IQ4_NL(p))
  BY <1>1 DEF Gemm_IQ4_NL, Dequantize_IQ4_NL, HalfNibble, Nibble
<1>15. Moe_IQ4_NL(c, l) = At(p, Dequantize_IQ4_NL(p))
  BY <1>1 DEF Moe_IQ4_NL, Dequantize_IQ4_NL, HalfNibble, Nibble
<1>16. Gemm_MXFP4(c, l) = At(p, DecodeCpu_MXFP4(p))
  BY <1>1 DEF Gemm_MXFP4, DecodeCpu_MXFP4, HalfNibble
<1>17. Moe_MXFP4(c, l) = At(p, DecodeCpu_MXFP4(p))
  BY <1>1 DEF Moe_MXFP4, DecodeCpu_MXFP4, HalfNibble, Nibble
<1>18. Gemm_Q4_0_ROCMFP4(c, l) = At(p, DequantizeRocm_Q4_0_ROCMFP4(p))
  BY <1>1 DEF Gemm_Q4_0_ROCMFP4, DequantizeRocm_Q4_0_ROCMFP4, HalfNibble, Rocm, Scale_ROCMFPX
<1>19. Moe_Q4_0_ROCMFP4(c, l) = Gemm_Q4_0_ROCMFP4(c, l)
  <2>1. (IF l % 2 = 0 THEN decode_ue4m3_scale(16) ELSE decode_ue4m3_scale(17)) = Rocm(16 + (l % 2))
    <3>1. CASE l % 2 = 0
      BY <3>1 DEF decode_ue4m3_scale, Rocm
    <3>2. CASE l % 2 = 1
      BY <3>2 DEF decode_ue4m3_scale, Rocm
    <3>. QED
      BY <1>1, <3>1, <3>2
  <2>. QED
    BY <2>1, NibbleBits, Zenon DEF Moe_Q4_0_ROCMFP4, Gemm_Q4_0_ROCMFP4
<1>20. Gemm_Q4_0_ROCMFP4_FAST(c, l) = At(p, DequantizeRocm_Q4_0_ROCMFP4_FAST(p))
  BY <1>1 DEF Gemm_Q4_0_ROCMFP4_FAST, DequantizeRocm_Q4_0_ROCMFP4_FAST, HalfNibble, Rocm,
    Scale_ROCMFPX
<1>21. Moe_Q4_0_ROCMFP4_FAST(c, l) = At(p, DequantizeRocm_Q4_0_ROCMFP4_FAST(p))
  BY <1>1 DEF Moe_Q4_0_ROCMFP4_FAST, DequantizeRocm_Q4_0_ROCMFP4_FAST, HalfNibble, Nibble,
    decode_ue4m3_scale, Scale_ROCMFPX
<1>. QED
  BY <1>2, <1>3, <1>4, <1>5, <1>6, <1>7, <1>8, <1>9, <1>10, <1>11, <1>12, <1>13, <1>14, <1>15,
    <1>16, <1>17, <1>18, <1>19, <1>20, <1>21

\* Chunks of 32 weights of a super-block.
LEMMA ChunkLanes ==
  ASSUME NEW c \in 0 .. 7, NEW l \in 0 .. 31, NEW p, p = 32 * c + l
  PROVE  /\ Gemm_Q2_K(c, l) = At(p, Dequantize_Q2_K(p))
         /\ Moe_Q2_K(c, l) = Gemm_Q2_K(c, l)
         /\ Gemm_Q4_K(c, l) = At(p, Dequantize_Q4_K(p))
         /\ Moe_Q4_K(c, l) = At(p, Dequantize_Q4_K(p))
         /\ Gemm_Q5_K(c, l) = At(p, Dequantize_Q5_K(p))
         /\ Moe_Q5_K(c, l) = At(p, Dequantize_Q5_K(p))
         /\ Gemm_IQ4_XS(c, l) = At(p, Dequantize_IQ4_XS(p))
         /\ Moe_IQ4_XS(c, l) = At(p, Dequantize_IQ4_XS(p))
<1>1. /\ p \in 0 .. 255
      /\ p \div 128 = c \div 4 /\ (p % 128) \div 32 = c % 4
      /\ p \div 64 = c \div 2 /\ (p % 64) \div 32 = c % 2
      /\ p \div 32 = c /\ p % 32 = l
      /\ 2 * (c \div 2) + (c % 2) = c
      /\ load_x_chunk(128 * (c \div 4) + 32 * (c % 4), l) = p
      /\ load_moe_x_chunk(128 * (c \div 4) + 32 * (c % 4), l) = p
      /\ load_x_chunk(64 * (c \div 2) + 32 * (c % 2), l) = p
      /\ load_moe_x_chunk(32 * c, l) = p
      /\ load_x_chunk(32 * c + (IF l < 16 THEN 0 ELSE 16), l % 16) = p
      /\ load_moe_x_chunk(32 * c + 16 * (l \div 16), l % 16) = p
  BY DEF load_x_chunk, load_moe_x_chunk
<1>2. Gemm_Q2_K(c, l) = At(p, Dequantize_Q2_K(p))
  BY <1>1 DEF Gemm_Q2_K, Dequantize_Q2_K
<1>3. Moe_Q2_K(c, l) = Gemm_Q2_K(c, l)
  <2>1. 8 * (c \div 4) + 2 * (c % 4) + (IF l >= 16 THEN 1 ELSE 0)
         = 8 * (c \div 4) + 2 * (c % 4) + l \div 16
    OBVIOUS
  <2>2. load_x_chunk(128 * (c \div 4) + 32 * (c % 4), l)
         = load_moe_x_chunk(128 * (c \div 4) + 32 * (c % 4), l)
    BY <1>1, Zenon
  <2>. QED
    BY <2>1, <2>2, NibbleBits, Zenon DEF Moe_Q2_K, Gemm_Q2_K
<1>4. Gemm_Q4_K(c, l) = At(p, Dequantize_Q4_K(p))
  <2>1. /\ load_scale_min_k4(4, c).d = load_scale_min_k4_vector(4, c).d
       /\ load_scale_min_k4(4, c).m = load_scale_min_k4_vector(4, c).m
    BY ScaleMinVector
  <2>. QED
    BY <1>1, <2>1 DEF Gemm_Q4_K, Dequantize_Q4_K
<1>5. Moe_Q4_K(c, l) = At(p, Dequantize_Q4_K(p))
  <2>1. /\ moe_k4_scale(c) = load_scale_min_k4_vector(4, c).d
       /\ moe_k4_min(c) = load_scale_min_k4_vector(4, c).m
    BY ScaleMinMoe
  <2>. QED
    BY <1>1, <2>1 DEF Moe_Q4_K, Dequantize_Q4_K, Nibble, Pair
<1>6. Gemm_Q5_K(c, l) = At(p, Dequantize_Q5_K(p))
  <2>1. /\ load_scale_min_k4(4, c).d = load_scale_min_k4_vector(4, c).d
       /\ load_scale_min_k4(4, c).m = load_scale_min_k4_vector(4, c).m
    BY ScaleMinVector
  <2>. QED
    BY <1>1, <2>1 DEF Gemm_Q5_K, Dequantize_Q5_K
<1>7. Moe_Q5_K(c, l) = At(p, Dequantize_Q5_K(p))
  <2>1. /\ moe_k4_scale(c) = load_scale_min_k4_vector(4, c).d
       /\ moe_k4_min(c) = load_scale_min_k4_vector(4, c).m
    BY ScaleMinMoe
  <2>. QED
    BY <1>1, <2>1 DEF Moe_Q5_K, Dequantize_Q5_K, Nibble, Pair
<1>8. Gemm_IQ4_XS(c, l) = At(p, Dequantize_IQ4_XS(p))
  <2>1. (p % 32) % 16 = l % 16 /\ (p % 32) \div 16 = (IF l < 16 THEN 0 ELSE 1)
    OBVIOUS
  <2>. QED
    BY <1>1, <2>1 DEF Gemm_IQ4_XS, Dequantize_IQ4_XS, HalfNibble
<1>9. Moe_IQ4_XS(c, l) = At(p, Dequantize_IQ4_XS(p))
  <2>1. (p % 32) % 16 = l % 16 /\ (p % 32) \div 16 = l \div 16
    OBVIOUS
  <2>. QED
    BY <1>1, <2>1 DEF Moe_IQ4_XS, Dequantize_IQ4_XS, HalfNibble, Nibble
<1>. QED
  BY <1>2, <1>3, <1>4, <1>5, <1>6, <1>7, <1>8, <1>9

\* Chunks of 16 weights of a super-block.
LEMMA HalfChunkLanes ==
  ASSUME NEW c \in 0 .. 15, NEW l \in 0 .. 15, NEW p, p = 16 * c + l
  PROVE  /\ Gemm_Q3_K(c, l) = At(p, Dequantize_Q3_K(p))
         /\ Moe_Q3_K(c, l) = Gemm_Q3_K(c, l)
         /\ Gemm_Q6_K(c, l) = At(p, Dequantize_Q6_K(p))
         /\ Moe_Q6_K(c, l) = Gemm_Q6_K(c, l)
<1>1. /\ p \in 0 .. 255
      /\ p \div 128 = c \div 8 /\ (p % 128) \div 32 = (c % 8) \div 2
      /\ (p % 32) \div 16 = c % 2 /\ p % 16 = l
      /\ load_x_chunk(128 * (c \div 8) + 32 * ((c % 8) \div 2) + 16 * (c % 2), l) = p
  BY DEF load_x_chunk
<1>2. Gemm_Q3_K(c, l) = At(p, Dequantize_Q3_K(p))
  <2>1. \A i \in 0 .. 15 : load_q3_k_scale(96, i) = load_q3_k_scale_vector(96, i)
    BY Q3Vector
  <2>2. 8 * (c \div 8) + 2 * ((c % 8) \div 2) + (c % 2) = c
    OBVIOUS
  <2>. QED
    BY <1>1, <2>1, <2>2 DEF Gemm_Q3_K, Dequantize_Q3_K
<1>3. Moe_Q3_K(c, l) = Gemm_Q3_K(c, l)
  BY Moe_Q3_K_Gemm
<1>4. Gemm_Q6_K(c, l) = At(p, Dequantize_Q6_K(p))
  BY <1>1 DEF Gemm_Q6_K, Dequantize_Q6_K
<1>5. Moe_Q6_K(c, l) = Gemm_Q6_K(c, l)
  BY Moe_Q6_K_Gemm
<1>. QED
  BY <1>2, <1>3, <1>4, <1>5

\* Rows of eight weights of a grid.
LEMMA GridLanes ==
  ASSUME NEW c \in 0 .. 31, NEW l \in 0 .. 7, NEW p, p = 8 * c + l
  PROVE  /\ Gemm_IQ1_M(c, l) = At(p, Dequantize_IQ1_M(p))
         /\ Moe_IQ1_M(c, l) = At(p, Dequantize_IQ1_M(p))
         /\ Gemm_IQ1_S(c, l) = At(p, Dequantize_IQ1_S(p))
         /\ Moe_IQ1_S(c, l) = At(p, Dequantize_IQ1_S(p))
         /\ Gemm_IQ2_S(c, l) = At(p, Dequantize_IQ2_S(p))
         /\ Moe_IQ2_S(c, l) = At(p, Dequantize_IQ2_S(p))
         /\ Gemm_IQ2_XS(c, l) = At(p, Dequantize_IQ2_XS(p))
         /\ Moe_IQ2_XS(c, l) = At(p, Dequantize_IQ2_XS(p))
         /\ Gemm_IQ2_XXS(c, l) = At(p, Dequantize_IQ2_XXS(p))
         /\ Moe_IQ2_XXS(c, l) = At(p, Dequantize_IQ2_XXS(p))
         /\ Gemm_IQ3_S(c, l) = At(p, Dequantize_IQ3_S(p))
         /\ Moe_IQ3_S(c, l) = At(p, Dequantize_IQ3_S(p))
         /\ Gemm_IQ3_XXS(c, l) = At(p, Dequantize_IQ3_XXS(p))
         /\ Moe_IQ3_XXS(c, l) = At(p, Dequantize_IQ3_XXS(p))
<1>1. /\ p \in 0 .. 255
      /\ p \div 32 = c \div 4 /\ (p % 32) \div 8 = c % 4 /\ p % 8 = l
      /\ load_x_chunk(32 * (c \div 4) + 8 * (c % 4), l) = p
      /\ load_moe_x_chunk(8 * c, l) = p
      /\ load_x_chunk(32 * (c \div 4) + 8 * (c % 4) + 4 * (l \div 4), l % 4) = p
      /\ load_moe_x_chunk(8 * c + 4 * (l \div 4), l % 4) = p
      /\ 4 * (c \div 4) + (c % 4) = c
  BY DEF load_x_chunk, load_moe_x_chunk
<1>2. Gemm_IQ1_M(c, l) = At(p, Dequantize_IQ1_M(p))
  <2>1. LET qh == 32 + 2 * (c \div 4) + (c % 4) \div 2  h == (c % 4) % 2
       IN  /\ SubSeq(Nibble(qh, h), 1, 3) = Bits(qh, 4 * h, 3)
           /\ <<Nibble(qh, h)[4]>> = Bits(qh, 4 * h + 3, 1)
    BY NibbleParts
  <2>. QED
    BY <1>1, <2>1 DEF Gemm_IQ1_M, Dequantize_IQ1_M
<1>3. Moe_IQ1_M(c, l) = At(p, Dequantize_IQ1_M(p))
  <2>1. LET qh == 32 + 2 * (c \div 4) + (c % 4) \div 2  h == (c % 4) % 2
       IN  /\ SubSeq(Nibble(qh, h), 1, 3) = Bits(qh, 4 * h, 3)
           /\ <<Nibble(qh, h)[4]>> = Bits(qh, 4 * h + 3, 1)
    BY NibbleParts
  <2>2. /\ 2 * (c \div 4) + (c % 4) \div 2 = c \div 2 /\ (c % 4) % 2 = c % 2
       /\ 32 + 2 * (c \div 4) + (c % 4) \div 2 = 32 + c \div 2
    OBVIOUS
  <2>. QED
    BY <1>1, <2>1, <2>2 DEF Moe_IQ1_M, Dequantize_IQ1_M, IQ1MScale
<1>4. Gemm_IQ1_S(c, l) = At(p, Dequantize_IQ1_S(p))
  BY <1>1 DEF Gemm_IQ1_S, Dequantize_IQ1_S
<1>5. Moe_IQ1_S(c, l) = At(p, Dequantize_IQ1_S(p))
  <2>1. 2 + 4 * (c \div 4) + (c % 4) = 2 + c /\ 34 + 4 * (c \div 4) + (c % 4) = 34 + c
    OBVIOUS
  <2>. QED
    BY <1>1, <2>1 DEF Moe_IQ1_S, Dequantize_IQ1_S
<1>6. Gemm_IQ2_S(c, l) = At(p, Dequantize_IQ2_S(p))
  BY <1>1 DEF Gemm_IQ2_S, Dequantize_IQ2_S
<1>7. Moe_IQ2_S(c, l) = At(p, Dequantize_IQ2_S(p))
  <2>1. 2 + 4 * (c \div 4) + (c % 4) = 2 + c /\ 34 + 4 * (c \div 4) + (c % 4) = 34 + c
    OBVIOUS
  <2>. QED
    BY <1>1, <2>1 DEF Moe_IQ2_S, Dequantize_IQ2_S, Nibble, Pair
<1>8. Gemm_IQ2_XS(c, l) = At(p, Dequantize_IQ2_XS(p))
  <2>1. LET q2 == 2 + 2 * (4 * (c \div 4) + (c % 4))
       IN  /\ SubSeq(Bits(q2, 0, 16), 1, 9) = Bits(q2, 0, 9)
           /\ SubSeq(Bits(q2, 0, 16), 10, 16) = Bits(q2, 9, 7)
    BY DEF Bits
  <2>. QED
    BY <1>1, <2>1 DEF Gemm_IQ2_XS, Dequantize_IQ2_XS
<1>9. Moe_IQ2_XS(c, l) = At(p, Dequantize_IQ2_XS(p))
  <2>1. LET q2 == 2 + 2 * (4 * (c \div 4) + (c % 4))
       IN  /\ SubSeq(Bits(q2, 0, 16), 1, 9) = Bits(q2, 0, 9)
           /\ SubSeq(Bits(q2, 0, 16), 10, 16) = Bits(q2, 9, 7)
           /\ q2 = 2 + 2 * c
    BY DEF Bits
  <2>. QED
    BY <1>1, <2>1 DEF Moe_IQ2_XS, Dequantize_IQ2_XS, Nibble, Pair
<1>10. Gemm_IQ2_XXS(c, l) = At(p, Dequantize_IQ2_XXS(p))
  <2>1. LET q2 == 6 + 8 * (c \div 4)
       IN  /\ SubSeq(Bits(q2, 0, 32), 7 * (c % 4) + 1, 7 * (c % 4) + 7) = Bits(q2, 7 * (c % 4), 7)
           /\ SubSeq(Bits(q2, 0, 32), 29, 32) = Bits(q2, 28, 4)
    BY DEF Bits
  <2>2. 2 + 8 * (c \div 4) + 4 = 6 + 8 * (c \div 4)
    OBVIOUS
  <2>. QED
    BY <1>1, <2>1, <2>2 DEF Gemm_IQ2_XXS, Dequantize_IQ2_XXS
<1>11. Moe_IQ2_XXS(c, l) = At(p, Dequantize_IQ2_XXS(p))
  <2>1. LET q2 == 6 + 8 * (c \div 4)
       IN  /\ SubSeq(Bits(q2, 0, 32), 7 * (c % 4) + 1, 7 * (c % 4) + 7) = Bits(q2, 7 * (c % 4), 7)
           /\ SubSeq(Bits(q2, 0, 32), 29, 32) = Bits(q2, 28, 4)
    BY DEF Bits
  <2>2. 2 + 8 * (c \div 4) + 4 = 6 + 8 * (c \div 4)
    OBVIOUS
  <2>. QED
    BY <1>1, <2>1, <2>2 DEF Moe_IQ2_XXS, Dequantize_IQ2_XXS
<1>12. Gemm_IQ3_S(c, l) = At(p, Dequantize_IQ3_S(p))
  <2>1. (IF l >= 4 THEN 1 ELSE 0) = l \div 4 /\ l - 4 * (l \div 4) = l % 4
    OBVIOUS
  <2>. QED
    BY <1>1, <2>1 DEF Gemm_IQ3_S, Dequantize_IQ3_S
<1>13. Moe_IQ3_S(c, l) = At(p, Dequantize_IQ3_S(p))
  <2>1. 2 + 8 * (c \div 4) + 2 * (c % 4) = 2 + 2 * c /\ 74 + 4 * (c \div 4) + (c % 4) = 74 + c
    OBVIOUS
  <2>. QED
    BY <1>1, <2>1 DEF Moe_IQ3_S, Dequantize_IQ3_S, Nibble, Pair
<1>14. Gemm_IQ3_XXS(c, l) = At(p, Dequantize_IQ3_XXS(p))
  <2>1. (IF l >= 4 THEN 1 ELSE 0) = l \div 4 /\ l - 4 * (l \div 4) = l % 4
    OBVIOUS
  <2>2. LET q2 == 66 + 4 * (c \div 4)
       IN  /\ SubSeq(Bits(q2, 0, 32), 7 * (c % 4) + 1, 7 * (c % 4) + 7) = Bits(q2, 7 * (c % 4), 7)
           /\ SubSeq(Bits(q2, 0, 32), 29, 32) = Bits(q2, 28, 4)
    BY DEF Bits
  <2>. QED
    BY <1>1, <2>1, <2>2 DEF Gemm_IQ3_XXS, Dequantize_IQ3_XXS
<1>15. Moe_IQ3_XXS(c, l) = At(p, Dequantize_IQ3_XXS(p))
  <2>1. 2 + 8 * (c \div 4) + 2 * (c % 4) = 2 + 2 * c /\ 74 + 4 * (c \div 4) + (c % 4) = 74 + c
    OBVIOUS
  <2>2. LET q2 == 66 + 4 * (c \div 4)
       IN  /\ SubSeq(Bits(q2, 0, 32), 7 * (c % 4) + 1, 7 * (c % 4) + 7) = Bits(q2, 7 * (c % 4), 7)
           /\ SubSeq(Bits(q2, 0, 32), 29, 32) = Bits(q2, 28, 4)
    BY DEF Bits
  <2>. QED
    BY <1>1, <2>1, <2>2 DEF Moe_IQ3_XXS, Dequantize_IQ3_XXS
<1>. QED
  BY <1>2, <1>3, <1>4, <1>5, <1>6, <1>7, <1>8, <1>9, <1>10, <1>11, <1>12, <1>13, <1>14, <1>15

\* The low-bit types: one tile for the whole block.
LEMMA LowBitLanes ==
  ASSUME NEW c, NEW p \in 0 .. 255, NEW l, l = p
  PROVE  /\ Gemm_Q1_0(c, l) = At(p, DequantizeLlama_Q1_0(p))
         /\ Moe_Q1_0(c, l) = At(p, DequantizeLlama_Q1_0(p))
         /\ Gemm_Q2_0(c, l) = At(p, DequantizeLlama_Q2_0(p))
         /\ Moe_Q2_0(c, l) = At(p, DequantizeLlama_Q2_0(p))
         /\ Gemm_TQ1_0(c, l) = At(p, DequantizeLlama_TQ1_0(p))
         /\ Gemm_TQ2_0(c, l) = At(p, DequantizeLlama_TQ2_0(p))
<1>1. /\ p \in Nat /\ p < 256 /\ l = p
      /\ load_moe_x_chunk(0, l) = p
  BY DEF load_x_chunk, load_moe_x_chunk
<1>2. Gemm_Q1_0(c, l) = At(p, DequantizeLlama_Q1_0(p))
  BY <1>1 DEF Gemm_Q1_0, DequantizeLlama_Q1_0
<1>3. Moe_Q1_0(c, l) = At(p, DequantizeLlama_Q1_0(p))
  BY <1>1 DEF Moe_Q1_0, DequantizeLlama_Q1_0, Pair
<1>4. Gemm_Q2_0(c, l) = At(p, DequantizeLlama_Q2_0(p))
  BY <1>1 DEF Gemm_Q2_0, DequantizeLlama_Q2_0
<1>5. Moe_Q2_0(c, l) = At(p, DequantizeLlama_Q2_0(p))
  BY <1>1 DEF Moe_Q2_0, DequantizeLlama_Q2_0, Pair
<1>6. Gemm_TQ1_0(c, l) = At(p, DequantizeLlama_TQ1_0(p))
  <2>1. p < 160 => Trit(p) = [byte |-> p % 32, plane |-> p \div 32]
    BY <1>1 DEF Trit
  <2>2. p \in 160 .. 239
         => Trit(p) = [byte |-> 32 + ((p - 160) % 16), plane |-> (p - 160) \div 16]
    BY <1>1 DEF Trit
  <2>3. p >= 240 => Trit(p) = [byte |-> 48 + ((p - 240) % 4), plane |-> (p - 240) \div 4]
    BY <1>1 DEF Trit
  <2>. QED
    BY <1>1, <2>1, <2>2, <2>3 DEF Gemm_TQ1_0, DequantizeLlama_TQ1_0
<1>7. Gemm_TQ2_0(c, l) = At(p, DequantizeLlama_TQ2_0(p))
  BY <1>1 DEF Gemm_TQ2_0, DequantizeLlama_TQ2_0, Pair
<1>. QED
  BY <1>2, <1>3, <1>4, <1>5, <1>6, <1>7

\* The expert kernels of the ternary types take chunks of 64.
LEMMA TernaryExpertLanes ==
  ASSUME NEW c \in 0 .. 3, NEW l \in 0 .. 63, NEW p, p = 64 * c + l
  PROVE  /\ Moe_TQ1_0(c, l) = At(p, DequantizeLlama_TQ1_0(p))
         /\ Moe_TQ2_0(c, l) = At(p, DequantizeLlama_TQ2_0(p))
<1>1. /\ p \in 0 .. 255
      /\ load_moe_x_chunk(c * 64, l) = p
      /\ c * 64 + l = p
  BY DEF load_x_chunk, load_moe_x_chunk
<1>2. Moe_TQ1_0(c, l) = At(p, DequantizeLlama_TQ1_0(p))
  <2>1. p < 160 => Trit(p) = [byte |-> p % 32, plane |-> p \div 32]
    BY <1>1 DEF Trit
  <2>2. p \in 160 .. 239
         => Trit(p) = [byte |-> 32 + ((p - 160) % 16), plane |-> (p - 160) \div 16]
    BY <1>1 DEF Trit
  <2>3. p >= 240 => Trit(p) = [byte |-> 48 + ((p - 240) % 4), plane |-> (p - 240) \div 4]
    BY <1>1 DEF Trit
  <2>. QED
    BY <1>1, <2>1, <2>2, <2>3 DEF Moe_TQ1_0, DequantizeLlama_TQ1_0, K_CHUNK
<1>3. Moe_TQ2_0(c, l) = At(p, DequantizeLlama_TQ2_0(p))
  BY <1>1 DEF Moe_TQ2_0, DequantizeLlama_TQ2_0, K_CHUNK, Pair
<1>. QED
  BY <1>2, <1>3

\* The ROCmFPX types whose block is one tile.
LEMMA FPXLanes ==
  ASSUME NEW c, NEW p \in 0 .. 31, NEW l, l = p
  PROVE  /\ Gemm_Q8_0_ROCMFPX(c, l) = At(p, DequantizeRocm_Q8_0_ROCMFPX(p))
         /\ Moe_Q8_0_ROCMFPX(c, l) = At(p, DequantizeRocm_Q8_0_ROCMFPX(p))
         /\ Gemm_Q6_0_ROCMFPX(c, l) = At(p, DequantizeRocm_Q6_0_ROCMFPX(p))
         /\ Moe_Q6_0_ROCMFPX(c, l) = At(p, DequantizeRocm_Q6_0_ROCMFPX(p))
         /\ Gemm_Q3_0_ROCMFPX(c, l) = At(p, DequantizeRocm_Q3_0_ROCMFPX(p))
         /\ Moe_Q3_0_ROCMFPX(c, l) = At(p, DequantizeRocm_Q3_0_ROCMFPX(p))
         /\ Gemm_Q2_0_ROCMFPX(c, l) = At(p, DequantizeRocm_Q2_0_ROCMFPX(p))
         /\ Moe_Q2_0_ROCMFPX(c, l) = At(p, DequantizeRocm_Q2_0_ROCMFPX(p))
<1>1. /\ p \in 0 .. 31
  OBVIOUS
<1>2. Gemm_Q8_0_ROCMFPX(c, l) = At(p, DequantizeRocm_Q8_0_ROCMFPX(p))
  BY <1>1 DEF Gemm_Q8_0_ROCMFPX, DequantizeRocm_Q8_0_ROCMFPX, Rocm, Scale_ROCMFPX
<1>3. Moe_Q8_0_ROCMFPX(c, l) = At(p, DequantizeRocm_Q8_0_ROCMFPX(p))
  BY <1>1 DEF Moe_Q8_0_ROCMFPX, DequantizeRocm_Q8_0_ROCMFPX, decode_ue4m3_scale, Scale_ROCMFPX,
    Pair
<1>4. Gemm_Q6_0_ROCMFPX(c, l) = At(p, DequantizeRocm_Q6_0_ROCMFPX(p))
  BY <1>1, PackedBits, TripleBits DEF Gemm_Q6_0_ROCMFPX, DequantizeRocm_Q6_0_ROCMFPX, Rocm,
    Scale_ROCMFPX
<1>5. Moe_Q6_0_ROCMFPX(c, l) = At(p, DequantizeRocm_Q6_0_ROCMFPX(p))
  BY <1>1, PackedBits, TripleBits DEF Moe_Q6_0_ROCMFPX, DequantizeRocm_Q6_0_ROCMFPX,
    decode_ue4m3_scale, Scale_ROCMFPX, Pair
<1>6. Gemm_Q3_0_ROCMFPX(c, l) = At(p, DequantizeRocm_Q3_0_ROCMFPX(p))
  BY <1>1, PackedBits, TripleBits DEF Gemm_Q3_0_ROCMFPX, DequantizeRocm_Q3_0_ROCMFPX, Rocm,
    Scale_ROCMFPX
<1>7. Moe_Q3_0_ROCMFPX(c, l) = At(p, DequantizeRocm_Q3_0_ROCMFPX(p))
  BY <1>1, PackedBits, TripleBits DEF Moe_Q3_0_ROCMFPX, DequantizeRocm_Q3_0_ROCMFPX,
    decode_ue4m3_scale, Scale_ROCMFPX, Pair
<1>8. Gemm_Q2_0_ROCMFPX(c, l) = At(p, DequantizeRocm_Q2_0_ROCMFPX(p))
  BY <1>1 DEF Gemm_Q2_0_ROCMFPX, DequantizeRocm_Q2_0_ROCMFPX, Rocm, Scale_ROCMFPX
<1>9. Moe_Q2_0_ROCMFPX(c, l) = At(p, DequantizeRocm_Q2_0_ROCMFPX(p))
  BY <1>1 DEF Moe_Q2_0_ROCMFPX, DequantizeRocm_Q2_0_ROCMFPX, decode_ue4m3_scale, Scale_ROCMFPX,
    Pair
<1>. QED
  BY <1>2, <1>3, <1>4, <1>5, <1>6, <1>7, <1>8, <1>9

\* NVFP4: halves of each of the four groups of sixteen.
LEMMA NVFP4Lanes ==
  ASSUME NEW c, NEW l \in 0 .. 63,
         NEW p, p = 16 * ((l \div 2) \div 8) + ((l \div 2) % 8) + 8 * (l % 2)
  PROVE  /\ Gemm_NVFP4(c, l) = At(p, DecodeCpu_NVFP4(p))
         /\ Moe_NVFP4(c, l) = At(p, DecodeCpu_NVFP4(p))
<1>1. /\ p \in 0 .. 63
      /\ p \div 16 = (l \div 2) \div 8
      /\ (p % 16) % 8 = (l \div 2) % 8
      /\ (p % 16) \div 8 = l % 2
  OBVIOUS
<1>2. Gemm_NVFP4(c, l) = At(p, DecodeCpu_NVFP4(p))
  BY <1>1 DEF Gemm_NVFP4, DecodeCpu_NVFP4, Nibble
<1>3. Moe_NVFP4(c, l) = At(p, DecodeCpu_NVFP4(p))
  BY <1>1 DEF Moe_NVFP4, DecodeCpu_NVFP4, Nibble
<1>. QED
  BY <1>2, <1>3

\* The decoders of a host without a GPU.
LEMMA CpuWeights ==
  ASSUME NEW p \in 0 .. 31
  PROVE  /\ DecodeCpu_Q4_0_ROCMFP4(p) = DequantizeRocm_Q4_0_ROCMFP4(p)
         /\ DecodeCpu_Q4_0_ROCMFP4_FAST(p) = DequantizeRocm_Q4_0_ROCMFP4_FAST(p)
         /\ DecodeCpu_Q8_0_ROCMFPX(p) = DequantizeRocm_Q8_0_ROCMFPX(p)
         /\ DecodeCpu_Q6_0_ROCMFPX(p) = DequantizeRocm_Q6_0_ROCMFPX(p)
         /\ DecodeCpu_Q3_0_ROCMFPX(p) = DequantizeRocm_Q3_0_ROCMFPX(p)
         /\ DecodeCpu_Q2_0_ROCMFPX(p) = DequantizeRocm_Q2_0_ROCMFPX(p)
<1>1. DecodeCpu_Q4_0_ROCMFP4(p) = DequantizeRocm_Q4_0_ROCMFP4(p)
  <2>1. 16 + p \div 16 = IF p < 16 THEN 16 ELSE 17
    OBVIOUS
  <2>. QED
    BY <2>1 DEF DecodeCpu_Q4_0_ROCMFP4, DequantizeRocm_Q4_0_ROCMFP4, Pair
<1>2. DecodeCpu_Q4_0_ROCMFP4_FAST(p) = DequantizeRocm_Q4_0_ROCMFP4_FAST(p)
  BY DEF DecodeCpu_Q4_0_ROCMFP4_FAST, DequantizeRocm_Q4_0_ROCMFP4_FAST
<1>3. DecodeCpu_Q8_0_ROCMFPX(p) = DequantizeRocm_Q8_0_ROCMFPX(p)
  BY DEF DecodeCpu_Q8_0_ROCMFPX, DequantizeRocm_Q8_0_ROCMFPX
<1>4. DecodeCpu_Q6_0_ROCMFPX(p) = DequantizeRocm_Q6_0_ROCMFPX(p)
  <2>1. 24 + p \div 16 = IF p < 16 THEN 24 ELSE 25
    OBVIOUS
  <2>. QED
    BY <2>1, PackedBits, TripleBits DEF DecodeCpu_Q6_0_ROCMFPX, DequantizeRocm_Q6_0_ROCMFPX, Pair
<1>5. DecodeCpu_Q3_0_ROCMFPX(p) = DequantizeRocm_Q3_0_ROCMFPX(p)
  <2>1. 12 + p \div 16 = IF p < 16 THEN 12 ELSE 13
    OBVIOUS
  <2>. QED
    BY <2>1, PackedBits, TripleBits DEF DecodeCpu_Q3_0_ROCMFPX, DequantizeRocm_Q3_0_ROCMFPX, Pair
<1>6. DecodeCpu_Q2_0_ROCMFPX(p) = DequantizeRocm_Q2_0_ROCMFPX(p)
  <2>1. 8 + p \div 16 = IF p < 16 THEN 8 ELSE 9
    OBVIOUS
  <2>. QED
    BY <2>1 DEF DecodeCpu_Q2_0_ROCMFPX, DequantizeRocm_Q2_0_ROCMFPX, Pair
<1>. QED
  BY <1>1, <1>2, <1>3, <1>4, <1>5, <1>6

-----------------------------------------------------------------------------
(* The native kernels write what the Python decoders write.                  *)

\* The native decoders and the reference decoders, type by type.
LEMMA Native_Q6_0_Same ==
  ASSUME NEW p \in 0 .. 31
  PROVE  Native_Q6_0(p) = Ref_Q6_0(p)
BY DEF Native_Q6_0, Ref_Q6_0, Nibble, Pair, NativeSuffix, RowSuffix, Doubled, EvenScale

LEMMA Native_IQ2_BN_Same ==
  ASSUME NEW p \in 0 .. 63
  PROVE  Native_IQ2_BN(p) = Ref_IQ2_BN(p)
BY DEF Native_IQ2_BN, Ref_IQ2_BN, Nibble, Pair, NativeSuffix, RowSuffix, Doubled, EvenScale

LEMMA Native_IQ2_K_Same ==
  ASSUME NEW p \in 0 .. 255
  PROVE  Native_IQ2_K(p) = Ref_IQ2_K(p)
BY DEF Native_IQ2_K, Ref_IQ2_K, Nibble, Pair, NativeSuffix, RowSuffix, Doubled, EvenScale

LEMMA Native_IQ3_K_Same ==
  ASSUME NEW p \in 0 .. 255
  PROVE  Native_IQ3_K(p) = Ref_IQ3_K(p)
BY DEF Native_IQ3_K, Ref_IQ3_K, Nibble, Pair, NativeSuffix, RowSuffix, Doubled, EvenScale

LEMMA Native_IQ5_K_Same ==
  ASSUME NEW p \in 0 .. 255
  PROVE  Native_IQ5_K(p) = Ref_IQ5_K(p)
BY DEF Native_IQ5_K, Ref_IQ5_K, Nibble, Pair, NativeSuffix, RowSuffix, Doubled, EvenScale

LEMMA Native_IQ6_K_Same ==
  ASSUME NEW p \in 0 .. 255
  PROVE  Native_IQ6_K(p) = Ref_IQ6_K(p)
BY DEF Native_IQ6_K, Ref_IQ6_K, Nibble, Pair, NativeSuffix, RowSuffix, Doubled, EvenScale

LEMMA Native_IQ4_KS_Same ==
  ASSUME NEW p \in 0 .. 255
  PROVE  Native_IQ4_KS(p) = Ref_IQ4_KS(p)
BY DEF Native_IQ4_KS, Ref_IQ4_KS, Nibble, Pair, NativeSuffix, RowSuffix, Doubled, EvenScale

LEMMA Native_IQ1_KT_Same ==
  ASSUME NEW p \in 0 .. 255
  PROVE  Native_IQ1_KT(p) = Ref_IQ1_KT(p)
BY DEF Native_IQ1_KT, Ref_IQ1_KT, Nibble, Pair, NativeSuffix, RowSuffix, Doubled, EvenScale

LEMMA Native_IQ2_KT_Same ==
  ASSUME NEW p \in 0 .. 255
  PROVE  Native_IQ2_KT(p) = Ref_IQ2_KT(p)
BY DEF Native_IQ2_KT, Ref_IQ2_KT, Nibble, Pair, NativeSuffix, RowSuffix, Doubled, EvenScale

LEMMA Native_I2_S_Same ==
  ASSUME NEW p \in 0 .. 127
  PROVE  Native_I2_S(p) = Ref_I2_S(p)
<1>1. 6 - 2 * (p \div 32) = 2 * (3 - p \div 32)
  OBVIOUS
<1>. QED
  BY <1>1, Zenon DEF Native_I2_S, Ref_I2_S, Pair, NativeSuffix, RowSuffix

LEMMA Native_IQ4_K_Same ==
  ASSUME NEW p \in 0 .. 255
  PROVE  Native_IQ4_K(p) = Ref_IQ4_K(p)
<1> DEFINE ib == p \div 32  half == (p % 32) \div 16  sh == Bits(4 + ib \div 2, 4 * (ib % 2), 4)
<1>1. (IF p % 32 < 16 THEN 0 ELSE 1) = half /\ half \in {0, 1}
  OBVIOUS
<1>2. (IF half = 0 THEN SubSeq(sh, 1, 2) ELSE SubSeq(sh, 3, 4))
        = Pair(4 + ib \div 2, 2 * (ib % 2) + half)
  <2>1. CASE half = 0
    <3>1. SubSeq(sh, 1, 2) = Bits(4 + ib \div 2, 4 * (ib % 2), 2)
      BY DEF Bits
    <3>. QED
      BY <2>1, <3>1 DEF Pair
  <2>2. CASE half = 1
    <3>1. SubSeq(sh, 3, 4) = Bits(4 + ib \div 2, 4 * (ib % 2) + 2, 2)
      BY DEF Bits
    <3>2. 2 * (2 * (ib % 2) + half) = 4 * (ib % 2) + 2
      BY <2>2
    <3>. QED
      BY <2>2, <3>1, <3>2 DEF Pair
  <2>. QED
    BY <1>1, <2>1, <2>2
<1>. QED
  BY <1>1, <1>2, Zenon DEF Native_IQ4_K, Ref_IQ4_K, Nibble

LEMMA Native_IQ2_KS_Same ==
  ASSUME NEW p \in 0 .. 255
  PROVE  Native_IQ2_KS(p) = Ref_IQ2_KS(p)
<1>1. (IF p % 64 < 32 THEN 0 ELSE 1) = (p % 64) \div 32
  OBVIOUS
<1>2. 4 * ((p \div 64) % 2) + 2 * ((p % 64) \div 32)
        = 2 * (2 * ((p \div 64) % 2) + (p % 64) \div 32)
  OBVIOUS
<1>. QED
  BY <1>1, <1>2, Zenon DEF Native_IQ2_KS, Ref_IQ2_KS, Nibble, Pair

LEMMA Native_IQ2_KL_Same ==
  ASSUME NEW p \in 0 .. 255
  PROVE  Native_IQ2_KL(p) = Ref_IQ2_KL(p)
<1>1. (IF p % 64 < 32 THEN 0 ELSE 1) = (p % 64) \div 32
  OBVIOUS
<1>2. 4 * (p \div 64) + 2 * ((p % 64) \div 32) = 2 * (2 * (p \div 64) + (p % 64) \div 32)
  OBVIOUS
<1>. QED
  BY <1>1, <1>2, Zenon DEF Native_IQ2_KL, Ref_IQ2_KL, Nibble, Pair

LEMMA Native_IQ3_KT_Same ==
  ASSUME NEW p \in 0 .. 255
  PROVE  Native_IQ3_KT(p) = Ref_IQ3_KT(p)
<1> DEFINE high == p \div 128  i == (p % 128) \div 8
<1>1. /\ 4 + 2 * i + 32 * high = 4 + 2 * (16 * high + i)
  OBVIOUS
<1> DEFINE S(base) ==
             Weight(Bits(base, 0, 16), 4096, "trellis of integers", p % 8,
                    SignBit(Bits(68 + 8 * (i % 4) + (p % 8), i \div 4 + 4 * high, 1)),
                    {F32(-4), Uint(Bits(i \div 4, 4 * high, 4))})
<1>2. Native_IQ3_KT(p) = S(4 + 2 * i + 32 * high)
  BY Zenon DEF Native_IQ3_KT
<1>3. Ref_IQ3_KT(p) = S(4 + 2 * (16 * high + i))
  BY Zenon DEF Ref_IQ3_KT, Nibble
<1> HIDE DEF S
<1>. QED
  BY <1>1, <1>2, <1>3

LEMMA Native_IQ4_KT_Same ==
  ASSUME NEW p \in 0 .. 255
  PROVE  Native_IQ4_KT(p) = Ref_IQ4_KT(p)
<1> DEFINE ib == (p \div 4) \div 8  ig == (p \div 4) % 8
<1>1. Bits(4 * ib + 1, 3 * ig, 3) = Bits(4 * ib, 8 + 3 * ig, 3)
  BY DEF Bits
<1>. QED
  BY <1>1 DEF Native_IQ4_KT, Ref_IQ4_KT, Nibble

LEMMA Native_IQ4_KSS_Same ==
  ASSUME NEW p \in 0 .. 255
  PROVE  Native_IQ4_KSS(p) = Ref_IQ4_KSS(p)
<1> DEFINE group == p \div 32  b == p % 16
           n == 2 * (b % 2) + ((p % 32) \div 16)
           low == 8 * (b % 2) + (IF p % 32 < 16 THEN 0 ELSE 4)
           word == 16 * group + 2 * (b \div 2)
           first == IF low = 0 THEN 1 ELSE low
           native == [k \in 1 .. (IF low \in {0, 12} THEN 4 ELSE 5) |-> 8 * word + first + k - 1]
           code == CASE n = 0 -> Bits(word, 1, 4) [] n = 3 -> Bits(word, 12, 4)
                     [] n \in {1, 2} -> Bits(word, 4 * n, 5)
<1>1. n \in 0 .. 3 /\ low = 4 * n /\ low \div 4 = n /\ word \in Int
  OBVIOUS
<1>2. native = code
  <2> HIDE DEF n, low, word
  <2>1. CASE n = 0
    <3>1. low = 0
      BY <2>1, <1>1
    <3>. QED
      BY <1>1, <2>1, <3>1 DEF Bits
  <2>2. CASE n = 3
    <3>1. low = 12
      BY <2>2, <1>1
    <3>. QED
      BY <1>1, <2>2, <3>1 DEF Bits
  <2>3. CASE n = 1
    <3>1. low = 4
      BY <2>3, <1>1
    <3>. QED
      BY <1>1, <2>3, <3>1 DEF Bits
  <2>4. CASE n = 2
    <3>1. low = 8
      BY <2>4, <1>1
    <3>. QED
      BY <1>1, <2>4, <3>1 DEF Bits
  <2>. QED
    BY <1>1, <2>1, <2>2, <2>3, <2>4
<1>. QED
  BY <1>1, <1>2, Zenon DEF Native_IQ4_KSS, Ref_IQ4_KSS, Doubled, EvenScale

-----------------------------------------------------------------------------
(* Which kernel and which decoder a type is given.                           *)

\* The branch of ggml_mul_mat_a8_triton for each type.
LEMMA DenseDispatch ==
  ASSUME NEW c, NEW l
  PROVE  /\ ggml_mul_mat_a8_triton("Q4_0", c, l) = Gemm_Q4_0(c, l)
         /\ ggml_mul_mat_a8_triton("Q4_1", c, l) = Gemm_Q4_1(c, l)
         /\ ggml_mul_mat_a8_triton("Q5_0", c, l) = Gemm_Q5_0(c, l)
         /\ ggml_mul_mat_a8_triton("Q5_1", c, l) = Gemm_Q5_1(c, l)
         /\ ggml_mul_mat_a8_triton("Q8_0", c, l) = Gemm_Q8_0(c, l)
         /\ ggml_mul_mat_a8_triton("Q8_1", c, l) = Gemm_Q8_1(c, l)
         /\ ggml_mul_mat_a8_triton("IQ4_NL", c, l) = Gemm_IQ4_NL(c, l)
         /\ ggml_mul_mat_a8_triton("Q2_K", c, l) = Gemm_Q2_K(c, l)
         /\ ggml_mul_mat_a8_triton("Q3_K", c, l) = Gemm_Q3_K(c, l)
         /\ ggml_mul_mat_a8_triton("Q4_K", c, l) = Gemm_Q4_K(c, l)
         /\ ggml_mul_mat_a8_triton("Q5_K", c, l) = Gemm_Q5_K(c, l)
         /\ ggml_mul_mat_a8_triton("Q6_K", c, l) = Gemm_Q6_K(c, l)
         /\ ggml_mul_mat_a8_triton("IQ1_M", c, l) = Gemm_IQ1_M(c, l)
         /\ ggml_mul_mat_a8_triton("IQ1_S", c, l) = Gemm_IQ1_S(c, l)
         /\ ggml_mul_mat_a8_triton("IQ2_S", c, l) = Gemm_IQ2_S(c, l)
         /\ ggml_mul_mat_a8_triton("IQ2_XS", c, l) = Gemm_IQ2_XS(c, l)
         /\ ggml_mul_mat_a8_triton("IQ2_XXS", c, l) = Gemm_IQ2_XXS(c, l)
         /\ ggml_mul_mat_a8_triton("IQ3_S", c, l) = Gemm_IQ3_S(c, l)
         /\ ggml_mul_mat_a8_triton("IQ3_XXS", c, l) = Gemm_IQ3_XXS(c, l)
         /\ ggml_mul_mat_a8_triton("IQ4_XS", c, l) = Gemm_IQ4_XS(c, l)
         /\ ggml_mul_mat_a8_triton("Q1_0", c, l) = Gemm_Q1_0(c, l)
         /\ ggml_mul_mat_a8_triton("Q2_0", c, l) = Gemm_Q2_0(c, l)
         /\ ggml_mul_mat_a8_triton("TQ1_0", c, l) = Gemm_TQ1_0(c, l)
         /\ ggml_mul_mat_a8_triton("TQ2_0", c, l) = Gemm_TQ2_0(c, l)
         /\ ggml_mul_mat_a8_triton("MXFP4", c, l) = Gemm_MXFP4(c, l)
         /\ ggml_mul_mat_a8_triton("NVFP4", c, l) = Gemm_NVFP4(c, l)
         /\ ggml_mul_mat_a8_triton("Q4_0_ROCMFP4", c, l) = Gemm_Q4_0_ROCMFP4(c, l)
         /\ ggml_mul_mat_a8_triton("Q4_0_ROCMFP4_FAST", c, l) = Gemm_Q4_0_ROCMFP4_FAST(c, l)
         /\ ggml_mul_mat_a8_triton("Q8_0_ROCMFPX", c, l) = Gemm_Q8_0_ROCMFPX(c, l)
         /\ ggml_mul_mat_a8_triton("Q6_0_ROCMFPX", c, l) = Gemm_Q6_0_ROCMFPX(c, l)
         /\ ggml_mul_mat_a8_triton("Q3_0_ROCMFPX", c, l) = Gemm_Q3_0_ROCMFPX(c, l)
         /\ ggml_mul_mat_a8_triton("Q2_0_ROCMFPX", c, l) = Gemm_Q2_0_ROCMFPX(c, l)
BY DEF ggml_mul_mat_a8_triton

\* The branch of ggml_moe_a8_triton for each type.
LEMMA ExpertDispatch ==
  ASSUME NEW c, NEW l
  PROVE  /\ ggml_moe_a8_triton("Q4_0", c, l) = Moe_Q4_0(c, l)
         /\ ggml_moe_a8_triton("Q4_1", c, l) = Moe_Q4_1(c, l)
         /\ ggml_moe_a8_triton("Q5_0", c, l) = Moe_Q5_0(c, l)
         /\ ggml_moe_a8_triton("Q5_1", c, l) = Moe_Q5_1(c, l)
         /\ ggml_moe_a8_triton("Q8_0", c, l) = Moe_Q8_0(c, l)
         /\ ggml_moe_a8_triton("Q8_1", c, l) = Moe_Q8_1(c, l)
         /\ ggml_moe_a8_triton("IQ4_NL", c, l) = Moe_IQ4_NL(c, l)
         /\ ggml_moe_a8_triton("Q2_K", c, l) = Moe_Q2_K(c, l)
         /\ ggml_moe_a8_triton("Q3_K", c, l) = Moe_Q3_K(c, l)
         /\ ggml_moe_a8_triton("Q4_K", c, l) = Moe_Q4_K(c, l)
         /\ ggml_moe_a8_triton("Q5_K", c, l) = Moe_Q5_K(c, l)
         /\ ggml_moe_a8_triton("Q6_K", c, l) = Moe_Q6_K(c, l)
         /\ ggml_moe_a8_triton("IQ1_M", c, l) = Moe_IQ1_M(c, l)
         /\ ggml_moe_a8_triton("IQ1_S", c, l) = Moe_IQ1_S(c, l)
         /\ ggml_moe_a8_triton("IQ2_S", c, l) = Moe_IQ2_S(c, l)
         /\ ggml_moe_a8_triton("IQ2_XS", c, l) = Moe_IQ2_XS(c, l)
         /\ ggml_moe_a8_triton("IQ2_XXS", c, l) = Moe_IQ2_XXS(c, l)
         /\ ggml_moe_a8_triton("IQ3_S", c, l) = Moe_IQ3_S(c, l)
         /\ ggml_moe_a8_triton("IQ3_XXS", c, l) = Moe_IQ3_XXS(c, l)
         /\ ggml_moe_a8_triton("IQ4_XS", c, l) = Moe_IQ4_XS(c, l)
         /\ ggml_moe_a8_triton("Q1_0", c, l) = Moe_Q1_0(c, l)
         /\ ggml_moe_a8_triton("Q2_0", c, l) = Moe_Q2_0(c, l)
         /\ ggml_moe_a8_triton("TQ1_0", c, l) = Moe_TQ1_0(c, l)
         /\ ggml_moe_a8_triton("TQ2_0", c, l) = Moe_TQ2_0(c, l)
         /\ ggml_moe_a8_triton("MXFP4", c, l) = Moe_MXFP4(c, l)
         /\ ggml_moe_a8_triton("NVFP4", c, l) = Moe_NVFP4(c, l)
         /\ ggml_moe_a8_triton("Q4_0_ROCMFP4", c, l) = Moe_Q4_0_ROCMFP4(c, l)
         /\ ggml_moe_a8_triton("Q4_0_ROCMFP4_FAST", c, l) = Moe_Q4_0_ROCMFP4_FAST(c, l)
         /\ ggml_moe_a8_triton("Q8_0_ROCMFPX", c, l) = Moe_Q8_0_ROCMFPX(c, l)
         /\ ggml_moe_a8_triton("Q6_0_ROCMFPX", c, l) = Moe_Q6_0_ROCMFPX(c, l)
         /\ ggml_moe_a8_triton("Q3_0_ROCMFPX", c, l) = Moe_Q3_0_ROCMFPX(c, l)
         /\ ggml_moe_a8_triton("Q2_0_ROCMFPX", c, l) = Moe_Q2_0_ROCMFPX(c, l)
BY DEF ggml_moe_a8_triton

\* The decoder of each type that has dense kernels.
LEMMA DenseAuthority ==
  ASSUME NEW p
  PROVE  /\ Authority("Q4_0", p) = Dequantize_Q4_0(p)
         /\ Authority("Q4_1", p) = Dequantize_Q4_1(p)
         /\ Authority("Q5_0", p) = Dequantize_Q5_0(p)
         /\ Authority("Q5_1", p) = Dequantize_Q5_1(p)
         /\ Authority("Q8_0", p) = Dequantize_Q8_0(p)
         /\ Authority("Q8_1", p) = Dequantize_Q8_1(p)
         /\ Authority("IQ4_NL", p) = Dequantize_IQ4_NL(p)
         /\ Authority("Q2_K", p) = Dequantize_Q2_K(p)
         /\ Authority("Q3_K", p) = Dequantize_Q3_K(p)
         /\ Authority("Q4_K", p) = Dequantize_Q4_K(p)
         /\ Authority("Q5_K", p) = Dequantize_Q5_K(p)
         /\ Authority("Q6_K", p) = Dequantize_Q6_K(p)
         /\ Authority("IQ1_M", p) = Dequantize_IQ1_M(p)
         /\ Authority("IQ1_S", p) = Dequantize_IQ1_S(p)
         /\ Authority("IQ2_S", p) = Dequantize_IQ2_S(p)
         /\ Authority("IQ2_XS", p) = Dequantize_IQ2_XS(p)
         /\ Authority("IQ2_XXS", p) = Dequantize_IQ2_XXS(p)
         /\ Authority("IQ3_S", p) = Dequantize_IQ3_S(p)
         /\ Authority("IQ3_XXS", p) = Dequantize_IQ3_XXS(p)
         /\ Authority("IQ4_XS", p) = Dequantize_IQ4_XS(p)
         /\ Authority("Q1_0", p) = DequantizeLlama_Q1_0(p)
         /\ Authority("Q2_0", p) = DequantizeLlama_Q2_0(p)
         /\ Authority("TQ1_0", p) = DequantizeLlama_TQ1_0(p)
         /\ Authority("TQ2_0", p) = DequantizeLlama_TQ2_0(p)
         /\ Authority("MXFP4", p) = DecodeCpu_MXFP4(p)
         /\ Authority("NVFP4", p) = DecodeCpu_NVFP4(p)
         /\ Authority("Q4_0_ROCMFP4", p) = DequantizeRocm_Q4_0_ROCMFP4(p)
         /\ Authority("Q4_0_ROCMFP4_FAST", p) = DequantizeRocm_Q4_0_ROCMFP4_FAST(p)
         /\ Authority("Q8_0_ROCMFPX", p) = DequantizeRocm_Q8_0_ROCMFPX(p)
         /\ Authority("Q6_0_ROCMFPX", p) = DequantizeRocm_Q6_0_ROCMFPX(p)
         /\ Authority("Q3_0_ROCMFPX", p) = DequantizeRocm_Q3_0_ROCMFPX(p)
         /\ Authority("Q2_0_ROCMFPX", p) = DequantizeRocm_Q2_0_ROCMFPX(p)
BY DEF Authority, _decode_cpu, ggml_dequantize_triton, _dequantize_rocmfpx_reference,
     _dequantize_llama_reference, ROCmFPXTypes, LlamaTypes, IKTypes

-----------------------------------------------------------------------------
(* The dense and expert kernels, every type.                                 *)

\* The types whose kernels pair the two halves of a block, and those with
\* dense and expert kernels and with a host decoder.
HalvedTypes ==
  {"Q4_0", "Q4_1", "Q5_0", "Q5_1", "Q8_0", "Q8_1", "IQ4_NL", "MXFP4", "Q4_0_ROCMFP4",
   "Q4_0_ROCMFP4_FAST"}
DenseTypes ==
  Tiled32 \cup GridTypes \cup LlamaTypes
    \cup {"Q2_K", "Q3_K", "Q4_K", "Q5_K", "Q6_K", "IQ4_XS", "NVFP4"}
CpuTypes == ROCmFPXTypes \cup {"MXFP4", "NVFP4"}

\* The column that lane l of step c multiplies or writes.
Column(k, t, c, l) ==
  CASE k \in {"gemm", "moe"} /\ t \in HalvedTypes -> l \div 2 + 16 * (l % 2)
    [] k \in {"gemm", "moe"} /\ t = "NVFP4" ->
         16 * ((l \div 2) \div 8) + ((l \div 2) % 8) + 8 * (l % 2)
    [] OTHER -> Lanes(k, t) * c + l

\* A lane of a dense or expert kernel meets, at the column it multiplies, the weight of
\* the decoder: the lane lemmas above, brought together.
LEMMA DenseLanes ==
  ASSUME NEW k \in {"gemm", "moe"}, NEW t \in DenseTypes,
         NEW c \in Nat, c * Lanes(k, t) < BLOCK_QK_BY_TYPE(t), NEW l \in 0 .. (Lanes(k, t) - 1)
  PROVE  Lane(k, t, c, l) = At(Column(k, t, c, l), Authority(t, Column(k, t, c, l)))
<1> DEFINE p == Column(k, t, c, l)
<1>1. Lane(k, t, c, l)
        = IF k = "gemm" THEN ggml_mul_mat_a8_triton(t, c, l) ELSE ggml_moe_a8_triton(t, c, l)
  BY DEF Lane
<1> DEFINE G == Lane(k, t, c, l) = At(p, Authority(t, p))
<1>2. CASE t \in HalvedTypes
  <2>1. l \in 0 .. 31 /\ p = l \div 2 + 16 * (l % 2)
    BY <1>2 DEF HalvedTypes, Lanes, BLOCK_QK_BY_TYPE, Tiled32, GridTypes, Column
  <2> HIDE DEF p
  <2>2. /\ Gemm_Q4_0(c, l) = At(p, Dequantize_Q4_0(p))
        /\ Moe_Q4_0(c, l) = At(p, Dequantize_Q4_0(p))
        /\ Gemm_Q4_1(c, l) = At(p, Dequantize_Q4_1(p))
        /\ Moe_Q4_1(c, l) = At(p, Dequantize_Q4_1(p))
        /\ Gemm_Q5_0(c, l) = At(p, Dequantize_Q5_0(p))
        /\ Moe_Q5_0(c, l) = At(p, Dequantize_Q5_0(p))
        /\ Gemm_Q5_1(c, l) = At(p, Dequantize_Q5_1(p))
        /\ Moe_Q5_1(c, l) = At(p, Dequantize_Q5_1(p))
        /\ Gemm_Q8_0(c, l) = At(p, Dequantize_Q8_0(p))
        /\ Moe_Q8_0(c, l) = At(p, Dequantize_Q8_0(p))
        /\ Gemm_Q8_1(c, l) = At(p, Dequantize_Q8_1(p))
        /\ Moe_Q8_1(c, l) = At(p, Dequantize_Q8_1(p))
        /\ Gemm_IQ4_NL(c, l) = At(p, Dequantize_IQ4_NL(p))
        /\ Moe_IQ4_NL(c, l) = At(p, Dequantize_IQ4_NL(p))
        /\ Gemm_MXFP4(c, l) = At(p, DecodeCpu_MXFP4(p))
        /\ Moe_MXFP4(c, l) = At(p, DecodeCpu_MXFP4(p))
        /\ Gemm_Q4_0_ROCMFP4(c, l) = At(p, DequantizeRocm_Q4_0_ROCMFP4(p))
        /\ Moe_Q4_0_ROCMFP4(c, l) = At(p, DequantizeRocm_Q4_0_ROCMFP4(p))
        /\ Gemm_Q4_0_ROCMFP4_FAST(c, l) = At(p, DequantizeRocm_Q4_0_ROCMFP4_FAST(p))
        /\ Moe_Q4_0_ROCMFP4_FAST(c, l) = At(p, DequantizeRocm_Q4_0_ROCMFP4_FAST(p))
    BY <2>1, HalvesLanes
  <2>3. /\ ggml_mul_mat_a8_triton("Q4_0", c, l) = At(p, Authority("Q4_0", p))
        /\ ggml_moe_a8_triton("Q4_0", c, l) = At(p, Authority("Q4_0", p))
        /\ ggml_mul_mat_a8_triton("Q4_1", c, l) = At(p, Authority("Q4_1", p))
        /\ ggml_moe_a8_triton("Q4_1", c, l) = At(p, Authority("Q4_1", p))
        /\ ggml_mul_mat_a8_triton("Q5_0", c, l) = At(p, Authority("Q5_0", p))
        /\ ggml_moe_a8_triton("Q5_0", c, l) = At(p, Authority("Q5_0", p))
        /\ ggml_mul_mat_a8_triton("Q5_1", c, l) = At(p, Authority("Q5_1", p))
        /\ ggml_moe_a8_triton("Q5_1", c, l) = At(p, Authority("Q5_1", p))
        /\ ggml_mul_mat_a8_triton("Q8_0", c, l) = At(p, Authority("Q8_0", p))
        /\ ggml_moe_a8_triton("Q8_0", c, l) = At(p, Authority("Q8_0", p))
        /\ ggml_mul_mat_a8_triton("Q8_1", c, l) = At(p, Authority("Q8_1", p))
        /\ ggml_moe_a8_triton("Q8_1", c, l) = At(p, Authority("Q8_1", p))
        /\ ggml_mul_mat_a8_triton("IQ4_NL", c, l) = At(p, Authority("IQ4_NL", p))
        /\ ggml_moe_a8_triton("IQ4_NL", c, l) = At(p, Authority("IQ4_NL", p))
        /\ ggml_mul_mat_a8_triton("MXFP4", c, l) = At(p, Authority("MXFP4", p))
        /\ ggml_moe_a8_triton("MXFP4", c, l) = At(p, Authority("MXFP4", p))
        /\ ggml_mul_mat_a8_triton("Q4_0_ROCMFP4", c, l) = At(p, Authority("Q4_0_ROCMFP4", p))
        /\ ggml_moe_a8_triton("Q4_0_ROCMFP4", c, l) = At(p, Authority("Q4_0_ROCMFP4", p))
        /\ ggml_mul_mat_a8_triton("Q4_0_ROCMFP4_FAST", c, l)
             = At(p, Authority("Q4_0_ROCMFP4_FAST", p))
        /\ ggml_moe_a8_triton("Q4_0_ROCMFP4_FAST", c, l) = At(p, Authority("Q4_0_ROCMFP4_FAST", p))
    BY <2>2, DenseDispatch, ExpertDispatch, DenseAuthority
  <2>. QED
    BY <1>1, <1>2, <2>3 DEF HalvedTypes, p
<1>3. CASE t \in {"Q2_K", "Q4_K", "Q5_K", "IQ4_XS"}
  <2>1. l \in 0 .. 31 /\ p = 32 * c + l /\ c \in 0 .. 7
    BY <1>3 DEF HalvedTypes, Lanes, BLOCK_QK_BY_TYPE, Tiled32, GridTypes, Column
  <2> HIDE DEF p
  <2>. QED
    BY <1>1, <1>3, <2>1, ChunkLanes, DenseDispatch, ExpertDispatch, DenseAuthority DEF p
<1>4. CASE t \in {"Q3_K", "Q6_K"}
  <2>1. l \in 0 .. 15 /\ p = 16 * c + l /\ c \in 0 .. 15
    BY <1>4 DEF HalvedTypes, Lanes, BLOCK_QK_BY_TYPE, Tiled32, GridTypes, Column
  <2> HIDE DEF p
  <2>. QED
    BY <1>1, <1>4, <2>1, HalfChunkLanes, DenseDispatch, ExpertDispatch, DenseAuthority DEF p
<1>5. CASE t \in GridTypes
  <2>1. l \in 0 .. 7 /\ p = 8 * c + l /\ c \in 0 .. 31
    BY <1>5 DEF HalvedTypes, Lanes, BLOCK_QK_BY_TYPE, Tiled32, GridTypes, Column
  <2> HIDE DEF p
  <2>. QED
    BY <1>1, <1>5, <2>1, GridLanes, DenseDispatch, ExpertDispatch, DenseAuthority DEF GridTypes, p
<1>6. CASE t \in {"Q1_0", "Q2_0"} \/ (t \in {"TQ1_0", "TQ2_0"} /\ k = "gemm")
  <2>1. l \in 0 .. 255 /\ p = l
    BY <1>6 DEF HalvedTypes, Lanes, BLOCK_QK_BY_TYPE, Tiled32, GridTypes, Column
  <2> HIDE DEF p
  <2>2. /\ Gemm_Q1_0(c, l) = At(p, DequantizeLlama_Q1_0(p))
        /\ Moe_Q1_0(c, l) = At(p, DequantizeLlama_Q1_0(p))
        /\ Gemm_Q2_0(c, l) = At(p, DequantizeLlama_Q2_0(p))
        /\ Moe_Q2_0(c, l) = At(p, DequantizeLlama_Q2_0(p))
        /\ Gemm_TQ1_0(c, l) = At(p, DequantizeLlama_TQ1_0(p))
        /\ Gemm_TQ2_0(c, l) = At(p, DequantizeLlama_TQ2_0(p))
    BY <2>1, LowBitLanes
  <2>3. /\ ggml_mul_mat_a8_triton("Q1_0", c, l) = At(p, Authority("Q1_0", p))
        /\ ggml_moe_a8_triton("Q1_0", c, l) = At(p, Authority("Q1_0", p))
        /\ ggml_mul_mat_a8_triton("Q2_0", c, l) = At(p, Authority("Q2_0", p))
        /\ ggml_moe_a8_triton("Q2_0", c, l) = At(p, Authority("Q2_0", p))
        /\ ggml_mul_mat_a8_triton("TQ1_0", c, l) = At(p, Authority("TQ1_0", p))
        /\ ggml_mul_mat_a8_triton("TQ2_0", c, l) = At(p, Authority("TQ2_0", p))
    BY <2>2, DenseDispatch, ExpertDispatch, DenseAuthority
  <2>. QED
    BY <1>1, <1>6, <2>3 DEF p
<1>7. CASE t \in {"TQ1_0", "TQ2_0"} /\ k = "moe"
  <2>1. l \in 0 .. 63 /\ p = 64 * c + l /\ c \in 0 .. 3
    BY <1>7 DEF HalvedTypes, Lanes, BLOCK_QK_BY_TYPE, Tiled32, GridTypes, Column, K_CHUNK
  <2> HIDE DEF p
  <2>. QED
    BY <1>1, <1>7, <2>1, TernaryExpertLanes, DenseDispatch, ExpertDispatch, DenseAuthority DEF p
<1>8. CASE t \in {"Q8_0_ROCMFPX", "Q6_0_ROCMFPX", "Q3_0_ROCMFPX", "Q2_0_ROCMFPX"}
  <2>1. l \in 0 .. 31 /\ p = l
    BY <1>8 DEF HalvedTypes, Lanes, BLOCK_QK_BY_TYPE, Tiled32, GridTypes, Column
  <2> HIDE DEF p
  <2>. QED
    BY <1>1, <1>8, <2>1, FPXLanes, DenseDispatch, ExpertDispatch, DenseAuthority DEF p
<1>9. CASE t = "NVFP4"
  <2>1. l \in 0 .. 63 /\ p = 16 * ((l \div 2) \div 8) + ((l \div 2) % 8) + 8 * (l % 2)
    BY <1>9 DEF HalvedTypes, Lanes, BLOCK_QK_BY_TYPE, Tiled32, GridTypes, Column
  <2> HIDE DEF p
  <2>2. /\ Gemm_NVFP4(c, l) = At(p, DecodeCpu_NVFP4(p))
        /\ Moe_NVFP4(c, l) = At(p, DecodeCpu_NVFP4(p))
    BY <2>1, NVFP4Lanes, Zenon
  <2>3. /\ ggml_mul_mat_a8_triton("NVFP4", c, l) = At(p, Authority("NVFP4", p))
        /\ ggml_moe_a8_triton("NVFP4", c, l) = At(p, Authority("NVFP4", p))
    BY <2>2, DenseDispatch, ExpertDispatch, DenseAuthority
  <2>. QED
    BY <1>1, <1>9, <2>3 DEF p
<1>. QED
  BY <1>2, <1>3, <1>4, <1>5, <1>6, <1>7, <1>8, <1>9 DEF DenseTypes, Tiled32, LlamaTypes, HalvedTypes

-----------------------------------------------------------------------------
(* The native kernels and the decoders of a host without a GPU, every type.  *)

\* The ik_llama types of which the native kernel and the decoder agree.
NativeTypes == IKTypes \ {"IQ1_BN", "IQ3_KS", "IQ5_KS"}

\* The decoder ggml_get_to_cuda takes for each type.
LEMMA NativeDispatch ==
  ASSUME NEW p
  PROVE  /\ ggml_get_to_cuda("Q6_0", p) = Native_Q6_0(p)
         /\ ggml_get_to_cuda("I2_S", p) = Native_I2_S(p)
         /\ ggml_get_to_cuda("IQ2_BN", p) = Native_IQ2_BN(p)
         /\ ggml_get_to_cuda("IQ2_K", p) = Native_IQ2_K(p)
         /\ ggml_get_to_cuda("IQ3_K", p) = Native_IQ3_K(p)
         /\ ggml_get_to_cuda("IQ4_K", p) = Native_IQ4_K(p)
         /\ ggml_get_to_cuda("IQ5_K", p) = Native_IQ5_K(p)
         /\ ggml_get_to_cuda("IQ6_K", p) = Native_IQ6_K(p)
         /\ ggml_get_to_cuda("IQ2_KS", p) = Native_IQ2_KS(p)
         /\ ggml_get_to_cuda("IQ4_KS", p) = Native_IQ4_KS(p)
         /\ ggml_get_to_cuda("IQ4_KSS", p) = Native_IQ4_KSS(p)
         /\ ggml_get_to_cuda("IQ2_KL", p) = Native_IQ2_KL(p)
         /\ ggml_get_to_cuda("IQ1_KT", p) = Native_IQ1_KT(p)
         /\ ggml_get_to_cuda("IQ2_KT", p) = Native_IQ2_KT(p)
         /\ ggml_get_to_cuda("IQ3_KT", p) = Native_IQ3_KT(p)
         /\ ggml_get_to_cuda("IQ4_KT", p) = Native_IQ4_KT(p)
BY DEF ggml_get_to_cuda

\* The reference decoder of each type.
LEMMA ReferenceDispatch ==
  ASSUME NEW p
  PROVE  /\ REFERENCE_DECODERS("Q6_0", p) = Ref_Q6_0(p)
         /\ REFERENCE_DECODERS("I2_S", p) = Ref_I2_S(p)
         /\ REFERENCE_DECODERS("IQ2_BN", p) = Ref_IQ2_BN(p)
         /\ REFERENCE_DECODERS("IQ2_K", p) = Ref_IQ2_K(p)
         /\ REFERENCE_DECODERS("IQ3_K", p) = Ref_IQ3_K(p)
         /\ REFERENCE_DECODERS("IQ4_K", p) = Ref_IQ4_K(p)
         /\ REFERENCE_DECODERS("IQ5_K", p) = Ref_IQ5_K(p)
         /\ REFERENCE_DECODERS("IQ6_K", p) = Ref_IQ6_K(p)
         /\ REFERENCE_DECODERS("IQ2_KS", p) = Ref_IQ2_KS(p)
         /\ REFERENCE_DECODERS("IQ4_KS", p) = Ref_IQ4_KS(p)
         /\ REFERENCE_DECODERS("IQ4_KSS", p) = Ref_IQ4_KSS(p)
         /\ REFERENCE_DECODERS("IQ2_KL", p) = Ref_IQ2_KL(p)
         /\ REFERENCE_DECODERS("IQ1_KT", p) = Ref_IQ1_KT(p)
         /\ REFERENCE_DECODERS("IQ2_KT", p) = Ref_IQ2_KT(p)
         /\ REFERENCE_DECODERS("IQ3_KT", p) = Ref_IQ3_KT(p)
         /\ REFERENCE_DECODERS("IQ4_KT", p) = Ref_IQ4_KT(p)
BY DEF REFERENCE_DECODERS

\* No earlier test of ggml_dequantize_triton takes a type of ik_llama.
LEMMA ReferenceAuthority ==
  ASSUME NEW t \in IKTypes, NEW p
  PROVE  Authority(t, p) = REFERENCE_DECODERS(t, p)
<1>1. t \notin {"MXFP4", "NVFP4"} \cup ROCmFPXTypes \cup LlamaTypes
  BY DEF IKTypes, ROCmFPXTypes, LlamaTypes
<1>2. Authority(t, p) = ggml_dequantize_triton(t, p)
  BY <1>1 DEF Authority
<1>3. ggml_dequantize_triton(t, p) = REFERENCE_DECODERS(t, p)
  BY <1>1 DEF ggml_dequantize_triton, IKTypes, ROCmFPXTypes, LlamaTypes
<1>. QED
  BY <1>2, <1>3

\* Each native decoder writes what the reference decoder writes.
LEMMA NativeLanes ==
  ASSUME NEW t \in NativeTypes, NEW p \in 0 .. (BLOCK_QK_BY_TYPE(t) - 1)
  PROVE  ggml_get_to_cuda(t, p) = Authority(t, p)
<1>1. t \in IKTypes
  BY DEF NativeTypes
<1>2. Authority(t, p) = REFERENCE_DECODERS(t, p)
  BY <1>1, ReferenceAuthority
<1>3. CASE t = "Q6_0"
  <2>1. Native_Q6_0(p) = Ref_Q6_0(p)
    BY <1>3, Native_Q6_0_Same DEF BLOCK_QK_BY_TYPE, Tiled32
  <2>. QED
    BY <1>2, <1>3, <2>1, NativeDispatch, ReferenceDispatch
<1>4. CASE t = "I2_S"
  <2>1. Native_I2_S(p) = Ref_I2_S(p)
    BY <1>4, Native_I2_S_Same DEF BLOCK_QK_BY_TYPE, Tiled32
  <2>. QED
    BY <1>2, <1>4, <2>1, NativeDispatch, ReferenceDispatch
<1>5. CASE t = "IQ2_BN"
  <2>1. Native_IQ2_BN(p) = Ref_IQ2_BN(p)
    BY <1>5, Native_IQ2_BN_Same DEF BLOCK_QK_BY_TYPE, Tiled32
  <2>. QED
    BY <1>2, <1>5, <2>1, NativeDispatch, ReferenceDispatch
<1>6. CASE t = "IQ2_K"
  <2>1. Native_IQ2_K(p) = Ref_IQ2_K(p)
    BY <1>6, Native_IQ2_K_Same DEF BLOCK_QK_BY_TYPE, Tiled32
  <2>. QED
    BY <1>2, <1>6, <2>1, NativeDispatch, ReferenceDispatch
<1>7. CASE t = "IQ3_K"
  <2>1. Native_IQ3_K(p) = Ref_IQ3_K(p)
    BY <1>7, Native_IQ3_K_Same DEF BLOCK_QK_BY_TYPE, Tiled32
  <2>. QED
    BY <1>2, <1>7, <2>1, NativeDispatch, ReferenceDispatch
<1>8. CASE t = "IQ4_K"
  <2>1. Native_IQ4_K(p) = Ref_IQ4_K(p)
    BY <1>8, Native_IQ4_K_Same DEF BLOCK_QK_BY_TYPE, Tiled32
  <2>. QED
    BY <1>2, <1>8, <2>1, NativeDispatch, ReferenceDispatch
<1>9. CASE t = "IQ5_K"
  <2>1. Native_IQ5_K(p) = Ref_IQ5_K(p)
    BY <1>9, Native_IQ5_K_Same DEF BLOCK_QK_BY_TYPE, Tiled32
  <2>. QED
    BY <1>2, <1>9, <2>1, NativeDispatch, ReferenceDispatch
<1>10. CASE t = "IQ6_K"
  <2>1. Native_IQ6_K(p) = Ref_IQ6_K(p)
    BY <1>10, Native_IQ6_K_Same DEF BLOCK_QK_BY_TYPE, Tiled32
  <2>. QED
    BY <1>2, <1>10, <2>1, NativeDispatch, ReferenceDispatch
<1>11. CASE t = "IQ2_KS"
  <2>1. Native_IQ2_KS(p) = Ref_IQ2_KS(p)
    BY <1>11, Native_IQ2_KS_Same DEF BLOCK_QK_BY_TYPE, Tiled32
  <2>. QED
    BY <1>2, <1>11, <2>1, NativeDispatch, ReferenceDispatch
<1>12. CASE t = "IQ4_KS"
  <2>1. Native_IQ4_KS(p) = Ref_IQ4_KS(p)
    BY <1>12, Native_IQ4_KS_Same DEF BLOCK_QK_BY_TYPE, Tiled32
  <2>. QED
    BY <1>2, <1>12, <2>1, NativeDispatch, ReferenceDispatch
<1>13. CASE t = "IQ4_KSS"
  <2>1. Native_IQ4_KSS(p) = Ref_IQ4_KSS(p)
    BY <1>13, Native_IQ4_KSS_Same DEF BLOCK_QK_BY_TYPE, Tiled32
  <2>. QED
    BY <1>2, <1>13, <2>1, NativeDispatch, ReferenceDispatch
<1>14. CASE t = "IQ2_KL"
  <2>1. Native_IQ2_KL(p) = Ref_IQ2_KL(p)
    BY <1>14, Native_IQ2_KL_Same DEF BLOCK_QK_BY_TYPE, Tiled32
  <2>. QED
    BY <1>2, <1>14, <2>1, NativeDispatch, ReferenceDispatch
<1>15. CASE t = "IQ1_KT"
  <2>1. Native_IQ1_KT(p) = Ref_IQ1_KT(p)
    BY <1>15, Native_IQ1_KT_Same DEF BLOCK_QK_BY_TYPE, Tiled32
  <2>. QED
    BY <1>2, <1>15, <2>1, NativeDispatch, ReferenceDispatch
<1>16. CASE t = "IQ2_KT"
  <2>1. Native_IQ2_KT(p) = Ref_IQ2_KT(p)
    BY <1>16, Native_IQ2_KT_Same DEF BLOCK_QK_BY_TYPE, Tiled32
  <2>. QED
    BY <1>2, <1>16, <2>1, NativeDispatch, ReferenceDispatch
<1>17. CASE t = "IQ3_KT"
  <2>1. Native_IQ3_KT(p) = Ref_IQ3_KT(p)
    BY <1>17, Native_IQ3_KT_Same DEF BLOCK_QK_BY_TYPE, Tiled32
  <2>. QED
    BY <1>2, <1>17, <2>1, NativeDispatch, ReferenceDispatch
<1>18. CASE t = "IQ4_KT"
  <2>1. Native_IQ4_KT(p) = Ref_IQ4_KT(p)
    BY <1>18, Native_IQ4_KT_Same DEF BLOCK_QK_BY_TYPE, Tiled32
  <2>. QED
    BY <1>2, <1>18, <2>1, NativeDispatch, ReferenceDispatch
<1>. QED
  BY <1>3, <1>4, <1>5, <1>6, <1>7, <1>8, <1>9, <1>10, <1>11, <1>12, <1>13, <1>14, <1>15, <1>16,
       <1>17, <1>18 DEF NativeTypes, IKTypes

\* So does the decoder of a host without a GPU.
LEMMA CpuLanes ==
  ASSUME NEW t \in CpuTypes, NEW p \in 0 .. (BLOCK_QK_BY_TYPE(t) - 1)
  PROVE  _decode_cpu(t, p) = Authority(t, p)
<1>1. CASE t \in {"MXFP4", "NVFP4"}
  BY <1>1 DEF Authority
<1>2. CASE t \in ROCmFPXTypes
  <2>1. p \in 0 .. 31
    BY <1>2 DEF ROCmFPXTypes, BLOCK_QK_BY_TYPE, Tiled32
  <2>2. /\ _decode_cpu("Q4_0_ROCMFP4", p) = DecodeCpu_Q4_0_ROCMFP4(p)
        /\ _decode_cpu("Q4_0_ROCMFP4_FAST", p) = DecodeCpu_Q4_0_ROCMFP4_FAST(p)
        /\ _decode_cpu("Q8_0_ROCMFPX", p) = DecodeCpu_Q8_0_ROCMFPX(p)
        /\ _decode_cpu("Q6_0_ROCMFPX", p) = DecodeCpu_Q6_0_ROCMFPX(p)
        /\ _decode_cpu("Q3_0_ROCMFPX", p) = DecodeCpu_Q3_0_ROCMFPX(p)
        /\ _decode_cpu("Q2_0_ROCMFPX", p) = DecodeCpu_Q2_0_ROCMFPX(p)
    BY DEF _decode_cpu
  <2>3. /\ DecodeCpu_Q4_0_ROCMFP4(p) = DequantizeRocm_Q4_0_ROCMFP4(p)
        /\ DecodeCpu_Q4_0_ROCMFP4_FAST(p) = DequantizeRocm_Q4_0_ROCMFP4_FAST(p)
        /\ DecodeCpu_Q8_0_ROCMFPX(p) = DequantizeRocm_Q8_0_ROCMFPX(p)
        /\ DecodeCpu_Q6_0_ROCMFPX(p) = DequantizeRocm_Q6_0_ROCMFPX(p)
        /\ DecodeCpu_Q3_0_ROCMFPX(p) = DequantizeRocm_Q3_0_ROCMFPX(p)
        /\ DecodeCpu_Q2_0_ROCMFPX(p) = DequantizeRocm_Q2_0_ROCMFPX(p)
    BY <2>1, CpuWeights
  <2>4. /\ _decode_cpu("Q4_0_ROCMFP4", p) = Authority("Q4_0_ROCMFP4", p)
        /\ _decode_cpu("Q4_0_ROCMFP4_FAST", p) = Authority("Q4_0_ROCMFP4_FAST", p)
        /\ _decode_cpu("Q8_0_ROCMFPX", p) = Authority("Q8_0_ROCMFPX", p)
        /\ _decode_cpu("Q6_0_ROCMFPX", p) = Authority("Q6_0_ROCMFPX", p)
        /\ _decode_cpu("Q3_0_ROCMFPX", p) = Authority("Q3_0_ROCMFPX", p)
        /\ _decode_cpu("Q2_0_ROCMFPX", p) = Authority("Q2_0_ROCMFPX", p)
    BY <2>2, <2>3, DenseAuthority
  <2>. QED
    BY <1>2, <2>4 DEF ROCmFPXTypes
<1>. QED
  BY <1>1, <1>2 DEF CpuTypes

-----------------------------------------------------------------------------
(* The columns of a step.                                                    *)

\* The launches whose kernel meets at every column the weight of the decoder.
Agreeing ==
  ({"gemm", "moe"} \X DenseTypes) \cup ({"gemm_cpu"} \X CpuTypes)
    \cup ({"dequantize"} \X DecoderTypes) \cup ({"native"} \X NativeTypes)

\* How wide steps and blocks are.
LEMMA LaneCounts ==
  ASSUME NEW k, NEW t
  PROVE  /\ Lanes(k, t) \in {8, 16, 32, 64, 128, 256}
         /\ BLOCK_QK_BY_TYPE(t) \in {32, 64, 128, 256}
         /\ k \notin {"gemm", "moe"} => Lanes(k, t) = BLOCK_QK_BY_TYPE(t)
         /\ Lanes(k, t) \in {8, 16} => BLOCK_QK_BY_TYPE(t) = 256
         /\ Lanes(k, t) = 32 => BLOCK_QK_BY_TYPE(t) \in {32, 256}
         /\ Lanes(k, t) = 64 => BLOCK_QK_BY_TYPE(t) \in {64, 256}
         /\ Lanes(k, t) = 128 => BLOCK_QK_BY_TYPE(t) = 128
         /\ Lanes(k, t) = 256 => BLOCK_QK_BY_TYPE(t) = 256
<1>1. BLOCK_QK_BY_TYPE(t) \in {32, 64, 128, 256}
  BY DEF BLOCK_QK_BY_TYPE
<1>2. CASE k \notin {"gemm", "moe"}
  BY <1>1, <1>2 DEF Lanes
<1>3. CASE k = "moe" /\ t \in {"TQ1_0", "TQ2_0"}
  BY <1>3 DEF Lanes, K_CHUNK, BLOCK_QK_BY_TYPE, Tiled32
<1>4. CASE k \in {"gemm", "moe"} /\ ~(k = "moe" /\ t \in {"TQ1_0", "TQ2_0"})
  <2>1. CASE t \in {"Q2_K", "Q4_K", "Q5_K", "IQ4_XS", "Q3_K", "Q6_K"} \cup GridTypes
    BY <1>4, <2>1 DEF Lanes, BLOCK_QK_BY_TYPE, Tiled32, GridTypes
  <2>2. CASE t \notin {"Q2_K", "Q4_K", "Q5_K", "IQ4_XS", "Q3_K", "Q6_K"} \cup GridTypes
    <3>1. Lanes(k, t) = BLOCK_QK_BY_TYPE(t)
      BY <1>4, <2>2 DEF Lanes
    <3>. QED
      BY <1>1, <3>1
  <2>. QED
    BY <2>1, <2>2
<1>. QED
  BY <1>2, <1>3, <1>4

\* Every lane of an agreeing launch.
LEMMA EveryLane ==
  ASSUME NEW k, NEW t, <<k, t>> \in Agreeing,
         NEW c \in Nat, c * Lanes(k, t) < BLOCK_QK_BY_TYPE(t), NEW l \in 0 .. (Lanes(k, t) - 1)
  PROVE  Lane(k, t, c, l) = At(Column(k, t, c, l), Authority(t, Column(k, t, c, l)))
<1>1. CASE k \in {"gemm", "moe"}
  <2>1. t \in DenseTypes
    BY <1>1 DEF Agreeing
  <2>. QED
    BY <1>1, <2>1, DenseLanes
<1>2. CASE k \in {"gemm_cpu", "dequantize", "native"}
  <2>1. Lanes(k, t) = BLOCK_QK_BY_TYPE(t) /\ BLOCK_QK_BY_TYPE(t) \in {32, 64, 128, 256}
    BY <1>2, LaneCounts
  <2>2. c = 0 /\ l \in 0 .. (BLOCK_QK_BY_TYPE(t) - 1)
    BY <2>1
  <2>3. Column(k, t, c, l) = Lanes(k, t) * c + l
    BY <1>2 DEF Column
  <2>4. Column(k, t, c, l) = l
    BY <2>1, <2>2, <2>3
  <2>5. CASE k = "gemm_cpu"
    <3>1. t \in CpuTypes /\ Lane(k, t, c, l) = At(l, _decode_cpu(t, l))
      BY <2>5 DEF Agreeing, Lane
    <3>2. _decode_cpu(t, l) = Authority(t, l)
      BY <2>2, <3>1, CpuLanes
    <3>. QED
      BY <2>4, <3>1, <3>2, Zenon
  <2>6. CASE k = "native"
    <3>1. t \in NativeTypes /\ Lane(k, t, c, l) = At(l, ggml_get_to_cuda(t, l))
      BY <2>6 DEF Agreeing, Lane
    <3>2. ggml_get_to_cuda(t, l) = Authority(t, l)
      BY <2>2, <3>1, NativeLanes
    <3>. QED
      BY <2>4, <3>1, <3>2, Zenon
  <2>7. CASE k = "dequantize"
    <3>1. t \in DecoderTypes /\ Lane(k, t, c, l) = At(l, ggml_dequantize_triton(t, l))
      BY <2>7 DEF Agreeing, Lane
    <3>2. t \notin {"MXFP4", "NVFP4"}
      BY <3>1 DEF DecoderTypes, ROCmFPXTypes, LlamaTypes, IKTypes, KernelTypes, GridTypes
    <3>3. Authority(t, l) = ggml_dequantize_triton(t, l)
      BY <3>2 DEF Authority
    <3>. QED
      BY <2>4, <3>1, <3>3, Zenon
  <2>. QED
    BY <1>2, <2>5, <2>6, <2>7
<1>. QED
  BY <1>1, <1>2 DEF Agreeing

\* Lanes that pair halves still meet every column once.
LEMMA HalfPlace ==
  ASSUME NEW x \in 0 .. 31
  PROVE  \E g \in 0 .. 1, i \in 0 .. 15 : x = 16 * g + i
<1>1. x \div 16 \in 0 .. 1
  OBVIOUS
<1>2. x % 16 \in 0 .. 15
  OBVIOUS
<1>3. x = (x % 16) + 16 * (x \div 16)
  OBVIOUS
<1>. QED
  BY <1>1, <1>2, <1>3

\* Halves of each group of sixteen.
LEMMA GroupPlace ==
  ASSUME NEW x \in 0 .. 63
  PROVE  \E g \in 0 .. 3, h \in 0 .. 1, i \in 0 .. 7 : x = 16 * g + 8 * h + i
<1>1. PICK g \in 0 .. 3, r \in 0 .. 15 : x = r + 16 * g
  <2>1. x \div 16 \in 0 .. 3
    OBVIOUS
  <2>2. x % 16 \in 0 .. 15
    OBVIOUS
  <2>3. x = (x % 16) + 16 * (x \div 16)
    OBVIOUS
  <2>. QED
    BY <2>1, <2>2, <2>3
<1>2. PICK h \in 0 .. 1, i \in 0 .. 7 : r = i + 8 * h
  <2>1. r \div 8 \in 0 .. 1
    OBVIOUS
  <2>2. r % 8 \in 0 .. 7
    OBVIOUS
  <2>3. r = (r % 8) + 8 * (r \div 8)
    OBVIOUS
  <2>. QED
    BY <2>1, <2>2, <2>3
<1>3. x = 16 * g + 8 * h + i
  BY <1>1, <1>2
<1>. QED
  BY <1>3

\* The lanes of step c are the columns from c * Lanes on, in whatever order.
LEMMA EveryColumn ==
  ASSUME NEW k, NEW t, NEW c \in Nat, c * Lanes(k, t) < BLOCK_QK_BY_TYPE(t)
  PROVE  {Column(k, t, c, l) : l \in 0 .. (Lanes(k, t) - 1)}
           = (c * Lanes(k, t)) .. (c * Lanes(k, t) + Lanes(k, t) - 1)
<1> DEFINE L == Lanes(k, t)  P == {Column(k, t, c, l) : l \in 0 .. (L - 1)}
<1>1. CASE k \in {"gemm", "moe"} /\ t \in HalvedTypes
  <2>1. L = 32 /\ c = 0
    BY <1>1 DEF Lanes, BLOCK_QK_BY_TYPE, HalvedTypes, Tiled32, GridTypes
  <2>2. \A l : Column(k, t, c, l) = l \div 2 + 16 * (l % 2)
    BY <1>1 DEF Column, HalvedTypes
  <2> HIDE DEF L
  <2>3. \A l \in 0 .. 31 : l \div 2 + 16 * (l % 2) \in 0 .. 31
    OBVIOUS
  <2>4. P \subseteq 0 .. 31
    BY <2>1, <2>2, <2>3
  <2>5. ASSUME NEW x \in 0 .. 31 PROVE x \in P
    <3>1. PICK g \in 0 .. 1, i \in 0 .. 15 : x = 16 * g + i
      BY HalfPlace
    <3>2. (2 * i + g) \div 2 = i /\ (2 * i + g) % 2 = g /\ 2 * i + g \in 0 .. (L - 1)
      BY <2>1
    <3>3. Column(k, t, c, 2 * i + g) = (2 * i + g) \div 2 + 16 * ((2 * i + g) % 2)
      BY <2>2
    <3>4. Column(k, t, c, 2 * i + g) = x
      BY <3>1, <3>2, <3>3
    <3>. QED
      BY <3>2, <3>4
  <2>6. P = 0 .. 31
    BY <2>4, <2>5
  <2>7. c * L = 0 /\ c * L + L - 1 = 31
    BY <2>1
  <2>. QED
    BY <2>6, <2>7, Zenon DEF L
<1>2. CASE k \in {"gemm", "moe"} /\ t = "NVFP4"
  <2>1. L = 64 /\ c = 0
    BY <1>2 DEF Lanes, BLOCK_QK_BY_TYPE, HalvedTypes, Tiled32, GridTypes
  <2>2. \A l : Column(k, t, c, l) = 16 * ((l \div 2) \div 8) + ((l \div 2) % 8) + 8 * (l % 2)
    BY <1>2 DEF Column, HalvedTypes
  <2> HIDE DEF L
  <2>3. \A l \in 0 .. 63 : 16 * ((l \div 2) \div 8) + ((l \div 2) % 8) + 8 * (l % 2) \in 0 .. 63
    OBVIOUS
  <2>4. P \subseteq 0 .. 63
    BY <2>1, <2>2, <2>3
  <2>5. ASSUME NEW x \in 0 .. 63 PROVE x \in P
    <3>1. PICK g \in 0 .. 3, h \in 0 .. 1, i \in 0 .. 7 : x = 16 * g + 8 * h + i
      BY GroupPlace
    <3> DEFINE n == 8 * g + i  m == 2 * n + h
    <3>2. n \in 0 .. 31 /\ n \div 8 = g /\ n % 8 = i
      OBVIOUS
    <3> HIDE DEF n
    <3>3. m \in 0 .. 63 /\ m \div 2 = n /\ m % 2 = h
      BY <3>2
    <3> HIDE DEF m
    <3>4. Column(k, t, c, m) = 16 * ((m \div 2) \div 8) + ((m \div 2) % 8) + 8 * (m % 2)
      BY <2>2
    <3>5. Column(k, t, c, m) = 16 * g + i + 8 * h
      BY <3>2, <3>3, <3>4
    <3>6. Column(k, t, c, m) = x /\ m \in 0 .. (L - 1)
      BY <2>1, <3>1, <3>3, <3>5
    <3>. QED
      BY <3>6
  <2>6. P = 0 .. 63
    BY <2>4, <2>5
  <2>7. c * L = 0 /\ c * L + L - 1 = 63
    BY <2>1
  <2>. QED
    BY <2>6, <2>7, Zenon DEF L
<1>3. CASE ~(k \in {"gemm", "moe"} /\ t \in HalvedTypes \cup {"NVFP4"})
  <2>1. \A l : Column(k, t, c, l) = L * c + l
    BY <1>3, Zenon DEF Column
  <2>2. L \in Nat
    BY LaneCounts
  <2> HIDE DEF L
  <2>3. L * c \in Nat /\ c * L = L * c
    BY <2>2
  <2>4. \A x \in (L * c) .. (L * c + L - 1) : x - L * c \in 0 .. (L - 1) /\ L * c + (x - L * c) = x
    BY <2>2, <2>3
  <2>5. \A l \in 0 .. (L - 1) : L * c + l \in (L * c) .. (L * c + L - 1)
    BY <2>2, <2>3
  <2>6. P = {L * c + l : l \in 0 .. (L - 1)}
    BY <2>1
  <2>7. P = (L * c) .. (L * c + L - 1)
    BY <2>4, <2>5, <2>6
  <2>. QED
    BY <2>3, <2>7 DEF L
<1>. QED
  BY <1>1, <1>2, <1>3

-----------------------------------------------------------------------------
(* A block: the inductive invariant of the walk over it.                     *)

Key(t, x) == <<Authority(t, x).code, Authority(t, x).lane>>
\* The bits the decoder of type t reads for the columns X of a block.
ReadBy(t, X) == UNION {BitsRead(Authority(t, x)) : x \in X}

\* What a call keeps while it walks over a block.
BlockInv ==
  /\ step \in Nat
  /\ kernel # "" =>
       /\ <<kernel, type>> \in Launches
       /\ step * Lanes(kernel, type) <= BLOCK_QK_BY_TYPE(type)
       /\ done = 0 .. (step * Lanes(kernel, type) - 1)
  /\ done \subseteq 0 .. (BLOCK_QK_BY_TYPE(type) - 1)
  /\ used = {Key(type, x) : x \in done}
  /\ read = ReadBy(type, done)
  /\ type = "" => done = {}
  /\ type # "" => \E k : <<k, type>> \in Launches
  /\ \A a \in tile : a.w = Authority(type, a.x)

\* A block is a whole number of steps: a step that starts inside it ends inside it.
LEMMA StepFits ==
  ASSUME NEW k, NEW t, NEW c \in Nat, c * Lanes(k, t) < BLOCK_QK_BY_TYPE(t)
  PROVE  /\ c * Lanes(k, t) \in Nat
         /\ (c + 1) * Lanes(k, t) = c * Lanes(k, t) + Lanes(k, t)
         /\ c * Lanes(k, t) + Lanes(k, t) <= BLOCK_QK_BY_TYPE(t)
<1> DEFINE L == Lanes(k, t)  Q == BLOCK_QK_BY_TYPE(t)
<1>1. L \in {8, 16, 32, 64, 128, 256} /\ Q \in {32, 64, 128, 256}
  BY LaneCounts
<1>2. /\ L \in {8, 16} => Q = 256
      /\ L = 32 => Q \in {32, 256}
      /\ L = 64 => Q \in {64, 256}
      /\ L = 128 => Q = 128
      /\ L = 256 => Q = 256
  BY LaneCounts
<1>3. c * L < Q
  OBVIOUS
<1> HIDE DEF L, Q
<1>4. CASE L = 8
  BY <1>2, <1>3, <1>4 DEF L, Q
<1>5. CASE L = 16
  BY <1>2, <1>3, <1>5 DEF L, Q
<1>6. CASE L = 32
  BY <1>2, <1>3, <1>6 DEF L, Q
<1>7. CASE L = 64
  BY <1>2, <1>3, <1>7 DEF L, Q
<1>8. CASE L = 128
  BY <1>2, <1>3, <1>8 DEF L, Q
<1>9. CASE L = 256
  BY <1>2, <1>3, <1>9 DEF L, Q
<1>. QED
  BY <1>1, <1>4, <1>5, <1>6, <1>7, <1>8, <1>9

\* What a step adds: the columns after those done, each with the weight of the decoder.
LEMMA StepColumns ==
  ASSUME Launches \subseteq Agreeing, BlockInv, Step
  PROVE  LET L == Lanes(kernel, type)
             n == step * L
             m == step' * L
             X == {a.x : a \in tile'}
         IN  /\ <<kernel, type>> \in Launches
             /\ n \in Nat /\ m = n + L /\ m <= BLOCK_QK_BY_TYPE(type)
             /\ X = n .. (m - 1)
             /\ \A a \in tile' : a.w = Authority(type, a.x)
             /\ done = 0 .. (n - 1)
             /\ done' = done \cup X
             /\ used' = used \cup {Key(type, x) : x \in X}
             /\ read' = read \cup ReadBy(type, X)
             /\ step' = step + 1 /\ kernel' = kernel /\ type' = type
<1> DEFINE L == Lanes(kernel, type)  Q == BLOCK_QK_BY_TYPE(type)
           S == {Lane(kernel, type, step, l) : l \in 0 .. (L - 1)}
           C(l) == Column(kernel, type, step, l)
           n == step * L
           m == step' * L
<1>1. /\ <<kernel, type>> \in Launches /\ <<kernel, type>> \in Agreeing
      /\ step \in Nat /\ done = 0 .. (n - 1)
  BY Zenon DEF BlockInv, Step
<1>2. n < Q
  <2>1. L \in Nat /\ Q \in Nat
    BY LaneCounts
  <2>2. ~(n >= Q)
    BY DEF Step, Finished
  <2> HIDE DEF L, Q
  <2>. QED
    BY <1>1, <2>1, <2>2
<1>3. /\ tile' = S
      /\ done' = done \cup {a.x : a \in S}
      /\ used' = used \cup {<<a.w.code, a.w.lane>> : a \in S}
      /\ read' = read \cup UNION {BitsRead(a.w) : a \in S}
      /\ step' = step + 1
      /\ kernel' = kernel /\ type' = type
  BY Zenon DEF Step
<1>4. n \in Nat /\ (step + 1) * L = n + L /\ n + L <= Q
  BY <1>1, <1>2, StepFits
<1>5. L \in Nat /\ Q \in Nat
  BY LaneCounts
<1>6. \A l \in 0 .. (L - 1) : Lane(kernel, type, step, l) = At(C(l), Authority(type, C(l)))
  BY <1>1, <1>2, EveryLane
<1>7. {C(l) : l \in 0 .. (L - 1)} = n .. (n + L - 1)
  BY <1>1, <1>2, EveryColumn
<1>8. (step + 1) * L = m
  BY <1>3, Zenon
<1> HIDE DEF C, L, Q, n, m
<1>9. m = n + L /\ m <= Q /\ {C(l) : l \in 0 .. (L - 1)} = n .. (m - 1)
  BY <1>4, <1>5, <1>7, <1>8
<1>10. S = {At(C(l), Authority(type, C(l))) : l \in 0 .. (L - 1)}
  BY <1>6, Zenon
<1> HIDE DEF S
<1>11. \A a \in S : a.w = Authority(type, a.x)
  BY <1>10 DEF At
<1>12. {a.x : a \in S} = {C(l) : l \in 0 .. (L - 1)}
  <2>1. \A l : At(C(l), Authority(type, C(l))).x = C(l)
    BY DEF At
  <2>. QED
    BY <1>10, <2>1, Zenon
<1>13. {<<a.w.code, a.w.lane>> : a \in S} = {Key(type, x) : x \in {a.x : a \in S}}
  BY <1>11, Zenon DEF Key
<1>14. {BitsRead(a.w) : a \in S} = {BitsRead(Authority(type, x)) : x \in {a.x : a \in S}}
  BY <1>11, Zenon
<1>15. UNION {BitsRead(a.w) : a \in S} = ReadBy(type, {a.x : a \in S})
  BY <1>14, Zenon DEF ReadBy
<1>. QED
  BY <1>1, <1>3, <1>4, <1>9, <1>11, <1>12, <1>13, <1>15, Zenon DEF L, Q, n, m

\* The decoder reads columns one by one.
LEMMA ReadByUnion ==
  ASSUME NEW t, NEW X, NEW Y
  PROVE  ReadBy(t, X) \cup ReadBy(t, Y) = ReadBy(t, X \cup Y)
BY Zenon DEF ReadBy

\* No launch, no columns.
LEMMA InitBlock == Init => BlockInv
<1> SUFFICES ASSUME Init PROVE BlockInv
  OBVIOUS
<1>1. kernel = "" /\ type = "" /\ step = 0 /\ tile = {} /\ done = {} /\ used = {} /\ read = {}
  BY DEF Init
<1>2. used = {Key(type, x) : x \in done} /\ read = ReadBy(type, done)
  BY <1>1, Zenon DEF ReadBy
<1>. QED
  BY <1>1, <1>2 DEF BlockInv

\* A launch starts with no columns, a step adds the next ones, a return adds none.
LEMMA NextBlock ==
  ASSUME Launches \subseteq Agreeing, BlockInv, [Next]_vars
  PROVE  BlockInv'
<1>1. ASSUME NEW k, NEW t, NEW m, NEW b, Launch(k, t, m, b)
      PROVE  BlockInv'
  <2>1. /\ <<k, t>> \in Launches /\ kernel' = k /\ type' = t
        /\ step' = 0 /\ tile' = {} /\ done' = {} /\ used' = {} /\ read' = {}
    BY <1>1 DEF Launch
  <2>2. <<k, t>> \in Agreeing /\ t # "" /\ k # ""
    BY <2>1 DEF Agreeing, DenseTypes, CpuTypes, DecoderTypes, NativeTypes, Tiled32, GridTypes,
                LlamaTypes, ROCmFPXTypes, IKTypes, KernelTypes
  <2>3. Lanes(k, t) \in Nat /\ BLOCK_QK_BY_TYPE(t) \in Nat
    BY LaneCounts
  <2>4. 0 * Lanes(k, t) = 0
    BY <2>3
  <2>5. 0 * Lanes(k, t) <= BLOCK_QK_BY_TYPE(t) /\ 0 .. (0 * Lanes(k, t) - 1) = {}
    BY <2>3, <2>4
  <2>6. ReadBy(t, {}) = {}
    BY Zenon DEF ReadBy
  <2>. QED
    BY <2>1, <2>2, <2>5, <2>6 DEF BlockInv
<1>2. CASE Step
  <2> DEFINE L == Lanes(kernel, type)  Q == BLOCK_QK_BY_TYPE(type)
             n == step * L
             m == step' * L
             X == {a.x : a \in tile'}
  <2>1. /\ <<kernel, type>> \in Launches
        /\ n \in Nat /\ m = n + L /\ m <= Q
        /\ X = n .. (m - 1)
        /\ \A a \in tile' : a.w = Authority(type, a.x)
        /\ done = 0 .. (n - 1)
        /\ done' = done \cup X
        /\ used' = used \cup {Key(type, x) : x \in X}
        /\ read' = read \cup ReadBy(type, X)
        /\ step' = step + 1 /\ kernel' = kernel /\ type' = type
    BY <1>2, StepColumns, Zenon
  <2>2. step \in Nat /\ used = {Key(type, x) : x \in done} /\ read = ReadBy(type, done)
    BY Zenon DEF BlockInv
  <2>3. L \in Nat /\ Q \in Nat
    BY LaneCounts
  <2>4. type # ""
    BY <2>1 DEF Agreeing, DenseTypes, CpuTypes, DecoderTypes, NativeTypes, Tiled32, GridTypes,
                LlamaTypes, ROCmFPXTypes, IKTypes, KernelTypes
  <2>5. used' = {Key(type, x) : x \in done'}
    BY <2>1, <2>2, Zenon
  <2>8. read' = ReadBy(type, done')
    <3>1. ReadBy(type, done) \cup ReadBy(type, X) = ReadBy(type, done \cup X)
      BY ReadByUnion
    <3>. QED
      BY <2>1, <2>2, <3>1, Zenon
  <2> HIDE DEF L, Q, n, m, X
  <2>6. done' = 0 .. (m - 1) /\ done' \subseteq 0 .. (Q - 1)
    BY <2>1, <2>3
  <2>7. step' \in Nat
    <3>1. step' = step + 1 /\ step \in Nat
      BY <2>1, <2>2, Zenon
    <3>. QED
      BY <3>1
  <2>. QED
    BY <2>1, <2>4, <2>5, <2>6, <2>7, <2>8, Zenon DEF BlockInv, L, Q, m
<1>3. CASE Return
  <2>1. kernel' = "" /\ UNCHANGED <<type, step, tile, done, read, used>>
    BY <1>3 DEF Return
  <2>. QED
    BY <2>1 DEF BlockInv
<1>4. CASE UNCHANGED vars
  BY <1>4 DEF vars, BlockInv
<1>. QED
  BY <1>1, <1>2, <1>3, <1>4 DEF Next

-----------------------------------------------------------------------------
(* What the walk over a block keeps.                                         *)

\* Whatever launches the constant allows among the agreeing ones, the activation of a column
\* meets in every kernel the weight that the decoder of the type writes there: the dense,
\* expert, host and native kernels were written apart from the decoders, with other loops.
THEOREM AgreeingKernels ==
  ASSUME Launches \subseteq Agreeing
  PROVE  Spec => []SameWeights
<1>1. Init => BlockInv
  BY InitBlock
<1>2. BlockInv /\ [Next]_vars => BlockInv'
  BY NextBlock
<1>3. BlockInv => SameWeights
  BY DEF BlockInv, SameWeights
<1>. QED
  BY <1>1, <1>2, <1>3, PTL DEF Spec

\* As many columns as their number.
LEMMA CountUpTo ==
  ASSUME NEW i \in Nat
  PROVE  IsFiniteSet(0 .. (i - 1)) /\ Cardinality(0 .. (i - 1)) = i
<1>1. i - 1 \in Int /\ 0 \in Int /\ (IF 0 > i - 1 THEN 0 ELSE i - 1 - 0 + 1) = i
  OBVIOUS
<1>. QED
  BY <1>1, FS_Interval

\* Every lane of a step takes a column of its own that no earlier step of the block took
\* (the chunk loops of the kernels).
THEOREM EveryColumnOnce ==
  ASSUME Launches \subseteq Agreeing
  PROVE  Spec => EachOnce
<1>1. Init => BlockInv
  BY InitBlock
<1>2. BlockInv /\ [Next]_vars => BlockInv'
  BY NextBlock
<1> DEFINE Once == step' = step + 1 =>
                     Cardinality(done') = Cardinality(done) + Lanes(kernel, type)
<1>3. BlockInv /\ [Next]_vars => [Once]_vars
  <2>1. SUFFICES ASSUME BlockInv, Next, step' = step + 1
                 PROVE  Cardinality(done') = Cardinality(done) + Lanes(kernel, type)
    BY Zenon
  <2>2. Step
    <3>1. step \in Nat
      BY <2>1, Zenon DEF BlockInv
    <3>2. step' # 0 /\ step' # step
      BY <2>1, <3>1
    <3>. QED
      BY <2>1, <3>2, Zenon DEF Next, Launch, Return
  <2> DEFINE L == Lanes(kernel, type)
             n == step * L
             m == step' * L
             X == {a.x : a \in tile'}
  <2>3. n \in Nat /\ m = n + L /\ X = n .. (m - 1) /\ done = 0 .. (n - 1) /\ done' = done \cup X
    BY <2>1, <2>2, StepColumns, Zenon
  <2>4. L \in Nat
    BY LaneCounts
  <2> HIDE DEF L, n, m, X
  <2>5. m \in Nat /\ done' = 0 .. (m - 1)
    BY <2>3, <2>4
  <2>6. Cardinality(done) = n /\ Cardinality(done') = m
    BY <2>3, <2>5, CountUpTo, Zenon
  <2>. QED
    BY <2>3, <2>6, Zenon DEF L
<1>. QED
  BY <1>1, <1>2, <1>3, PTL DEF Spec, EachOnce

\* The steps of a kernel end at the block, never beyond it.
LEMMA Reached ==
  ASSUME NEW c \in Nat, NEW k, NEW t,
         c * Lanes(k, t) <= BLOCK_QK_BY_TYPE(t), c * Lanes(k, t) >= BLOCK_QK_BY_TYPE(t)
  PROVE  c * Lanes(k, t) = BLOCK_QK_BY_TYPE(t)
<1> DEFINE L == Lanes(k, t)  Q == BLOCK_QK_BY_TYPE(t)
<1>1. L \in Nat /\ Q \in Nat
  BY LaneCounts
<1>2. c * L <= Q /\ c * L >= Q
  OBVIOUS
<1> HIDE DEF L, Q
<1>3. c * L = Q
  BY <1>1, <1>2
<1>. QED
  BY <1>3 DEF L, Q

\* A finished launch has met every column.
LEMMA FinishedBlock ==
  ASSUME BlockInv, kernel # "", Finished
  PROVE  done = 0 .. (BLOCK_QK_BY_TYPE(type) - 1)
<1>1. /\ step \in Nat
      /\ step * Lanes(kernel, type) <= BLOCK_QK_BY_TYPE(type)
      /\ step * Lanes(kernel, type) >= BLOCK_QK_BY_TYPE(type)
      /\ done = 0 .. (step * Lanes(kernel, type) - 1)
  BY Zenon DEF BlockInv, Finished
<1>2. step * Lanes(kernel, type) = BLOCK_QK_BY_TYPE(type)
  BY <1>1, Reached, Zenon
<1>. QED
  BY <1>1, <1>2, Zenon

\* A kernel reads of a block exactly the bits from which the decoder of the type makes the
\* columns done so far: no offset of a kernel leads to another byte.
THEOREM ReadsAsDecoder ==
  ASSUME Launches \subseteq Agreeing
  PROVE  Spec => [](read = ReadBy(type, done))
<1>1. Init => BlockInv
  BY InitBlock
<1>2. BlockInv /\ [Next]_vars => BlockInv'
  BY NextBlock
<1>3. BlockInv => read = ReadBy(type, done)
  BY Zenon DEF BlockInv
<1>. QED
  BY <1>1, <1>2, <1>3, PTL DEF Spec

\* The bits of a block and of its row prefix, but those no kernel needs.
Storage(t) == (-8 * Geometry(t)[1]..(8 * Geometry(t)[2] - 1)) \ Unread(t)

\* A kernel that is through with a block has used every column of it, and every bit of its
\* storage, when the decoder of the type does.  The second hypothesis is about the decoders
\* alone and holds no variable: TLC evaluates it type by type where WholeBlock is checked.
THEOREM WholeBlocks ==
  ASSUME Launches \subseteq Agreeing,
         \A launch \in Launches :
           ReadBy(launch[2], 0 .. (BLOCK_QK_BY_TYPE(launch[2]) - 1)) = Storage(launch[2])
  PROVE  Spec => []WholeBlock
<1>1. Init => BlockInv
  BY InitBlock
<1>2. BlockInv /\ [Next]_vars => BlockInv'
  BY NextBlock
<1>3. BlockInv => WholeBlock
  <2> SUFFICES ASSUME BlockInv, kernel # "", Finished
               PROVE  /\ done = 0 .. (BLOCK_QK_BY_TYPE(type) - 1)
                      /\ read = Storage(type)
    BY Zenon DEF WholeBlock, Storage
  <2>1. done = 0 .. (BLOCK_QK_BY_TYPE(type) - 1)
    BY FinishedBlock
  <2>2. <<kernel, type>> \in Launches /\ read = ReadBy(type, done)
    BY Zenon DEF BlockInv
  <2>3. <<kernel, type>>[2] = type
    OBVIOUS
  <2>. QED
    BY <2>1, <2>2, <2>3, Zenon
<1>. QED
  BY <1>1, <1>2, <1>3, PTL DEF Spec

-----------------------------------------------------------------------------
(* Calls of the tensor decoders.                                             *)

\* Of the types of the tensor decoders, those of llama.cpp are decoded when the
\* tensor is one block.
OneBlockOnly ==
  result # "none" => (result = "raised" <=> type \in LlamaTypes /\ rows * blocks # 1)

\* What a call keeps until it returns.
CallInv ==
  /\ rows \in Nat \ {0} /\ blocks \in Nat \ {0}
  /\ kernel # "" => kernel \in Kernels /\ <<kernel, type>> \in Launches /\ result = "none"
  /\ kernel \notin {"", "dequantize"} => rows = 1 /\ blocks = 1
  /\ result = "raised" => <<"dequantize", type>> \in Launches
  /\ OneBlockOnly

\* What a decoder gives back, over all types.
LEMMA DecodeResult ==
  ASSUME NEW t \in DecoderTypes, NEW m \in Nat \ {0}, NEW b \in Nat \ {0}
  PROVE  Decode(t, m, b) = IF t \in LlamaTypes /\ m * b # 1 THEN "raised" ELSE "decoded"
<1>1. CASE t \in LlamaTypes
  BY <1>1, DecodeLlama, Zenon
<1>2. CASE t \notin LlamaTypes
  <2>1. \/ t \in ROCmFPXTypes \cup {"Q6_0"}
        \/ t \in KTypes
        \/ t \in DOMAIN ROW_PREFIX_GGUF_TYPES \cup {"I2_S", "IQ1_BN", "IQ2_BN"}
        \/ t \in KernelTypes
    BY <1>2 DEF DecoderTypes, IKTypes, KTypes, ROW_PREFIX_GGUF_TYPES
  <2>2. Decode(t, m, b) = "decoded"
    BY <2>1, DecodeBlocks, DecodeGroups, DecodeRows, DecodeInPlace, Zenon
  <2>. QED
    BY <1>2, <2>2, Zenon
<1>. QED
  BY <1>1, <1>2

\* No call, no result.
LEMMA InitCall == Init => CallInv
<1>1. 1 \in Nat \ {0}
  OBVIOUS
<1>. QED
  BY <1>1, Zenon DEF Init, CallInv, OneBlockOnly

\* A result is that of the launch it ends.
LEMMA NextCall ==
  ASSUME \A t : <<"dequantize", t>> \in Launches => t \in DecoderTypes, CallInv, [Next]_vars
  PROVE  CallInv'
<1>1. ASSUME NEW launch \in Launches, NEW size \in Sizes(launch[1]),
             Launch(launch[1], launch[2], size[1], size[2])
      PROVE  CallInv'
  <2>1. /\ <<launch[1], launch[2]>> \in Launches /\ kernel' = launch[1] /\ type' = launch[2]
        /\ rows' = size[1] /\ blocks' = size[2] /\ result' = "none"
    BY <1>1, Zenon DEF Launch
  <2>2. launch[1] \in Kernels
    BY LaunchesAssumption
  <2>3. /\ size[1] \in Nat \ {0} /\ size[2] \in Nat \ {0}
        /\ launch[1] # "dequantize" => size[1] = 1 /\ size[2] = 1
    BY LaunchesAssumption DEF Sizes
  <2>. QED
    BY <2>1, <2>2, <2>3, Zenon DEF CallInv, OneBlockOnly
<1>2. CASE Step
  BY <1>2, Zenon DEF Step, CallInv, OneBlockOnly
<1>3. CASE Return
  <2>1. /\ kernel \in Kernels /\ <<kernel, type>> \in Launches /\ kernel # ""
        /\ rows \in Nat \ {0} /\ blocks \in Nat \ {0}
        /\ kernel # "dequantize" => rows = 1 /\ blocks = 1
        /\ result' = IF kernel = "dequantize" THEN Decode(type, rows, blocks) ELSE "decoded"
        /\ kernel' = "" /\ type' = type /\ rows' = rows /\ blocks' = blocks
    BY <1>3, Zenon DEF Return, CallInv
  <2>2. CASE kernel = "dequantize"
    <3>1. result' = IF type \in LlamaTypes /\ rows * blocks # 1 THEN "raised" ELSE "decoded"
      BY <2>1, <2>2, DecodeResult, Zenon
    <3>. QED
      BY <2>1, <2>2, <3>1 DEF CallInv, OneBlockOnly
  <2>3. CASE kernel # "dequantize"
    <3>1. rows' = 1 /\ blocks' = 1 /\ result' = "decoded"
      BY <2>1, <2>3, Zenon
    <3>2. rows' * blocks' = 1
      BY <3>1
    <3>. QED
      BY <2>1, <3>1, <3>2 DEF CallInv, OneBlockOnly
  <2>. QED
    BY <2>2, <2>3
<1>4. CASE UNCHANGED vars
  BY <1>4, Zenon DEF vars, CallInv, OneBlockOnly
<1>. QED
  BY <1>1, <1>2, <1>3, <1>4, Zenon DEF Next

\* A decoder gives back the tensor for every number of rows and blocks, but those of the four
\* llama.cpp types, whose scales carry an axis too many (_dequantize_llama_reference): they
\* raise for every tensor of more than one block, and for no other.
THEOREM DecodersRaise ==
  ASSUME \A t : <<"dequantize", t>> \in Launches => t \in DecoderTypes
  PROVE  Spec => []OneBlockOnly
<1>1. Init => CallInv
  BY InitCall
<1>2. CallInv /\ [Next]_vars => CallInv'
  BY NextCall
<1>3. CallInv => OneBlockOnly
  BY DEF CallInv
<1>. QED
  BY <1>1, <1>2, <1>3, PTL DEF Spec

\* Without those four no decoder raises.
THEOREM DecodersReturn ==
  ASSUME \A t : <<"dequantize", t>> \in Launches => t \in DecoderTypes \ LlamaTypes
  PROVE  Spec => []DecodesWellFormed
<1>1. Init => CallInv
  BY InitCall
<1>2. CallInv /\ [Next]_vars => CallInv'
  BY NextCall
<1>3. CallInv => DecodesWellFormed
  BY DEF CallInv, OneBlockOnly, DecodesWellFormed
<1>. QED
  BY <1>1, <1>2, <1>3, PTL DEF Spec

-----------------------------------------------------------------------------
(* Codes. Every decoder places the code of a weight at a first bit of its    *)
(* own, or at a place of its own in a shared code: first the runs of bits,   *)
(* then the columns of every type.                                           *)

\* A sequence that is not empty, and its first member.
Run(s) == s # <<>> /\ \E S : s \in Seq(S)
First(s) == s[1]

\* Runs of bits and their first bit.
LEMMA BitsRun ==
  ASSUME NEW b, NEW lo, NEW w \in Nat \ {0}
  PROVE  Run(Bits(b, lo, w))
<1> DEFINE e(k) == 8 * b + lo + k - 1  S == {e(k) : k \in 1 .. w}
<1>1. Bits(b, lo, w) = [k \in 1 .. w |-> e(k)]
  BY DEF Bits
<1> HIDE DEF e
<1>2. Bits(b, lo, w) \in Seq(S) /\ Len(Bits(b, lo, w)) = w
  BY <1>1
<1>. QED
  BY <1>2 DEF Run

LEMMA KindsRun ==
  ASSUME NEW b, NEW h
  PROVE  Run(Nibble(b, h)) /\ Run(Pair(b, h)) /\ Run(Byte(b))
BY BitsRun DEF Nibble, Pair, Byte

LEMMA SingleRun ==
  ASSUME NEW e
  PROVE  Run(<<e>>)
<1>1. <<e>> \in Seq({e}) /\ <<e>> # <<>>
  OBVIOUS
<1>. QED
  BY <1>1 DEF Run

LEMMA ConcatRun ==
  ASSUME NEW s, NEW t, Run(s), Run(t)
  PROVE  Run(s \o t) /\ First(s \o t) = First(s)
<1>1. PICK A : s \in Seq(A)
  BY DEF Run
<1>2. PICK B : t \in Seq(B)
  BY DEF Run
<1> DEFINE C == A \cup B
<1>3. s \in Seq(C) /\ t \in Seq(C)
  BY <1>1, <1>2
<1>4. /\ s \o t \in Seq(C)
      /\ Len(s \o t) = Len(s) + Len(t)
      /\ \A i \in 1 .. Len(s) + Len(t) : (s \o t)[i] = IF i <= Len(s) THEN s[i] ELSE t[i - Len(s)]
  BY <1>3, ConcatProperties
<1>5. Len(s) \in Nat \ {0} /\ Len(t) \in Nat
  BY <1>3, EmptySeq DEF Run
<1>. QED
  BY <1>3, <1>4, <1>5 DEF Run, First

\* The first bit, from the byte and the place in it.
LEMMA FirstBit ==
  ASSUME NEW b \in Int, NEW lo \in Int, NEW w \in Nat \ {0}
  PROVE  First(Bits(b, lo, w)) = 8 * b + lo
BY DEF Bits, First

LEMMA FirstBits ==
  ASSUME NEW b \in Int, NEW h \in Int
  PROVE  /\ First(Nibble(b, h)) = 8 * b + 4 * h
         /\ First(Pair(b, h)) = 8 * b + 2 * h
         /\ First(Byte(b)) = 8 * b
<1>1. 4 * h \in Int /\ 2 * h \in Int /\ 0 \in Int /\ 8 * b + 0 = 8 * b
  OBVIOUS
<1>2. First(Bits(b, 4 * h, 4)) = 8 * b + 4 * h
  BY <1>1, FirstBit
<1>3. First(Bits(b, 2 * h, 2)) = 8 * b + 2 * h
  BY <1>1, FirstBit
<1>4. First(Bits(b, 0, 8)) = 8 * b + 0
  BY <1>1, FirstBit
<1>. QED
  BY <1>1, <1>2, <1>3, <1>4, Zenon DEF Nibble, Pair, Byte

\* The places of a column in its block of 256: its half, quarter, and so on.
Places(x, a, b, c, d, r) ==
  /\ x = 128 * a + 64 * b + 32 * c + 16 * d + r
  /\ x \div 128 = a /\ x \div 64 = 2 * a + b /\ x \div 32 = 4 * a + 2 * b + c
  /\ (x % 128) \div 32 = 2 * b + c /\ (x % 64) \div 32 = c /\ (x % 32) \div 16 = d
  /\ x % 32 = 16 * d + r /\ x % 16 = r /\ (x % 32) % 16 = r
  /\ ((x % 128) \div 32) % 2 = c
  /\ (x \div 32) \div 4 = a /\ (x \div 32) % 4 = 2 * b + c
  /\ (x \div 32) \div 2 = 2 * a + b /\ (x \div 32) % 2 = c
  /\ (x \div 64) \div 2 = a /\ (x \div 64) % 2 = b

\* Every column of a block of 256 has its places.
LEMMA Digits ==
  ASSUME NEW x \in 0 .. 255
  PROVE  \E a \in 0 .. 1, b \in 0 .. 1, c \in 0 .. 1, d \in 0 .. 1, r \in 0 .. 15 :
           Places(x, a, b, c, d, r)
<1>1. PICK a \in 0 .. 1, y \in 0 .. 127 : x = y + 128 * a
  <2>1. x \div 128 \in 0 .. 1
    OBVIOUS
  <2>2. x % 128 \in 0 .. 127
    OBVIOUS
  <2>3. x = (x % 128) + 128 * (x \div 128)
    OBVIOUS
  <2>. QED
    BY <2>1, <2>2, <2>3
<1>2. PICK b \in 0 .. 1, z \in 0 .. 63 : y = z + 64 * b
  <2>1. y \div 64 \in 0 .. 1
    OBVIOUS
  <2>2. y % 64 \in 0 .. 63
    OBVIOUS
  <2>3. y = (y % 64) + 64 * (y \div 64)
    OBVIOUS
  <2>. QED
    BY <2>1, <2>2, <2>3
<1>3. PICK c \in 0 .. 1, u \in 0 .. 31 : z = u + 32 * c
  <2>1. z \div 32 \in 0 .. 1
    OBVIOUS
  <2>2. z % 32 \in 0 .. 31
    OBVIOUS
  <2>3. z = (z % 32) + 32 * (z \div 32)
    OBVIOUS
  <2>. QED
    BY <2>1, <2>2, <2>3
<1>4. PICK d \in 0 .. 1, r \in 0 .. 15 : u = r + 16 * d
  <2>1. u \div 16 \in 0 .. 1
    OBVIOUS
  <2>2. u % 16 \in 0 .. 15
    OBVIOUS
  <2>3. u = (u % 16) + 16 * (u \div 16)
    OBVIOUS
  <2>. QED
    BY <2>1, <2>2, <2>3
<1>5. x = 128 * a + 64 * b + 32 * c + 16 * d + r
  BY <1>1, <1>2, <1>3, <1>4
<1>6. /\ x \div 128 = a /\ x \div 64 = 2 * a + b /\ x \div 32 = 4 * a + 2 * b + c
      /\ x % 128 = 64 * b + 32 * c + 16 * d + r /\ x % 64 = 32 * c + 16 * d + r
      /\ x % 32 = 16 * d + r /\ x % 16 = r
  BY <1>5
<1>7. /\ (64 * b + 32 * c + 16 * d + r) \div 32 = 2 * b + c
      /\ (32 * c + 16 * d + r) \div 32 = c
      /\ (16 * d + r) \div 16 = d /\ (16 * d + r) % 16 = r
      /\ (2 * b + c) % 2 = c
      /\ (4 * a + 2 * b + c) \div 4 = a /\ (4 * a + 2 * b + c) % 4 = 2 * b + c
      /\ (4 * a + 2 * b + c) \div 2 = 2 * a + b /\ (4 * a + 2 * b + c) % 2 = c
      /\ (2 * a + b) \div 2 = a /\ (2 * a + b) % 2 = b
  OBVIOUS
<1>8. /\ (x % 128) \div 32 = 2 * b + c /\ (x % 64) \div 32 = c /\ (x % 32) \div 16 = d
      /\ (x % 32) % 16 = r
      /\ (x \div 32) \div 4 = a /\ (x \div 32) % 4 = 2 * b + c
      /\ (x \div 32) \div 2 = 2 * a + b /\ (x \div 32) % 2 = c
      /\ (x \div 64) \div 2 = a /\ (x \div 64) % 2 = b
  BY <1>6, <1>7, Zenon
<1>9. ((x % 128) \div 32) % 2 = c
  BY <1>7, <1>8, Zenon
<1>10. Places(x, a, b, c, d, r)
  BY <1>5, <1>6, <1>8, <1>9, Zenon DEF Places
<1>. QED
  BY <1>10, Zenon

\* Two weights read one code at one place in it.
SameCode(v, w) == v.code = w.code /\ v.lane = w.lane

LEMMA Own_Q4_0 ==
  ASSUME NEW p \in 0 .. 31, NEW q \in 0 .. 31
  PROVE  SameCode(Dequantize_Q4_0(p), Dequantize_Q4_0(q)) => p = q
<1> DEFINE byte(x) == 2 + (x % 16)
           arg(x) == x \div 16
<1>1. ASSUME NEW x \in 0 .. 31
      PROVE  First(Dequantize_Q4_0(x).code) = 8 * byte(x) + 4 * arg(x)
  <2>1. byte(x) \in Int /\ arg(x) \in Int
    OBVIOUS
  <2>3. Dequantize_Q4_0(x).code = Nibble(byte(x), arg(x))
    BY DEF Dequantize_Q4_0, Linear, Coded, Weight, WithMin, HalfNibble
  <2> HIDE DEF byte, arg
  <2>. QED
    BY <2>1, <2>3, FirstBits
<1> SUFFICES ASSUME SameCode(Dequantize_Q4_0(p), Dequantize_Q4_0(q)) PROVE p = q
  OBVIOUS
<1> HIDE DEF byte, arg
<1>2. 8 * byte(p) + 4 * arg(p) = 8 * byte(q) + 4 * arg(q)
  BY <1>1, Zenon DEF SameCode
<1>. QED
  BY <1>2 DEF byte, arg

LEMMA Own_Q4_1 ==
  ASSUME NEW p \in 0 .. 31, NEW q \in 0 .. 31
  PROVE  SameCode(Dequantize_Q4_1(p), Dequantize_Q4_1(q)) => p = q
<1> DEFINE byte(x) == 4 + (x % 16)
           arg(x) == x \div 16
<1>1. ASSUME NEW x \in 0 .. 31
      PROVE  First(Dequantize_Q4_1(x).code) = 8 * byte(x) + 4 * arg(x)
  <2>1. byte(x) \in Int /\ arg(x) \in Int
    OBVIOUS
  <2>3. Dequantize_Q4_1(x).code = Nibble(byte(x), arg(x))
    BY DEF Dequantize_Q4_1, Linear, Coded, Weight, WithMin, HalfNibble
  <2> HIDE DEF byte, arg
  <2>. QED
    BY <2>1, <2>3, FirstBits
<1> SUFFICES ASSUME SameCode(Dequantize_Q4_1(p), Dequantize_Q4_1(q)) PROVE p = q
  OBVIOUS
<1> HIDE DEF byte, arg
<1>2. 8 * byte(p) + 4 * arg(p) = 8 * byte(q) + 4 * arg(q)
  BY <1>1, Zenon DEF SameCode
<1>. QED
  BY <1>2 DEF byte, arg

LEMMA Own_Q5_0 ==
  ASSUME NEW p \in 0 .. 31, NEW q \in 0 .. 31
  PROVE  SameCode(Dequantize_Q5_0(p), Dequantize_Q5_0(q)) => p = q
<1> DEFINE byte(x) == 6 + (x % 16)
           arg(x) == x \div 16
           rest1(x) == Bits(2, x, 1)
<1>1. ASSUME NEW x \in 0 .. 31
      PROVE  First(Dequantize_Q5_0(x).code) = 8 * byte(x) + 4 * arg(x)
  <2>1. byte(x) \in Int /\ arg(x) \in Int
    OBVIOUS
  <2>2. Run(rest1(x))
    BY BitsRun, KindsRun
  <2>3. Dequantize_Q5_0(x).code = Nibble(byte(x), arg(x)) \o rest1(x)
    BY DEF Dequantize_Q5_0, Linear, Coded, Weight, WithMin, HalfNibble
  <2> HIDE DEF byte, arg, rest1
  <2>4. Run(Nibble(byte(x), arg(x)))
    BY KindsRun
  <2>5. First(Nibble(byte(x), arg(x)) \o rest1(x)) = First(Nibble(byte(x), arg(x)))
    BY <2>2, <2>4, ConcatRun
  <2>. QED
    BY <2>1, <2>3, <2>5, FirstBits
<1> SUFFICES ASSUME SameCode(Dequantize_Q5_0(p), Dequantize_Q5_0(q)) PROVE p = q
  OBVIOUS
<1> HIDE DEF byte, arg
<1>2. 8 * byte(p) + 4 * arg(p) = 8 * byte(q) + 4 * arg(q)
  BY <1>1, Zenon DEF SameCode
<1>. QED
  BY <1>2 DEF byte, arg

LEMMA Own_Q5_1 ==
  ASSUME NEW p \in 0 .. 31, NEW q \in 0 .. 31
  PROVE  SameCode(Dequantize_Q5_1(p), Dequantize_Q5_1(q)) => p = q
<1> DEFINE byte(x) == 8 + (x % 16)
           arg(x) == x \div 16
           rest1(x) == Bits(4, x, 1)
<1>1. ASSUME NEW x \in 0 .. 31
      PROVE  First(Dequantize_Q5_1(x).code) = 8 * byte(x) + 4 * arg(x)
  <2>1. byte(x) \in Int /\ arg(x) \in Int
    OBVIOUS
  <2>2. Run(rest1(x))
    BY BitsRun, KindsRun
  <2>3. Dequantize_Q5_1(x).code = Nibble(byte(x), arg(x)) \o rest1(x)
    BY DEF Dequantize_Q5_1, Linear, Coded, Weight, WithMin, HalfNibble
  <2> HIDE DEF byte, arg, rest1
  <2>4. Run(Nibble(byte(x), arg(x)))
    BY KindsRun
  <2>5. First(Nibble(byte(x), arg(x)) \o rest1(x)) = First(Nibble(byte(x), arg(x)))
    BY <2>2, <2>4, ConcatRun
  <2>. QED
    BY <2>1, <2>3, <2>5, FirstBits
<1> SUFFICES ASSUME SameCode(Dequantize_Q5_1(p), Dequantize_Q5_1(q)) PROVE p = q
  OBVIOUS
<1> HIDE DEF byte, arg
<1>2. 8 * byte(p) + 4 * arg(p) = 8 * byte(q) + 4 * arg(q)
  BY <1>1, Zenon DEF SameCode
<1>. QED
  BY <1>2 DEF byte, arg

LEMMA Own_IQ4_NL ==
  ASSUME NEW p \in 0 .. 31, NEW q \in 0 .. 31
  PROVE  SameCode(Dequantize_IQ4_NL(p), Dequantize_IQ4_NL(q)) => p = q
<1> DEFINE byte(x) == 2 + (x % 16)
           arg(x) == x \div 16
<1>1. ASSUME NEW x \in 0 .. 31
      PROVE  First(Dequantize_IQ4_NL(x).code) = 8 * byte(x) + 4 * arg(x)
  <2>1. byte(x) \in Int /\ arg(x) \in Int
    OBVIOUS
  <2>3. Dequantize_IQ4_NL(x).code = Nibble(byte(x), arg(x))
    BY DEF Dequantize_IQ4_NL, Linear, Coded, Weight, WithMin, HalfNibble
  <2> HIDE DEF byte, arg
  <2>. QED
    BY <2>1, <2>3, FirstBits
<1> SUFFICES ASSUME SameCode(Dequantize_IQ4_NL(p), Dequantize_IQ4_NL(q)) PROVE p = q
  OBVIOUS
<1> HIDE DEF byte, arg
<1>2. 8 * byte(p) + 4 * arg(p) = 8 * byte(q) + 4 * arg(q)
  BY <1>1, Zenon DEF SameCode
<1>. QED
  BY <1>2 DEF byte, arg

LEMMA Own_MXFP4 ==
  ASSUME NEW p \in 0 .. 31, NEW q \in 0 .. 31
  PROVE  SameCode(DecodeCpu_MXFP4(p), DecodeCpu_MXFP4(q)) => p = q
<1> DEFINE byte(x) == 0 + (x % 16)
           arg(x) == x \div 16
<1>1. ASSUME NEW x \in 0 .. 31
      PROVE  First(DecodeCpu_MXFP4(x).code) = 8 * byte(x) + 4 * arg(x)
  <2>1. byte(x) \in Int /\ arg(x) \in Int
    OBVIOUS
  <2>3. DecodeCpu_MXFP4(x).code = Nibble(byte(x), arg(x))
    BY DEF DecodeCpu_MXFP4, Linear, Coded, Weight, WithMin, HalfNibble
  <2> HIDE DEF byte, arg
  <2>. QED
    BY <2>1, <2>3, FirstBits
<1> SUFFICES ASSUME SameCode(DecodeCpu_MXFP4(p), DecodeCpu_MXFP4(q)) PROVE p = q
  OBVIOUS
<1> HIDE DEF byte, arg
<1>2. 8 * byte(p) + 4 * arg(p) = 8 * byte(q) + 4 * arg(q)
  BY <1>1, Zenon DEF SameCode
<1>. QED
  BY <1>2 DEF byte, arg

LEMMA Own_Q4_0_ROCMFP4 ==
  ASSUME NEW p \in 0 .. 31, NEW q \in 0 .. 31
  PROVE  SameCode(DequantizeRocm_Q4_0_ROCMFP4(p), DequantizeRocm_Q4_0_ROCMFP4(q)) => p = q
<1> DEFINE byte(x) == 0 + (x % 16)
           arg(x) == x \div 16
<1>1. ASSUME NEW x \in 0 .. 31
      PROVE  First(DequantizeRocm_Q4_0_ROCMFP4(x).code) = 8 * byte(x) + 4 * arg(x)
  <2>1. byte(x) \in Int /\ arg(x) \in Int
    OBVIOUS
  <2>3. DequantizeRocm_Q4_0_ROCMFP4(x).code = Nibble(byte(x), arg(x))
    BY DEF DequantizeRocm_Q4_0_ROCMFP4, Linear, Coded, Weight, WithMin, HalfNibble
  <2> HIDE DEF byte, arg
  <2>. QED
    BY <2>1, <2>3, FirstBits
<1> SUFFICES ASSUME SameCode(DequantizeRocm_Q4_0_ROCMFP4(p), DequantizeRocm_Q4_0_ROCMFP4(q))
             PROVE p = q
  OBVIOUS
<1> HIDE DEF byte, arg
<1>2. 8 * byte(p) + 4 * arg(p) = 8 * byte(q) + 4 * arg(q)
  BY <1>1, Zenon DEF SameCode
<1>. QED
  BY <1>2 DEF byte, arg

LEMMA Own_Q4_0_ROCMFP4_FAST ==
  ASSUME NEW p \in 0 .. 31, NEW q \in 0 .. 31
  PROVE  SameCode(DequantizeRocm_Q4_0_ROCMFP4_FAST(p), DequantizeRocm_Q4_0_ROCMFP4_FAST(q)) => p = q
<1> DEFINE byte(x) == 0 + (x % 16)
           arg(x) == x \div 16
<1>1. ASSUME NEW x \in 0 .. 31
      PROVE  First(DequantizeRocm_Q4_0_ROCMFP4_FAST(x).code) = 8 * byte(x) + 4 * arg(x)
  <2>1. byte(x) \in Int /\ arg(x) \in Int
    OBVIOUS
  <2>3. DequantizeRocm_Q4_0_ROCMFP4_FAST(x).code = Nibble(byte(x), arg(x))
    BY DEF DequantizeRocm_Q4_0_ROCMFP4_FAST, Linear, Coded, Weight, WithMin, HalfNibble
  <2> HIDE DEF byte, arg
  <2>. QED
    BY <2>1, <2>3, FirstBits
<1> SUFFICES ASSUME SameCode(DequantizeRocm_Q4_0_ROCMFP4_FAST(p),
               DequantizeRocm_Q4_0_ROCMFP4_FAST(q))
             PROVE p = q
  OBVIOUS
<1> HIDE DEF byte, arg
<1>2. 8 * byte(p) + 4 * arg(p) = 8 * byte(q) + 4 * arg(q)
  BY <1>1, Zenon DEF SameCode
<1>. QED
  BY <1>2 DEF byte, arg

LEMMA Own_Q8_0 ==
  ASSUME NEW p \in 0 .. 31, NEW q \in 0 .. 31
  PROVE  SameCode(Dequantize_Q8_0(p), Dequantize_Q8_0(q)) => p = q
<1> DEFINE byte(x) == 2 + x
<1>1. ASSUME NEW x \in 0 .. 31
      PROVE  First(Dequantize_Q8_0(x).code) = 8 * byte(x)
  <2>1. byte(x) \in Int
    OBVIOUS
  <2>3. Dequantize_Q8_0(x).code = Byte(byte(x))
    BY DEF Dequantize_Q8_0, Linear, Coded, Weight, WithMin, HalfNibble
  <2> HIDE DEF byte
  <2>. QED
    BY <2>1, <2>3, FirstBits
<1> SUFFICES ASSUME SameCode(Dequantize_Q8_0(p), Dequantize_Q8_0(q)) PROVE p = q
  OBVIOUS
<1> HIDE DEF byte
<1>2. 8 * byte(p) = 8 * byte(q)
  BY <1>1, Zenon DEF SameCode
<1>. QED
  BY <1>2 DEF byte

LEMMA Own_Q8_1 ==
  ASSUME NEW p \in 0 .. 31, NEW q \in 0 .. 31
  PROVE  SameCode(Dequantize_Q8_1(p), Dequantize_Q8_1(q)) => p = q
<1> DEFINE byte(x) == 4 + x
<1>1. ASSUME NEW x \in 0 .. 31
      PROVE  First(Dequantize_Q8_1(x).code) = 8 * byte(x)
  <2>1. byte(x) \in Int
    OBVIOUS
  <2>3. Dequantize_Q8_1(x).code = Byte(byte(x))
    BY DEF Dequantize_Q8_1, Linear, Coded, Weight, WithMin, HalfNibble
  <2> HIDE DEF byte
  <2>. QED
    BY <2>1, <2>3, FirstBits
<1> SUFFICES ASSUME SameCode(Dequantize_Q8_1(p), Dequantize_Q8_1(q)) PROVE p = q
  OBVIOUS
<1> HIDE DEF byte
<1>2. 8 * byte(p) = 8 * byte(q)
  BY <1>1, Zenon DEF SameCode
<1>. QED
  BY <1>2 DEF byte

LEMMA Own_Q8_0_ROCMFPX ==
  ASSUME NEW p \in 0 .. 31, NEW q \in 0 .. 31
  PROVE  SameCode(DequantizeRocm_Q8_0_ROCMFPX(p), DequantizeRocm_Q8_0_ROCMFPX(q)) => p = q
<1> DEFINE byte(x) == x
<1>1. ASSUME NEW x \in 0 .. 31
      PROVE  First(DequantizeRocm_Q8_0_ROCMFPX(x).code) = 8 * byte(x)
  <2>1. byte(x) \in Int
    OBVIOUS
  <2>3. DequantizeRocm_Q8_0_ROCMFPX(x).code = Byte(byte(x))
    BY DEF DequantizeRocm_Q8_0_ROCMFPX, Linear, Coded, Weight, WithMin, HalfNibble
  <2> HIDE DEF byte
  <2>. QED
    BY <2>1, <2>3, FirstBits
<1> SUFFICES ASSUME SameCode(DequantizeRocm_Q8_0_ROCMFPX(p), DequantizeRocm_Q8_0_ROCMFPX(q))
             PROVE p = q
  OBVIOUS
<1> HIDE DEF byte
<1>2. 8 * byte(p) = 8 * byte(q)
  BY <1>1, Zenon DEF SameCode
<1>. QED
  BY <1>2 DEF byte

LEMMA Own_Q2_K ==
  ASSUME NEW p \in 0 .. 255, NEW q \in 0 .. 255
  PROVE  SameCode(Dequantize_Q2_K(p), Dequantize_Q2_K(q)) => p = q
<1> DEFINE byte(x) == 16 + 32 * (x \div 128) + (x % 32)
           arg(x) == (x % 128) \div 32
<1>1. ASSUME NEW x \in 0 .. 255
      PROVE  First(Dequantize_Q2_K(x).code) = 8 * byte(x) + 2 * arg(x)
  <2>1. byte(x) \in Int /\ arg(x) \in Int
    OBVIOUS
  <2>3. Dequantize_Q2_K(x).code = Pair(byte(x), arg(x))
    BY DEF Dequantize_Q2_K, Linear, Coded, Weight, WithMin, HalfNibble
  <2> HIDE DEF byte, arg
  <2>. QED
    BY <2>1, <2>3, FirstBits
<1> SUFFICES ASSUME SameCode(Dequantize_Q2_K(p), Dequantize_Q2_K(q)) PROVE p = q
  OBVIOUS
<1> HIDE DEF byte, arg
<1>2. 8 * byte(p) + 2 * arg(p) = 8 * byte(q) + 2 * arg(q)
  BY <1>1, Zenon DEF SameCode
<1>3. PICK a \in 0 .. 1, b \in 0 .. 1, c \in 0 .. 1, d \in 0 .. 1, r \in 0 .. 15 :
            Places(p, a, b, c, d, r)
  BY Digits
<1>4. PICK a1 \in 0 .. 1, b1 \in 0 .. 1, c1 \in 0 .. 1, d1 \in 0 .. 1, r1 \in 0 .. 15 :
            Places(q, a1, b1, c1, d1, r1)
  BY Digits
<1>5. /\ p = 128 * a + 64 * b + 32 * c + 16 * d + r
      /\ q = 128 * a1 + 64 * b1 + 32 * c1 + 16 * d1 + r1
      /\ byte(p) = 16 + 32 * (a) + (16 * d + r)
      /\ arg(p) = 2 * b + c
      /\ byte(q) = 16 + 32 * (a1) + (16 * d1 + r1)
      /\ arg(q) = 2 * b1 + c1
  BY <1>3, <1>4, Zenon DEF Places, byte, arg
<1>. QED
  BY <1>2, <1>5

LEMMA Own_Q3_K ==
  ASSUME NEW p \in 0 .. 255, NEW q \in 0 .. 255
  PROVE  SameCode(Dequantize_Q3_K(p), Dequantize_Q3_K(q)) => p = q
<1> DEFINE byte(x) == 32 + 32 * (x \div 128) + (16 * ((x % 32) \div 16) + (x % 16))
           arg(x) == (x % 128) \div 32
           rest1(x) == Bits(16 * ((x % 32) \div 16) + (x % 16),
             4 * (x \div 128) + (x % 128) \div 32, 1)
<1>1. ASSUME NEW x \in 0 .. 255
      PROVE  First(Dequantize_Q3_K(x).code) = 8 * byte(x) + 2 * arg(x)
  <2>1. byte(x) \in Int /\ arg(x) \in Int
    OBVIOUS
  <2>2. Run(rest1(x))
    BY BitsRun, KindsRun
  <2>3. Dequantize_Q3_K(x).code = Pair(byte(x), arg(x)) \o rest1(x)
    BY DEF Dequantize_Q3_K, Linear, Coded, Weight, WithMin, HalfNibble
  <2> HIDE DEF byte, arg, rest1
  <2>4. Run(Pair(byte(x), arg(x)))
    BY KindsRun
  <2>5. First(Pair(byte(x), arg(x)) \o rest1(x)) = First(Pair(byte(x), arg(x)))
    BY <2>2, <2>4, ConcatRun
  <2>. QED
    BY <2>1, <2>3, <2>5, FirstBits
<1> SUFFICES ASSUME SameCode(Dequantize_Q3_K(p), Dequantize_Q3_K(q)) PROVE p = q
  OBVIOUS
<1> HIDE DEF byte, arg
<1>2. 8 * byte(p) + 2 * arg(p) = 8 * byte(q) + 2 * arg(q)
  BY <1>1, Zenon DEF SameCode
<1>3. PICK a \in 0 .. 1, b \in 0 .. 1, c \in 0 .. 1, d \in 0 .. 1, r \in 0 .. 15 :
            Places(p, a, b, c, d, r)
  BY Digits
<1>4. PICK a1 \in 0 .. 1, b1 \in 0 .. 1, c1 \in 0 .. 1, d1 \in 0 .. 1, r1 \in 0 .. 15 :
            Places(q, a1, b1, c1, d1, r1)
  BY Digits
<1>5. /\ p = 128 * a + 64 * b + 32 * c + 16 * d + r
      /\ q = 128 * a1 + 64 * b1 + 32 * c1 + 16 * d1 + r1
      /\ byte(p) = 32 + 32 * (a) + (16 * (d) + (r))
      /\ arg(p) = 2 * b + c
      /\ byte(q) = 32 + 32 * (a1) + (16 * (d1) + (r1))
      /\ arg(q) = 2 * b1 + c1
  BY <1>3, <1>4, Zenon DEF Places, byte, arg
<1>. QED
  BY <1>2, <1>5

LEMMA Own_Q4_K ==
  ASSUME NEW p \in 0 .. 255, NEW q \in 0 .. 255
  PROVE  SameCode(Dequantize_Q4_K(p), Dequantize_Q4_K(q)) => p = q
<1> DEFINE byte(x) == 16 + 32 * (x \div 64) + (x % 32)
           arg(x) == (x % 64) \div 32
<1>1. ASSUME NEW x \in 0 .. 255
      PROVE  First(Dequantize_Q4_K(x).code) = 8 * byte(x) + 4 * arg(x)
  <2>1. byte(x) \in Int /\ arg(x) \in Int
    OBVIOUS
  <2>3. Dequantize_Q4_K(x).code = Nibble(byte(x), arg(x))
    BY DEF Dequantize_Q4_K, Linear, Coded, Weight, WithMin, HalfNibble
  <2> HIDE DEF byte, arg
  <2>. QED
    BY <2>1, <2>3, FirstBits
<1> SUFFICES ASSUME SameCode(Dequantize_Q4_K(p), Dequantize_Q4_K(q)) PROVE p = q
  OBVIOUS
<1> HIDE DEF byte, arg
<1>2. 8 * byte(p) + 4 * arg(p) = 8 * byte(q) + 4 * arg(q)
  BY <1>1, Zenon DEF SameCode
<1>3. PICK a \in 0 .. 1, b \in 0 .. 1, c \in 0 .. 1, d \in 0 .. 1, r \in 0 .. 15 :
            Places(p, a, b, c, d, r)
  BY Digits
<1>4. PICK a1 \in 0 .. 1, b1 \in 0 .. 1, c1 \in 0 .. 1, d1 \in 0 .. 1, r1 \in 0 .. 15 :
            Places(q, a1, b1, c1, d1, r1)
  BY Digits
<1>5. /\ p = 128 * a + 64 * b + 32 * c + 16 * d + r
      /\ q = 128 * a1 + 64 * b1 + 32 * c1 + 16 * d1 + r1
      /\ byte(p) = 16 + 32 * (2 * a + b) + (16 * d + r)
      /\ arg(p) = c
      /\ byte(q) = 16 + 32 * (2 * a1 + b1) + (16 * d1 + r1)
      /\ arg(q) = c1
  BY <1>3, <1>4, Zenon DEF Places, byte, arg
<1>. QED
  BY <1>2, <1>5

LEMMA Own_Q5_K ==
  ASSUME NEW p \in 0 .. 255, NEW q \in 0 .. 255
  PROVE  SameCode(Dequantize_Q5_K(p), Dequantize_Q5_K(q)) => p = q
<1> DEFINE byte(x) == 48 + 32 * (x \div 64) + (x % 32)
           arg(x) == (x % 64) \div 32
           rest1(x) == Bits(16 + (x % 32), 2 * (x \div 64) + (x % 64) \div 32, 1)
<1>1. ASSUME NEW x \in 0 .. 255
      PROVE  First(Dequantize_Q5_K(x).code) = 8 * byte(x) + 4 * arg(x)
  <2>1. byte(x) \in Int /\ arg(x) \in Int
    OBVIOUS
  <2>2. Run(rest1(x))
    BY BitsRun, KindsRun
  <2>3. Dequantize_Q5_K(x).code = Nibble(byte(x), arg(x)) \o rest1(x)
    BY DEF Dequantize_Q5_K, Linear, Coded, Weight, WithMin, HalfNibble
  <2> HIDE DEF byte, arg, rest1
  <2>4. Run(Nibble(byte(x), arg(x)))
    BY KindsRun
  <2>5. First(Nibble(byte(x), arg(x)) \o rest1(x)) = First(Nibble(byte(x), arg(x)))
    BY <2>2, <2>4, ConcatRun
  <2>. QED
    BY <2>1, <2>3, <2>5, FirstBits
<1> SUFFICES ASSUME SameCode(Dequantize_Q5_K(p), Dequantize_Q5_K(q)) PROVE p = q
  OBVIOUS
<1> HIDE DEF byte, arg
<1>2. 8 * byte(p) + 4 * arg(p) = 8 * byte(q) + 4 * arg(q)
  BY <1>1, Zenon DEF SameCode
<1>3. PICK a \in 0 .. 1, b \in 0 .. 1, c \in 0 .. 1, d \in 0 .. 1, r \in 0 .. 15 :
            Places(p, a, b, c, d, r)
  BY Digits
<1>4. PICK a1 \in 0 .. 1, b1 \in 0 .. 1, c1 \in 0 .. 1, d1 \in 0 .. 1, r1 \in 0 .. 15 :
            Places(q, a1, b1, c1, d1, r1)
  BY Digits
<1>5. /\ p = 128 * a + 64 * b + 32 * c + 16 * d + r
      /\ q = 128 * a1 + 64 * b1 + 32 * c1 + 16 * d1 + r1
      /\ byte(p) = 48 + 32 * (2 * a + b) + (16 * d + r)
      /\ arg(p) = c
      /\ byte(q) = 48 + 32 * (2 * a1 + b1) + (16 * d1 + r1)
      /\ arg(q) = c1
  BY <1>3, <1>4, Zenon DEF Places, byte, arg
<1>. QED
  BY <1>2, <1>5

LEMMA Own_Q6_K ==
  ASSUME NEW p \in 0 .. 255, NEW q \in 0 .. 255
  PROVE  SameCode(Dequantize_Q6_K(p), Dequantize_Q6_K(q)) => p = q
<1> DEFINE byte(x) == 64 * (x \div 128) + (IF ((x % 128) \div 32) % 2 = 1 THEN 32 ELSE 0)
             + (16 * ((x % 32) \div 16) + (x % 16))
           arg(x) == IF (x % 128) \div 32 < 2 THEN 0 ELSE 1
           rest1(x) == Pair(128 + 32 * (x \div 128) + (16 * ((x % 32) \div 16) + (x % 16)),
             (x % 128) \div 32)
<1>1. ASSUME NEW x \in 0 .. 255
      PROVE  First(Dequantize_Q6_K(x).code) = 8 * byte(x) + 4 * arg(x)
  <2>1. byte(x) \in Int /\ arg(x) \in Int
    OBVIOUS
  <2>2. Run(rest1(x))
    BY BitsRun, KindsRun
  <2>3. Dequantize_Q6_K(x).code = Nibble(byte(x), arg(x)) \o rest1(x)
    BY DEF Dequantize_Q6_K, Linear, Coded, Weight, WithMin, HalfNibble
  <2> HIDE DEF byte, arg, rest1
  <2>4. Run(Nibble(byte(x), arg(x)))
    BY KindsRun
  <2>5. First(Nibble(byte(x), arg(x)) \o rest1(x)) = First(Nibble(byte(x), arg(x)))
    BY <2>2, <2>4, ConcatRun
  <2>. QED
    BY <2>1, <2>3, <2>5, FirstBits
<1> SUFFICES ASSUME SameCode(Dequantize_Q6_K(p), Dequantize_Q6_K(q)) PROVE p = q
  OBVIOUS
<1> HIDE DEF byte, arg
<1>2. 8 * byte(p) + 4 * arg(p) = 8 * byte(q) + 4 * arg(q)
  BY <1>1, Zenon DEF SameCode
<1>3. PICK a \in 0 .. 1, b \in 0 .. 1, c \in 0 .. 1, d \in 0 .. 1, r \in 0 .. 15 :
            Places(p, a, b, c, d, r)
  BY Digits
<1>4. PICK a1 \in 0 .. 1, b1 \in 0 .. 1, c1 \in 0 .. 1, d1 \in 0 .. 1, r1 \in 0 .. 15 :
            Places(q, a1, b1, c1, d1, r1)
  BY Digits
<1>5. /\ p = 128 * a + 64 * b + 32 * c + 16 * d + r
      /\ q = 128 * a1 + 64 * b1 + 32 * c1 + 16 * d1 + r1
      /\ byte(p) = 64 * (a) + (IF c = 1 THEN 32 ELSE 0) + (16 * (d) + (r))
      /\ arg(p) = IF 2 * b + c < 2 THEN 0 ELSE 1
      /\ byte(q) = 64 * (a1) + (IF c1 = 1 THEN 32 ELSE 0) + (16 * (d1) + (r1))
      /\ arg(q) = IF 2 * b1 + c1 < 2 THEN 0 ELSE 1
  BY <1>3, <1>4 DEF Places, byte, arg
<1>. QED
  BY <1>2, <1>5

LEMMA Own_IQ4_XS ==
  ASSUME NEW p \in 0 .. 255, NEW q \in 0 .. 255
  PROVE  SameCode(Dequantize_IQ4_XS(p), Dequantize_IQ4_XS(q)) => p = q
<1> DEFINE byte(x) == 8 + 16 * (x \div 32) + ((x % 32) % 16)
           arg(x) == (x % 32) \div 16
<1>1. ASSUME NEW x \in 0 .. 255
      PROVE  First(Dequantize_IQ4_XS(x).code) = 8 * byte(x) + 4 * arg(x)
  <2>1. byte(x) \in Int /\ arg(x) \in Int
    OBVIOUS
  <2>3. Dequantize_IQ4_XS(x).code = Nibble(byte(x), arg(x))
    BY DEF Dequantize_IQ4_XS, Linear, Coded, Weight, WithMin, HalfNibble
  <2> HIDE DEF byte, arg
  <2>. QED
    BY <2>1, <2>3, FirstBits
<1> SUFFICES ASSUME SameCode(Dequantize_IQ4_XS(p), Dequantize_IQ4_XS(q)) PROVE p = q
  OBVIOUS
<1> HIDE DEF byte, arg
<1>2. 8 * byte(p) + 4 * arg(p) = 8 * byte(q) + 4 * arg(q)
  BY <1>1, Zenon DEF SameCode
<1>3. PICK a \in 0 .. 1, b \in 0 .. 1, c \in 0 .. 1, d \in 0 .. 1, r \in 0 .. 15 :
            Places(p, a, b, c, d, r)
  BY Digits
<1>4. PICK a1 \in 0 .. 1, b1 \in 0 .. 1, c1 \in 0 .. 1, d1 \in 0 .. 1, r1 \in 0 .. 15 :
            Places(q, a1, b1, c1, d1, r1)
  BY Digits
<1>5. /\ p = 128 * a + 64 * b + 32 * c + 16 * d + r
      /\ q = 128 * a1 + 64 * b1 + 32 * c1 + 16 * d1 + r1
      /\ byte(p) = 8 + 16 * (4 * a + 2 * b + c) + (r)
      /\ arg(p) = d
      /\ byte(q) = 8 + 16 * (4 * a1 + 2 * b1 + c1) + (r1)
      /\ arg(q) = d1
  BY <1>3, <1>4, Zenon DEF Places, byte, arg
<1> DEFINE n == 4 * a + 2 * b + c  n1 == 4 * a1 + 2 * b1 + c1
<1>6. n \in 0 .. 7 /\ n1 \in 0 .. 7 /\ p = 32 * n + 16 * d + r /\ q = 32 * n1 + 16 * d1 + r1
  BY <1>5
<1>7. 8 * (16 * n + r) + 4 * d = 8 * (16 * n1 + r1) + 4 * d1
  BY <1>2, <1>5
<1> HIDE DEF n, n1
<1>8. 16 * n + r = 16 * n1 + r1 /\ d = d1
  BY <1>6, <1>7
<1>9. n = n1 /\ r = r1
  BY <1>6, <1>8
<1>. QED
  BY <1>6, <1>8, <1>9

LEMMA Own_IQ1_M ==
  ASSUME NEW p \in 0 .. 255, NEW q \in 0 .. 255
  PROVE  SameCode(Dequantize_IQ1_M(p), Dequantize_IQ1_M(q)) => p = q
<1> DEFINE byte(x) == 4 * (x \div 32) + ((x % 32) \div 8)
           lane(x) == x % 8
           rest1(x) == SubSeq(Nibble(32 + 2 * (x \div 32) + ((x % 32) \div 8) \div 2,
             ((x % 32) \div 8) % 2), 1, 3)
<1>1. ASSUME NEW x \in 0 .. 255
      PROVE  First(Dequantize_IQ1_M(x).code) = 8 * byte(x) /\ Dequantize_IQ1_M(x).lane = lane(x)
  <2>1. byte(x) \in Int
    OBVIOUS
  <2> DEFINE b == 32 + 2 * (x \div 32) + ((x % 32) \div 8) \div 2  h == ((x % 32) \div 8) % 2
  <2>b. b \in Int /\ h \in Int
    OBVIOUS
  <2>r. rest1(x) = SubSeq(Nibble(b, h), 1, 3)
    OBVIOUS
  <2> HIDE DEF b, h, rest1
  <2>2. Run(rest1(x))
    <3>1. rest1(x) = Bits(b, 4 * h, 3)
      BY <2>b, <2>r, NibbleParts
    <3>. QED
      BY <3>1, BitsRun
  <2> USE DEF b, h, rest1
  <2>6. Dequantize_IQ1_M(x).lane = lane(x)
    BY DEF Dequantize_IQ1_M, Linear, Coded, Weight, WithMin
  <2>3. Dequantize_IQ1_M(x).code = Byte(byte(x)) \o rest1(x)
    BY DEF Dequantize_IQ1_M, Linear, Coded, Weight, WithMin, HalfNibble
  <2> HIDE DEF byte, lane, rest1
  <2>4. Run(Byte(byte(x)))
    BY KindsRun
  <2>5. First(Byte(byte(x)) \o rest1(x)) = First(Byte(byte(x)))
    BY <2>2, <2>4, ConcatRun
  <2>. QED
    BY <2>1, <2>3, <2>6, <2>5, FirstBits
<1> SUFFICES ASSUME SameCode(Dequantize_IQ1_M(p), Dequantize_IQ1_M(q)) PROVE p = q
  OBVIOUS
<1> HIDE DEF byte, lane
<1>2. 8 * byte(p) = 8 * byte(q) /\ lane(p) = lane(q)
  BY <1>1, Zenon DEF SameCode
<1>. QED
  BY <1>2 DEF byte, lane

LEMMA Own_IQ1_S ==
  ASSUME NEW p \in 0 .. 255, NEW q \in 0 .. 255
  PROVE  SameCode(Dequantize_IQ1_S(p), Dequantize_IQ1_S(q)) => p = q
<1> DEFINE byte(x) == 2 + 4 * (x \div 32) + ((x % 32) \div 8)
           lane(x) == x % 8
           rest1(x) == Bits(34 + 2 * (x \div 32), 3 * ((x % 32) \div 8), 3)
<1>1. ASSUME NEW x \in 0 .. 255
      PROVE  First(Dequantize_IQ1_S(x).code) = 8 * byte(x) /\ Dequantize_IQ1_S(x).lane = lane(x)
  <2>1. byte(x) \in Int
    OBVIOUS
  <2>2. Run(rest1(x))
    BY BitsRun, KindsRun
  <2>6. Dequantize_IQ1_S(x).lane = lane(x)
    BY DEF Dequantize_IQ1_S, Linear, Coded, Weight, WithMin
  <2>3. Dequantize_IQ1_S(x).code = Byte(byte(x)) \o rest1(x)
    BY DEF Dequantize_IQ1_S, Linear, Coded, Weight, WithMin, HalfNibble
  <2> HIDE DEF byte, lane, rest1
  <2>4. Run(Byte(byte(x)))
    BY KindsRun
  <2>5. First(Byte(byte(x)) \o rest1(x)) = First(Byte(byte(x)))
    BY <2>2, <2>4, ConcatRun
  <2>. QED
    BY <2>1, <2>3, <2>6, <2>5, FirstBits
<1> SUFFICES ASSUME SameCode(Dequantize_IQ1_S(p), Dequantize_IQ1_S(q)) PROVE p = q
  OBVIOUS
<1> HIDE DEF byte, lane
<1>2. 8 * byte(p) = 8 * byte(q) /\ lane(p) = lane(q)
  BY <1>1, Zenon DEF SameCode
<1>. QED
  BY <1>2 DEF byte, lane

LEMMA Own_IQ2_S ==
  ASSUME NEW p \in 0 .. 255, NEW q \in 0 .. 255
  PROVE  SameCode(Dequantize_IQ2_S(p), Dequantize_IQ2_S(q)) => p = q
<1> DEFINE byte(x) == 2 + 4 * (x \div 32) + ((x % 32) \div 8)
           lane(x) == x % 8
           rest1(x) == Pair(66 + (x \div 32), ((x % 32) \div 8))
<1>1. ASSUME NEW x \in 0 .. 255
      PROVE  First(Dequantize_IQ2_S(x).code) = 8 * byte(x) /\ Dequantize_IQ2_S(x).lane = lane(x)
  <2>1. byte(x) \in Int
    OBVIOUS
  <2>2. Run(rest1(x))
    BY BitsRun, KindsRun
  <2>6. Dequantize_IQ2_S(x).lane = lane(x)
    BY DEF Dequantize_IQ2_S, Linear, Coded, Weight, WithMin
  <2>3. Dequantize_IQ2_S(x).code = Byte(byte(x)) \o rest1(x)
    BY DEF Dequantize_IQ2_S, Linear, Coded, Weight, WithMin, HalfNibble
  <2> HIDE DEF byte, lane, rest1
  <2>4. Run(Byte(byte(x)))
    BY KindsRun
  <2>5. First(Byte(byte(x)) \o rest1(x)) = First(Byte(byte(x)))
    BY <2>2, <2>4, ConcatRun
  <2>. QED
    BY <2>1, <2>3, <2>6, <2>5, FirstBits
<1> SUFFICES ASSUME SameCode(Dequantize_IQ2_S(p), Dequantize_IQ2_S(q)) PROVE p = q
  OBVIOUS
<1> HIDE DEF byte, lane
<1>2. 8 * byte(p) = 8 * byte(q) /\ lane(p) = lane(q)
  BY <1>1, Zenon DEF SameCode
<1>. QED
  BY <1>2 DEF byte, lane

LEMMA Own_IQ2_XXS ==
  ASSUME NEW p \in 0 .. 255, NEW q \in 0 .. 255
  PROVE  SameCode(Dequantize_IQ2_XXS(p), Dequantize_IQ2_XXS(q)) => p = q
<1> DEFINE byte(x) == 2 + 8 * (x \div 32) + ((x % 32) \div 8)
           lane(x) == x % 8
<1>1. ASSUME NEW x \in 0 .. 255
      PROVE  First(Dequantize_IQ2_XXS(x).code) = 8 * byte(x) /\ Dequantize_IQ2_XXS(x).lane = lane(x)
  <2>1. byte(x) \in Int
    OBVIOUS
  <2>6. Dequantize_IQ2_XXS(x).lane = lane(x)
    BY DEF Dequantize_IQ2_XXS, Linear, Coded, Weight, WithMin
  <2>3. Dequantize_IQ2_XXS(x).code = Byte(byte(x))
    BY DEF Dequantize_IQ2_XXS, Linear, Coded, Weight, WithMin, HalfNibble
  <2> HIDE DEF byte, lane
  <2>. QED
    BY <2>1, <2>3, <2>6, FirstBits
<1> SUFFICES ASSUME SameCode(Dequantize_IQ2_XXS(p), Dequantize_IQ2_XXS(q)) PROVE p = q
  OBVIOUS
<1> HIDE DEF byte, lane
<1>2. 8 * byte(p) = 8 * byte(q) /\ lane(p) = lane(q)
  BY <1>1, Zenon DEF SameCode
<1>. QED
  BY <1>2 DEF byte, lane

LEMMA Own_IQ3_S ==
  ASSUME NEW p \in 0 .. 255, NEW q \in 0 .. 255
  PROVE  SameCode(Dequantize_IQ3_S(p), Dequantize_IQ3_S(q)) => p = q
<1> DEFINE byte(x) == 2 + 8 * (x \div 32) + 2 * ((x % 32) \div 8) + (x % 8) \div 4
           lane(x) == (x % 8) % 4
           rest1(x) == Bits(66 + (x \div 32), 2 * ((x % 32) \div 8) + (x % 8) \div 4, 1)
<1>1. ASSUME NEW x \in 0 .. 255
      PROVE  First(Dequantize_IQ3_S(x).code) = 8 * byte(x) /\ Dequantize_IQ3_S(x).lane = lane(x)
  <2>1. byte(x) \in Int
    OBVIOUS
  <2>2. Run(rest1(x))
    BY BitsRun, KindsRun
  <2>6. Dequantize_IQ3_S(x).lane = lane(x)
    BY DEF Dequantize_IQ3_S, Linear, Coded, Weight, WithMin
  <2>3. Dequantize_IQ3_S(x).code = Byte(byte(x)) \o rest1(x)
    BY DEF Dequantize_IQ3_S, Linear, Coded, Weight, WithMin, HalfNibble
  <2> HIDE DEF byte, lane, rest1
  <2>4. Run(Byte(byte(x)))
    BY KindsRun
  <2>5. First(Byte(byte(x)) \o rest1(x)) = First(Byte(byte(x)))
    BY <2>2, <2>4, ConcatRun
  <2>. QED
    BY <2>1, <2>3, <2>6, <2>5, FirstBits
<1> SUFFICES ASSUME SameCode(Dequantize_IQ3_S(p), Dequantize_IQ3_S(q)) PROVE p = q
  OBVIOUS
<1> HIDE DEF byte, lane
<1>2. 8 * byte(p) = 8 * byte(q) /\ lane(p) = lane(q)
  BY <1>1, Zenon DEF SameCode
<1>. QED
  BY <1>2 DEF byte, lane

LEMMA Own_IQ3_XXS ==
  ASSUME NEW p \in 0 .. 255, NEW q \in 0 .. 255
  PROVE  SameCode(Dequantize_IQ3_XXS(p), Dequantize_IQ3_XXS(q)) => p = q
<1> DEFINE byte(x) == 2 + 8 * (x \div 32) + 2 * ((x % 32) \div 8) + (x % 8) \div 4
           lane(x) == (x % 8) % 4
<1>1. ASSUME NEW x \in 0 .. 255
      PROVE  First(Dequantize_IQ3_XXS(x).code) = 8 * byte(x) /\ Dequantize_IQ3_XXS(x).lane = lane(x)
  <2>1. byte(x) \in Int
    OBVIOUS
  <2>6. Dequantize_IQ3_XXS(x).lane = lane(x)
    BY DEF Dequantize_IQ3_XXS, Linear, Coded, Weight, WithMin
  <2>3. Dequantize_IQ3_XXS(x).code = Byte(byte(x))
    BY DEF Dequantize_IQ3_XXS, Linear, Coded, Weight, WithMin, HalfNibble
  <2> HIDE DEF byte, lane
  <2>. QED
    BY <2>1, <2>3, <2>6, FirstBits
<1> SUFFICES ASSUME SameCode(Dequantize_IQ3_XXS(p), Dequantize_IQ3_XXS(q)) PROVE p = q
  OBVIOUS
<1> HIDE DEF byte, lane
<1>2. 8 * byte(p) = 8 * byte(q) /\ lane(p) = lane(q)
  BY <1>1, Zenon DEF SameCode
<1>. QED
  BY <1>2 DEF byte, lane

LEMMA Own_Q2_0 ==
  ASSUME NEW p \in 0 .. 63, NEW q \in 0 .. 63
  PROVE  SameCode(DequantizeLlama_Q2_0(p), DequantizeLlama_Q2_0(q)) => p = q
<1> DEFINE byte(x) == 2 + x \div 4
           arg(x) == x % 4
<1>1. ASSUME NEW x \in 0 .. 63
      PROVE  First(DequantizeLlama_Q2_0(x).code) = 8 * byte(x) + 2 * arg(x)
  <2>1. byte(x) \in Int /\ arg(x) \in Int
    OBVIOUS
  <2>3. DequantizeLlama_Q2_0(x).code = Pair(byte(x), arg(x))
    BY DEF DequantizeLlama_Q2_0, Linear, Coded, Weight, WithMin, HalfNibble
  <2> HIDE DEF byte, arg
  <2>. QED
    BY <2>1, <2>3, FirstBits
<1> SUFFICES ASSUME SameCode(DequantizeLlama_Q2_0(p), DequantizeLlama_Q2_0(q)) PROVE p = q
  OBVIOUS
<1> HIDE DEF byte, arg
<1>2. 8 * byte(p) + 2 * arg(p) = 8 * byte(q) + 2 * arg(q)
  BY <1>1, Zenon DEF SameCode
<1>. QED
  BY <1>2 DEF byte, arg

LEMMA Own_TQ2_0 ==
  ASSUME NEW p \in 0 .. 255, NEW q \in 0 .. 255
  PROVE  SameCode(DequantizeLlama_TQ2_0(p), DequantizeLlama_TQ2_0(q)) => p = q
<1> DEFINE byte(x) == 32 * (x \div 128) + (x % 32)
           arg(x) == (x % 128) \div 32
<1>1. ASSUME NEW x \in 0 .. 255
      PROVE  First(DequantizeLlama_TQ2_0(x).code) = 8 * byte(x) + 2 * arg(x)
  <2>1. byte(x) \in Int /\ arg(x) \in Int
    OBVIOUS
  <2>3. DequantizeLlama_TQ2_0(x).code = Pair(byte(x), arg(x))
    BY DEF DequantizeLlama_TQ2_0, Linear, Coded, Weight, WithMin, HalfNibble
  <2> HIDE DEF byte, arg
  <2>. QED
    BY <2>1, <2>3, FirstBits
<1> SUFFICES ASSUME SameCode(DequantizeLlama_TQ2_0(p), DequantizeLlama_TQ2_0(q)) PROVE p = q
  OBVIOUS
<1> HIDE DEF byte, arg
<1>2. 8 * byte(p) + 2 * arg(p) = 8 * byte(q) + 2 * arg(q)
  BY <1>1, Zenon DEF SameCode
<1>3. PICK a \in 0 .. 1, b \in 0 .. 1, c \in 0 .. 1, d \in 0 .. 1, r \in 0 .. 15 :
            Places(p, a, b, c, d, r)
  BY Digits
<1>4. PICK a1 \in 0 .. 1, b1 \in 0 .. 1, c1 \in 0 .. 1, d1 \in 0 .. 1, r1 \in 0 .. 15 :
            Places(q, a1, b1, c1, d1, r1)
  BY Digits
<1>5. /\ p = 128 * a + 64 * b + 32 * c + 16 * d + r
      /\ q = 128 * a1 + 64 * b1 + 32 * c1 + 16 * d1 + r1
      /\ byte(p) = 32 * (a) + (16 * d + r)
      /\ arg(p) = 2 * b + c
      /\ byte(q) = 32 * (a1) + (16 * d1 + r1)
      /\ arg(q) = 2 * b1 + c1
  BY <1>3, <1>4, Zenon DEF Places, byte, arg
<1>. QED
  BY <1>2, <1>5

LEMMA Own_Q2_0_ROCMFPX ==
  ASSUME NEW p \in 0 .. 31, NEW q \in 0 .. 31
  PROVE  SameCode(DequantizeRocm_Q2_0_ROCMFPX(p), DequantizeRocm_Q2_0_ROCMFPX(q)) => p = q
<1> DEFINE byte(x) == x \div 4
           arg(x) == x % 4
<1>1. ASSUME NEW x \in 0 .. 31
      PROVE  First(DequantizeRocm_Q2_0_ROCMFPX(x).code) = 8 * byte(x) + 2 * arg(x)
  <2>1. byte(x) \in Int /\ arg(x) \in Int
    OBVIOUS
  <2>3. DequantizeRocm_Q2_0_ROCMFPX(x).code = Pair(byte(x), arg(x))
    BY DEF DequantizeRocm_Q2_0_ROCMFPX, Linear, Coded, Weight, WithMin, HalfNibble
  <2> HIDE DEF byte, arg
  <2>. QED
    BY <2>1, <2>3, FirstBits
<1> SUFFICES ASSUME SameCode(DequantizeRocm_Q2_0_ROCMFPX(p), DequantizeRocm_Q2_0_ROCMFPX(q))
             PROVE p = q
  OBVIOUS
<1> HIDE DEF byte, arg
<1>2. 8 * byte(p) + 2 * arg(p) = 8 * byte(q) + 2 * arg(q)
  BY <1>1, Zenon DEF SameCode
<1>. QED
  BY <1>2 DEF byte, arg

LEMMA Own_Q6_0 ==
  ASSUME NEW p \in 0 .. 31, NEW q \in 0 .. 31
  PROVE  SameCode(Ref_Q6_0(p), Ref_Q6_0(q)) => p = q
<1> DEFINE byte(x) == 10 + (x % 16)
           arg(x) == x \div 16
           rest1(x) == Pair(2 + ((x % 16) % 8), 2 * ((x % 16) \div 8) + x \div 16)
<1>1. ASSUME NEW x \in 0 .. 31
      PROVE  First(Ref_Q6_0(x).code) = 8 * byte(x) + 4 * arg(x)
  <2>1. byte(x) \in Int /\ arg(x) \in Int
    OBVIOUS
  <2>2. Run(rest1(x))
    BY BitsRun, KindsRun
  <2>3. Ref_Q6_0(x).code = Nibble(byte(x), arg(x)) \o rest1(x)
    BY DEF Ref_Q6_0, Linear, Coded, Weight, WithMin, HalfNibble
  <2> HIDE DEF byte, arg, rest1
  <2>4. Run(Nibble(byte(x), arg(x)))
    BY KindsRun
  <2>5. First(Nibble(byte(x), arg(x)) \o rest1(x)) = First(Nibble(byte(x), arg(x)))
    BY <2>2, <2>4, ConcatRun
  <2>. QED
    BY <2>1, <2>3, <2>5, FirstBits
<1> SUFFICES ASSUME SameCode(Ref_Q6_0(p), Ref_Q6_0(q)) PROVE p = q
  OBVIOUS
<1> HIDE DEF byte, arg
<1>2. 8 * byte(p) + 4 * arg(p) = 8 * byte(q) + 4 * arg(q)
  BY <1>1, Zenon DEF SameCode
<1>. QED
  BY <1>2 DEF byte, arg

LEMMA Own_I2_S ==
  ASSUME NEW p \in 0 .. 127, NEW q \in 0 .. 127
  PROVE  SameCode(Ref_I2_S(p), Ref_I2_S(q)) => p = q
<1> DEFINE byte(x) == x % 32
           arg(x) == 3 - x \div 32
<1>1. ASSUME NEW x \in 0 .. 127
      PROVE  First(Ref_I2_S(x).code) = 8 * byte(x) + 2 * arg(x)
  <2>1. byte(x) \in Int /\ arg(x) \in Int
    OBVIOUS
  <2>3. Ref_I2_S(x).code = Pair(byte(x), arg(x))
    BY DEF Ref_I2_S, Linear, Coded, Weight, WithMin, HalfNibble
  <2> HIDE DEF byte, arg
  <2>. QED
    BY <2>1, <2>3, FirstBits
<1> SUFFICES ASSUME SameCode(Ref_I2_S(p), Ref_I2_S(q)) PROVE p = q
  OBVIOUS
<1> HIDE DEF byte, arg
<1>2. 8 * byte(p) + 2 * arg(p) = 8 * byte(q) + 2 * arg(q)
  BY <1>1, Zenon DEF SameCode
<1>. QED
  BY <1>2 DEF byte, arg

LEMMA Own_IQ2_BN ==
  ASSUME NEW p \in 0 .. 63, NEW q \in 0 .. 63
  PROVE  SameCode(Ref_IQ2_BN(p), Ref_IQ2_BN(q)) => p = q
<1> DEFINE byte(x) == x % 16
           arg(x) == x \div 16
<1>1. ASSUME NEW x \in 0 .. 63
      PROVE  First(Ref_IQ2_BN(x).code) = 8 * byte(x) + 2 * arg(x)
  <2>1. byte(x) \in Int /\ arg(x) \in Int
    OBVIOUS
  <2>3. Ref_IQ2_BN(x).code = Pair(byte(x), arg(x))
    BY DEF Ref_IQ2_BN, Linear, Coded, Weight, WithMin, HalfNibble
  <2> HIDE DEF byte, arg
  <2>. QED
    BY <2>1, <2>3, FirstBits
<1> SUFFICES ASSUME SameCode(Ref_IQ2_BN(p), Ref_IQ2_BN(q)) PROVE p = q
  OBVIOUS
<1> HIDE DEF byte, arg
<1>2. 8 * byte(p) + 2 * arg(p) = 8 * byte(q) + 2 * arg(q)
  BY <1>1, Zenon DEF SameCode
<1>. QED
  BY <1>2 DEF byte, arg

LEMMA Own_IQ2_K ==
  ASSUME NEW p \in 0 .. 255, NEW q \in 0 .. 255
  PROVE  SameCode(Ref_IQ2_K(p), Ref_IQ2_K(q)) => p = q
<1> DEFINE byte(x) == 12 + 32 * ((x \div 32) \div 4) + (x % 32)
           arg(x) == (x \div 32) % 4
           rest1(x) == Bits(2, 2 * (x \div 32) + ((x % 32) \div 16), 1)
<1>1. ASSUME NEW x \in 0 .. 255
      PROVE  First(Ref_IQ2_K(x).code) = 8 * byte(x) + 2 * arg(x)
  <2>1. byte(x) \in Int /\ arg(x) \in Int
    OBVIOUS
  <2>2. Run(rest1(x))
    BY BitsRun, KindsRun
  <2>3. Ref_IQ2_K(x).code = Pair(byte(x), arg(x)) \o rest1(x)
    BY DEF Ref_IQ2_K, Linear, Coded, Weight, WithMin, HalfNibble
  <2> HIDE DEF byte, arg, rest1
  <2>4. Run(Pair(byte(x), arg(x)))
    BY KindsRun
  <2>5. First(Pair(byte(x), arg(x)) \o rest1(x)) = First(Pair(byte(x), arg(x)))
    BY <2>2, <2>4, ConcatRun
  <2>. QED
    BY <2>1, <2>3, <2>5, FirstBits
<1> SUFFICES ASSUME SameCode(Ref_IQ2_K(p), Ref_IQ2_K(q)) PROVE p = q
  OBVIOUS
<1> HIDE DEF byte, arg
<1>2. 8 * byte(p) + 2 * arg(p) = 8 * byte(q) + 2 * arg(q)
  BY <1>1, Zenon DEF SameCode
<1>3. PICK a \in 0 .. 1, b \in 0 .. 1, c \in 0 .. 1, d \in 0 .. 1, r \in 0 .. 15 :
            Places(p, a, b, c, d, r)
  BY Digits
<1>4. PICK a1 \in 0 .. 1, b1 \in 0 .. 1, c1 \in 0 .. 1, d1 \in 0 .. 1, r1 \in 0 .. 15 :
            Places(q, a1, b1, c1, d1, r1)
  BY Digits
<1>5. /\ p = 128 * a + 64 * b + 32 * c + 16 * d + r
      /\ q = 128 * a1 + 64 * b1 + 32 * c1 + 16 * d1 + r1
      /\ byte(p) = 12 + 32 * (a) + (16 * d + r)
      /\ arg(p) = 2 * b + c
      /\ byte(q) = 12 + 32 * (a1) + (16 * d1 + r1)
      /\ arg(q) = 2 * b1 + c1
  BY <1>3, <1>4, Zenon DEF Places, byte, arg
<1>. QED
  BY <1>2, <1>5

LEMMA Own_IQ3_K ==
  ASSUME NEW p \in 0 .. 255, NEW q \in 0 .. 255
  PROVE  SameCode(Ref_IQ3_K(p), Ref_IQ3_K(q)) => p = q
<1> DEFINE byte(x) == 14 + 32 * ((x \div 32) \div 4) + (x % 32)
           arg(x) == (x \div 32) % 4
           rest1(x) == Bits(78 + (x % 32), (x \div 32), 1)
           rest2(x) == Bits(2, 2 * (x \div 32) + ((x % 32) \div 16), 1)
<1>1. ASSUME NEW x \in 0 .. 255
      PROVE  First(Ref_IQ3_K(x).code) = 8 * byte(x) + 2 * arg(x)
  <2>1. byte(x) \in Int /\ arg(x) \in Int
    OBVIOUS
  <2>2. Run(rest1(x)) /\ Run(rest2(x))
    BY BitsRun, KindsRun
  <2>3. Ref_IQ3_K(x).code = Pair(byte(x), arg(x)) \o rest1(x) \o rest2(x)
    BY DEF Ref_IQ3_K, Linear, Coded, Weight, WithMin, HalfNibble
  <2> HIDE DEF byte, arg, rest1, rest2
  <2>4. Run(Pair(byte(x), arg(x)))
    BY KindsRun
  <2>5. First(Pair(byte(x), arg(x)) \o rest1(x) \o rest2(x)) = First(Pair(byte(x), arg(x)))
    BY <2>2, <2>4, ConcatRun
  <2>. QED
    BY <2>1, <2>3, <2>5, FirstBits
<1> SUFFICES ASSUME SameCode(Ref_IQ3_K(p), Ref_IQ3_K(q)) PROVE p = q
  OBVIOUS
<1> HIDE DEF byte, arg
<1>2. 8 * byte(p) + 2 * arg(p) = 8 * byte(q) + 2 * arg(q)
  BY <1>1, Zenon DEF SameCode
<1>3. PICK a \in 0 .. 1, b \in 0 .. 1, c \in 0 .. 1, d \in 0 .. 1, r \in 0 .. 15 :
            Places(p, a, b, c, d, r)
  BY Digits
<1>4. PICK a1 \in 0 .. 1, b1 \in 0 .. 1, c1 \in 0 .. 1, d1 \in 0 .. 1, r1 \in 0 .. 15 :
            Places(q, a1, b1, c1, d1, r1)
  BY Digits
<1>5. /\ p = 128 * a + 64 * b + 32 * c + 16 * d + r
      /\ q = 128 * a1 + 64 * b1 + 32 * c1 + 16 * d1 + r1
      /\ byte(p) = 14 + 32 * (a) + (16 * d + r)
      /\ arg(p) = 2 * b + c
      /\ byte(q) = 14 + 32 * (a1) + (16 * d1 + r1)
      /\ arg(q) = 2 * b1 + c1
  BY <1>3, <1>4, Zenon DEF Places, byte, arg
<1>. QED
  BY <1>2, <1>5

LEMMA Own_IQ3_KS ==
  ASSUME NEW p \in 0 .. 255, NEW q \in 0 .. 255
  PROVE  SameCode(Ref_IQ3_KS(p), Ref_IQ3_KS(q)) => p = q
<1> DEFINE byte(x) == 6 + 32 * ((x \div 32) \div 4) + (x % 32)
           arg(x) == (x \div 32) % 4
           rest1(x) == Bits(70 + (x % 32), (x \div 32), 1)
           rest2(x) == Bits(0, 8 + (x \div 32), 1)
<1>1. ASSUME NEW x \in 0 .. 255
      PROVE  First(Ref_IQ3_KS(x).code) = 8 * byte(x) + 2 * arg(x)
  <2>1. byte(x) \in Int /\ arg(x) \in Int
    OBVIOUS
  <2>2. Run(rest1(x)) /\ Run(rest2(x))
    BY BitsRun, KindsRun
  <2>3. Ref_IQ3_KS(x).code = Pair(byte(x), arg(x)) \o rest1(x) \o rest2(x)
    BY DEF Ref_IQ3_KS, Linear, Coded, Weight, WithMin, HalfNibble
  <2> HIDE DEF byte, arg, rest1, rest2
  <2>4. Run(Pair(byte(x), arg(x)))
    BY KindsRun
  <2>5. First(Pair(byte(x), arg(x)) \o rest1(x) \o rest2(x)) = First(Pair(byte(x), arg(x)))
    BY <2>2, <2>4, ConcatRun
  <2>. QED
    BY <2>1, <2>3, <2>5, FirstBits
<1> SUFFICES ASSUME SameCode(Ref_IQ3_KS(p), Ref_IQ3_KS(q)) PROVE p = q
  OBVIOUS
<1> HIDE DEF byte, arg
<1>2. 8 * byte(p) + 2 * arg(p) = 8 * byte(q) + 2 * arg(q)
  BY <1>1, Zenon DEF SameCode
<1>3. PICK a \in 0 .. 1, b \in 0 .. 1, c \in 0 .. 1, d \in 0 .. 1, r \in 0 .. 15 :
            Places(p, a, b, c, d, r)
  BY Digits
<1>4. PICK a1 \in 0 .. 1, b1 \in 0 .. 1, c1 \in 0 .. 1, d1 \in 0 .. 1, r1 \in 0 .. 15 :
            Places(q, a1, b1, c1, d1, r1)
  BY Digits
<1>5. /\ p = 128 * a + 64 * b + 32 * c + 16 * d + r
      /\ q = 128 * a1 + 64 * b1 + 32 * c1 + 16 * d1 + r1
      /\ byte(p) = 6 + 32 * (a) + (16 * d + r)
      /\ arg(p) = 2 * b + c
      /\ byte(q) = 6 + 32 * (a1) + (16 * d1 + r1)
      /\ arg(q) = 2 * b1 + c1
  BY <1>3, <1>4, Zenon DEF Places, byte, arg
<1>. QED
  BY <1>2, <1>5

LEMMA Own_IQ4_K ==
  ASSUME NEW p \in 0 .. 255, NEW q \in 0 .. 255
  PROVE  SameCode(Ref_IQ4_K(p), Ref_IQ4_K(q)) => p = q
<1> DEFINE byte(x) == 16 + 16 * (x \div 32) + (x % 16)
           arg(x) == (x % 32) \div 16
           rest1(x) == Bits(2, 2 * (x \div 32) + ((x % 32) \div 16), 1)
<1>1. ASSUME NEW x \in 0 .. 255
      PROVE  First(Ref_IQ4_K(x).code) = 8 * byte(x) + 4 * arg(x)
  <2>1. byte(x) \in Int /\ arg(x) \in Int
    OBVIOUS
  <2>2. Run(rest1(x))
    BY BitsRun, KindsRun
  <2>3. Ref_IQ4_K(x).code = Nibble(byte(x), arg(x)) \o rest1(x)
    BY DEF Ref_IQ4_K, Linear, Coded, Weight, WithMin, HalfNibble
  <2> HIDE DEF byte, arg, rest1
  <2>4. Run(Nibble(byte(x), arg(x)))
    BY KindsRun
  <2>5. First(Nibble(byte(x), arg(x)) \o rest1(x)) = First(Nibble(byte(x), arg(x)))
    BY <2>2, <2>4, ConcatRun
  <2>. QED
    BY <2>1, <2>3, <2>5, FirstBits
<1> SUFFICES ASSUME SameCode(Ref_IQ4_K(p), Ref_IQ4_K(q)) PROVE p = q
  OBVIOUS
<1> HIDE DEF byte, arg
<1>2. 8 * byte(p) + 4 * arg(p) = 8 * byte(q) + 4 * arg(q)
  BY <1>1, Zenon DEF SameCode
<1>3. PICK a \in 0 .. 1, b \in 0 .. 1, c \in 0 .. 1, d \in 0 .. 1, r \in 0 .. 15 :
            Places(p, a, b, c, d, r)
  BY Digits
<1>4. PICK a1 \in 0 .. 1, b1 \in 0 .. 1, c1 \in 0 .. 1, d1 \in 0 .. 1, r1 \in 0 .. 15 :
            Places(q, a1, b1, c1, d1, r1)
  BY Digits
<1>5. /\ p = 128 * a + 64 * b + 32 * c + 16 * d + r
      /\ q = 128 * a1 + 64 * b1 + 32 * c1 + 16 * d1 + r1
      /\ byte(p) = 16 + 16 * (4 * a + 2 * b + c) + (r)
      /\ arg(p) = d
      /\ byte(q) = 16 + 16 * (4 * a1 + 2 * b1 + c1) + (r1)
      /\ arg(q) = d1
  BY <1>3, <1>4, Zenon DEF Places, byte, arg
<1> DEFINE n == 4 * a + 2 * b + c  n1 == 4 * a1 + 2 * b1 + c1
<1>6. n \in 0 .. 7 /\ n1 \in 0 .. 7 /\ p = 32 * n + 16 * d + r /\ q = 32 * n1 + 16 * d1 + r1
  BY <1>5
<1>7. 8 * (16 * n + r) + 4 * d = 8 * (16 * n1 + r1) + 4 * d1
  BY <1>2, <1>5
<1> HIDE DEF n, n1
<1>8. 16 * n + r = 16 * n1 + r1 /\ d = d1
  BY <1>6, <1>7
<1>9. n = n1 /\ r = r1
  BY <1>6, <1>8
<1>. QED
  BY <1>6, <1>8, <1>9

LEMMA Own_IQ4_KS ==
  ASSUME NEW p \in 0 .. 255, NEW q \in 0 .. 255
  PROVE  SameCode(Ref_IQ4_KS(p), Ref_IQ4_KS(q)) => p = q
<1> DEFINE byte(x) == 8 + 16 * (x \div 32) + (x % 16)
           arg(x) == (x % 32) \div 16
           rest1(x) == Bits((x \div 32), 0, 1)
<1>1. ASSUME NEW x \in 0 .. 255
      PROVE  First(Ref_IQ4_KS(x).code) = 8 * byte(x) + 4 * arg(x)
  <2>1. byte(x) \in Int /\ arg(x) \in Int
    OBVIOUS
  <2>2. Run(rest1(x))
    BY BitsRun, KindsRun
  <2>3. Ref_IQ4_KS(x).code = Nibble(byte(x), arg(x)) \o rest1(x)
    BY DEF Ref_IQ4_KS, Linear, Coded, Weight, WithMin, HalfNibble
  <2> HIDE DEF byte, arg, rest1
  <2>4. Run(Nibble(byte(x), arg(x)))
    BY KindsRun
  <2>5. First(Nibble(byte(x), arg(x)) \o rest1(x)) = First(Nibble(byte(x), arg(x)))
    BY <2>2, <2>4, ConcatRun
  <2>. QED
    BY <2>1, <2>3, <2>5, FirstBits
<1> SUFFICES ASSUME SameCode(Ref_IQ4_KS(p), Ref_IQ4_KS(q)) PROVE p = q
  OBVIOUS
<1> HIDE DEF byte, arg
<1>2. 8 * byte(p) + 4 * arg(p) = 8 * byte(q) + 4 * arg(q)
  BY <1>1, Zenon DEF SameCode
<1>3. PICK a \in 0 .. 1, b \in 0 .. 1, c \in 0 .. 1, d \in 0 .. 1, r \in 0 .. 15 :
            Places(p, a, b, c, d, r)
  BY Digits
<1>4. PICK a1 \in 0 .. 1, b1 \in 0 .. 1, c1 \in 0 .. 1, d1 \in 0 .. 1, r1 \in 0 .. 15 :
            Places(q, a1, b1, c1, d1, r1)
  BY Digits
<1>5. /\ p = 128 * a + 64 * b + 32 * c + 16 * d + r
      /\ q = 128 * a1 + 64 * b1 + 32 * c1 + 16 * d1 + r1
      /\ byte(p) = 8 + 16 * (4 * a + 2 * b + c) + (r)
      /\ arg(p) = d
      /\ byte(q) = 8 + 16 * (4 * a1 + 2 * b1 + c1) + (r1)
      /\ arg(q) = d1
  BY <1>3, <1>4, Zenon DEF Places, byte, arg
<1> DEFINE n == 4 * a + 2 * b + c  n1 == 4 * a1 + 2 * b1 + c1
<1>6. n \in 0 .. 7 /\ n1 \in 0 .. 7 /\ p = 32 * n + 16 * d + r /\ q = 32 * n1 + 16 * d1 + r1
  BY <1>5
<1>7. 8 * (16 * n + r) + 4 * d = 8 * (16 * n1 + r1) + 4 * d1
  BY <1>2, <1>5
<1> HIDE DEF n, n1
<1>8. 16 * n + r = 16 * n1 + r1 /\ d = d1
  BY <1>6, <1>7
<1>9. n = n1 /\ r = r1
  BY <1>6, <1>8
<1>. QED
  BY <1>6, <1>8, <1>9

LEMMA Own_IQ5_K ==
  ASSUME NEW p \in 0 .. 255, NEW q \in 0 .. 255
  PROVE  SameCode(Ref_IQ5_K(p), Ref_IQ5_K(q)) => p = q
<1> DEFINE byte(x) == 16 + 32 * ((x \div 32) \div 2) + (x % 32)
           arg(x) == (x \div 32) % 2
           rest1(x) == Bits(144 + (x % 32), 2 * ((x \div 32) \div 2) + ((x \div 32) % 2), 1)
           rest2(x) == Bits(2,
             4 * ((x \div 32) \div 2) + 2 * ((x \div 32) % 2) + ((x % 32) \div 16), 1)
<1>1. ASSUME NEW x \in 0 .. 255
      PROVE  First(Ref_IQ5_K(x).code) = 8 * byte(x) + 4 * arg(x)
  <2>1. byte(x) \in Int /\ arg(x) \in Int
    OBVIOUS
  <2>2. Run(rest1(x)) /\ Run(rest2(x))
    BY BitsRun, KindsRun
  <2>3. Ref_IQ5_K(x).code = Nibble(byte(x), arg(x)) \o rest1(x) \o rest2(x)
    BY DEF Ref_IQ5_K, Linear, Coded, Weight, WithMin, HalfNibble
  <2> HIDE DEF byte, arg, rest1, rest2
  <2>4. Run(Nibble(byte(x), arg(x)))
    BY KindsRun
  <2>5. First(Nibble(byte(x), arg(x)) \o rest1(x) \o rest2(x)) = First(Nibble(byte(x), arg(x)))
    BY <2>2, <2>4, ConcatRun
  <2>. QED
    BY <2>1, <2>3, <2>5, FirstBits
<1> SUFFICES ASSUME SameCode(Ref_IQ5_K(p), Ref_IQ5_K(q)) PROVE p = q
  OBVIOUS
<1> HIDE DEF byte, arg
<1>2. 8 * byte(p) + 4 * arg(p) = 8 * byte(q) + 4 * arg(q)
  BY <1>1, Zenon DEF SameCode
<1>3. PICK a \in 0 .. 1, b \in 0 .. 1, c \in 0 .. 1, d \in 0 .. 1, r \in 0 .. 15 :
            Places(p, a, b, c, d, r)
  BY Digits
<1>4. PICK a1 \in 0 .. 1, b1 \in 0 .. 1, c1 \in 0 .. 1, d1 \in 0 .. 1, r1 \in 0 .. 15 :
            Places(q, a1, b1, c1, d1, r1)
  BY Digits
<1>5. /\ p = 128 * a + 64 * b + 32 * c + 16 * d + r
      /\ q = 128 * a1 + 64 * b1 + 32 * c1 + 16 * d1 + r1
      /\ byte(p) = 16 + 32 * (2 * a + b) + (16 * d + r)
      /\ arg(p) = c
      /\ byte(q) = 16 + 32 * (2 * a1 + b1) + (16 * d1 + r1)
      /\ arg(q) = c1
  BY <1>3, <1>4, Zenon DEF Places, byte, arg
<1>. QED
  BY <1>2, <1>5

LEMMA Own_IQ6_K ==
  ASSUME NEW p \in 0 .. 255, NEW q \in 0 .. 255
  PROVE  SameCode(Ref_IQ6_K(p), Ref_IQ6_K(q)) => p = q
<1> DEFINE byte(x) == 20 + 32 * ((x \div 32) \div 2) + (x % 32)
           arg(x) == (x \div 32) % 2
           rest1(x) == Pair(148 + 32 * (((x \div 32) \div 2) \div 2) + (x % 32),
             2 * (((x \div 32) \div 2) % 2) + ((x \div 32) % 2))
           rest2(x) == Bits(2,
             4 * ((x \div 32) \div 2) + 2 * ((x \div 32) % 2) + ((x % 32) \div 16), 1)
<1>1. ASSUME NEW x \in 0 .. 255
      PROVE  First(Ref_IQ6_K(x).code) = 8 * byte(x) + 4 * arg(x)
  <2>1. byte(x) \in Int /\ arg(x) \in Int
    OBVIOUS
  <2>2. Run(rest1(x)) /\ Run(rest2(x))
    BY BitsRun, KindsRun
  <2>3. Ref_IQ6_K(x).code = Nibble(byte(x), arg(x)) \o rest1(x) \o rest2(x)
    BY DEF Ref_IQ6_K, Linear, Coded, Weight, WithMin, HalfNibble
  <2> HIDE DEF byte, arg, rest1, rest2
  <2>4. Run(Nibble(byte(x), arg(x)))
    BY KindsRun
  <2>5. First(Nibble(byte(x), arg(x)) \o rest1(x) \o rest2(x)) = First(Nibble(byte(x), arg(x)))
    BY <2>2, <2>4, ConcatRun
  <2>. QED
    BY <2>1, <2>3, <2>5, FirstBits
<1> SUFFICES ASSUME SameCode(Ref_IQ6_K(p), Ref_IQ6_K(q)) PROVE p = q
  OBVIOUS
<1> HIDE DEF byte, arg
<1>2. 8 * byte(p) + 4 * arg(p) = 8 * byte(q) + 4 * arg(q)
  BY <1>1, Zenon DEF SameCode
<1>3. PICK a \in 0 .. 1, b \in 0 .. 1, c \in 0 .. 1, d \in 0 .. 1, r \in 0 .. 15 :
            Places(p, a, b, c, d, r)
  BY Digits
<1>4. PICK a1 \in 0 .. 1, b1 \in 0 .. 1, c1 \in 0 .. 1, d1 \in 0 .. 1, r1 \in 0 .. 15 :
            Places(q, a1, b1, c1, d1, r1)
  BY Digits
<1>5. /\ p = 128 * a + 64 * b + 32 * c + 16 * d + r
      /\ q = 128 * a1 + 64 * b1 + 32 * c1 + 16 * d1 + r1
      /\ byte(p) = 20 + 32 * (2 * a + b) + (16 * d + r)
      /\ arg(p) = c
      /\ byte(q) = 20 + 32 * (2 * a1 + b1) + (16 * d1 + r1)
      /\ arg(q) = c1
  BY <1>3, <1>4, Zenon DEF Places, byte, arg
<1>. QED
  BY <1>2, <1>5

LEMMA Own_IQ2_KS ==
  ASSUME NEW p \in 0 .. 255, NEW q \in 0 .. 255
  PROVE  SameCode(Ref_IQ2_KS(p), Ref_IQ2_KS(q)) => p = q
<1> DEFINE byte(x) == 6 + 32 * ((x \div 64) \div 2) + (x % 32)
           arg(x) == 2 * ((x \div 64) % 2) + ((x % 64) \div 32)
           rest1(x) == Bits(0, 2 * (x \div 64) + ((x % 64) \div 32), 1)
<1>1. ASSUME NEW x \in 0 .. 255
      PROVE  First(Ref_IQ2_KS(x).code) = 8 * byte(x) + 2 * arg(x)
  <2>1. byte(x) \in Int /\ arg(x) \in Int
    OBVIOUS
  <2>2. Run(rest1(x))
    BY BitsRun, KindsRun
  <2>3. Ref_IQ2_KS(x).code = Pair(byte(x), arg(x)) \o rest1(x)
    BY DEF Ref_IQ2_KS, Linear, Coded, Weight, WithMin, HalfNibble
  <2> HIDE DEF byte, arg, rest1
  <2>4. Run(Pair(byte(x), arg(x)))
    BY KindsRun
  <2>5. First(Pair(byte(x), arg(x)) \o rest1(x)) = First(Pair(byte(x), arg(x)))
    BY <2>2, <2>4, ConcatRun
  <2>. QED
    BY <2>1, <2>3, <2>5, FirstBits
<1> SUFFICES ASSUME SameCode(Ref_IQ2_KS(p), Ref_IQ2_KS(q)) PROVE p = q
  OBVIOUS
<1> HIDE DEF byte, arg
<1>2. 8 * byte(p) + 2 * arg(p) = 8 * byte(q) + 2 * arg(q)
  BY <1>1, Zenon DEF SameCode
<1>3. PICK a \in 0 .. 1, b \in 0 .. 1, c \in 0 .. 1, d \in 0 .. 1, r \in 0 .. 15 :
            Places(p, a, b, c, d, r)
  BY Digits
<1>4. PICK a1 \in 0 .. 1, b1 \in 0 .. 1, c1 \in 0 .. 1, d1 \in 0 .. 1, r1 \in 0 .. 15 :
            Places(q, a1, b1, c1, d1, r1)
  BY Digits
<1>5. /\ p = 128 * a + 64 * b + 32 * c + 16 * d + r
      /\ q = 128 * a1 + 64 * b1 + 32 * c1 + 16 * d1 + r1
      /\ byte(p) = 6 + 32 * (a) + (16 * d + r)
      /\ arg(p) = 2 * (b) + (c)
      /\ byte(q) = 6 + 32 * (a1) + (16 * d1 + r1)
      /\ arg(q) = 2 * (b1) + (c1)
  BY <1>3, <1>4 DEF Places, byte, arg
<1>. QED
  BY <1>2, <1>5

LEMMA Own_IQ5_KS ==
  ASSUME NEW p \in 0 .. 255, NEW q \in 0 .. 255
  PROVE  SameCode(Ref_IQ5_KS(p), Ref_IQ5_KS(q)) => p = q
<1> DEFINE byte(x) == 8 + 32 * (x \div 64) + (x % 32)
           arg(x) == (x % 64) \div 32
           rest1(x) == Bits(136 + (x % 32), 2 * (x \div 64) + ((x % 64) \div 32), 1)
<1>1. ASSUME NEW x \in 0 .. 255
      PROVE  First(Ref_IQ5_KS(x).code) = 8 * byte(x) + 4 * arg(x)
  <2>1. byte(x) \in Int /\ arg(x) \in Int
    OBVIOUS
  <2>2. Run(rest1(x))
    BY BitsRun, KindsRun
  <2>3. Ref_IQ5_KS(x).code = Nibble(byte(x), arg(x)) \o rest1(x)
    BY DEF Ref_IQ5_KS, Linear, Coded, Weight, WithMin, HalfNibble
  <2> HIDE DEF byte, arg, rest1
  <2>4. Run(Nibble(byte(x), arg(x)))
    BY KindsRun
  <2>5. First(Nibble(byte(x), arg(x)) \o rest1(x)) = First(Nibble(byte(x), arg(x)))
    BY <2>2, <2>4, ConcatRun
  <2>. QED
    BY <2>1, <2>3, <2>5, FirstBits
<1> SUFFICES ASSUME SameCode(Ref_IQ5_KS(p), Ref_IQ5_KS(q)) PROVE p = q
  OBVIOUS
<1> HIDE DEF byte, arg
<1>2. 8 * byte(p) + 4 * arg(p) = 8 * byte(q) + 4 * arg(q)
  BY <1>1, Zenon DEF SameCode
<1>3. PICK a \in 0 .. 1, b \in 0 .. 1, c \in 0 .. 1, d \in 0 .. 1, r \in 0 .. 15 :
            Places(p, a, b, c, d, r)
  BY Digits
<1>4. PICK a1 \in 0 .. 1, b1 \in 0 .. 1, c1 \in 0 .. 1, d1 \in 0 .. 1, r1 \in 0 .. 15 :
            Places(q, a1, b1, c1, d1, r1)
  BY Digits
<1>5. /\ p = 128 * a + 64 * b + 32 * c + 16 * d + r
      /\ q = 128 * a1 + 64 * b1 + 32 * c1 + 16 * d1 + r1
      /\ byte(p) = 8 + 32 * (2 * a + b) + (16 * d + r)
      /\ arg(p) = c
      /\ byte(q) = 8 + 32 * (2 * a1 + b1) + (16 * d1 + r1)
      /\ arg(q) = c1
  BY <1>3, <1>4, Zenon DEF Places, byte, arg
<1>. QED
  BY <1>2, <1>5

LEMMA Own_IQ2_KL ==
  ASSUME NEW p \in 0 .. 255, NEW q \in 0 .. 255
  PROVE  SameCode(Ref_IQ2_KL(p), Ref_IQ2_KL(q)) => p = q
<1> DEFINE byte(x) == 6 + 16 * (x \div 64) + (x % 32) \div 2
           arg(x) == (x % 64) \div 32
           lane(x) == x % 2
           rest1(x) == Bits(70 + (x % 32) \div 2, 2 * (x \div 64) + ((x % 64) \div 32), 1)
<1>1. ASSUME NEW x \in 0 .. 255
      PROVE  First(Ref_IQ2_KL(x).code) = 8 * byte(x) + 4 * arg(x) /\ Ref_IQ2_KL(x).lane = lane(x)
  <2>1. byte(x) \in Int /\ arg(x) \in Int
    OBVIOUS
  <2>2. Run(rest1(x))
    BY BitsRun, KindsRun
  <2>6. Ref_IQ2_KL(x).lane = lane(x)
    BY DEF Ref_IQ2_KL, Linear, Coded, Weight, WithMin
  <2>3. Ref_IQ2_KL(x).code = Nibble(byte(x), arg(x)) \o rest1(x)
    BY DEF Ref_IQ2_KL, Linear, Coded, Weight, WithMin, HalfNibble
  <2> HIDE DEF byte, arg, lane, rest1
  <2>4. Run(Nibble(byte(x), arg(x)))
    BY KindsRun
  <2>5. First(Nibble(byte(x), arg(x)) \o rest1(x)) = First(Nibble(byte(x), arg(x)))
    BY <2>2, <2>4, ConcatRun
  <2>. QED
    BY <2>1, <2>3, <2>6, <2>5, FirstBits
<1> SUFFICES ASSUME SameCode(Ref_IQ2_KL(p), Ref_IQ2_KL(q)) PROVE p = q
  OBVIOUS
<1> HIDE DEF byte, arg, lane
<1>2. 8 * byte(p) + 4 * arg(p) = 8 * byte(q) + 4 * arg(q) /\ lane(p) = lane(q)
  BY <1>1, Zenon DEF SameCode
<1>3. PICK a \in 0 .. 1, b \in 0 .. 1, c \in 0 .. 1, d \in 0 .. 1, r \in 0 .. 15 :
            Places(p, a, b, c, d, r)
  BY Digits
<1>4. PICK a1 \in 0 .. 1, b1 \in 0 .. 1, c1 \in 0 .. 1, d1 \in 0 .. 1, r1 \in 0 .. 15 :
            Places(q, a1, b1, c1, d1, r1)
  BY Digits
<1>5. /\ p = 128 * a + 64 * b + 32 * c + 16 * d + r
      /\ q = 128 * a1 + 64 * b1 + 32 * c1 + 16 * d1 + r1
      /\ byte(p) = 6 + 16 * (2 * a + b) + (16 * d + r) \div 2
      /\ arg(p) = c
      /\ byte(q) = 6 + 16 * (2 * a1 + b1) + (16 * d1 + r1) \div 2
      /\ arg(q) = c1
  BY <1>3, <1>4, Zenon DEF Places, byte, arg
<1> DEFINE u == 16 * d + r  u1 == 16 * d1 + r1
<1>6. /\ u \in 0 .. 31 /\ u1 \in 0 .. 31
      /\ p = 32 * (4 * a + 2 * b + c) + u /\ q = 32 * (4 * a1 + 2 * b1 + c1) + u1
      /\ byte(p) = 6 + 16 * (2 * a + b) + u \div 2
      /\ byte(q) = 6 + 16 * (2 * a1 + b1) + u1 \div 2
  BY <1>5
<1> HIDE DEF u, u1
<1>7. p % 2 = u % 2 /\ q % 2 = u1 % 2
  BY <1>6
<1>8. u = (u % 2) + 2 * (u \div 2) /\ u1 = (u1 % 2) + 2 * (u1 \div 2)
  BY <1>6
<1>9. u \div 2 \in 0 .. 15 /\ u1 \div 2 \in 0 .. 15
  BY <1>6
<1>10. u \div 2 = u1 \div 2 /\ 2 * a + b = 2 * a1 + b1 /\ c = c1
  BY <1>2, <1>5, <1>6, <1>9
<1>. QED
  BY <1>2, <1>6, <1>7, <1>8, <1>10 DEF lane

LEMMA Own_IQ1_KT ==
  ASSUME NEW p \in 0 .. 255, NEW q \in 0 .. 255
  PROVE  SameCode(Ref_IQ1_KT(p), Ref_IQ1_KT(q)) => p = q
<1> DEFINE byte(x) == 8 + x \div 8
           lane(x) == x % 8
           rest1(x) == Nibble(40 + 4 * (((x \div 8) \div 4) % 4) + ((x \div 8) % 4),
             ((x \div 8) \div 4) \div 4)
           rest2(x) == Bits((x \div 8) \div 4, 4 + ((x \div 8) % 4), 1)
<1>1. ASSUME NEW x \in 0 .. 255
      PROVE  First(Ref_IQ1_KT(x).code) = 8 * byte(x) /\ Ref_IQ1_KT(x).lane = lane(x)
  <2>1. byte(x) \in Int
    OBVIOUS
  <2>2. Run(rest1(x)) /\ Run(rest2(x))
    BY BitsRun, KindsRun
  <2>6. Ref_IQ1_KT(x).lane = lane(x)
    BY DEF Ref_IQ1_KT, Linear, Coded, Weight, WithMin
  <2>3. Ref_IQ1_KT(x).code = Byte(byte(x)) \o rest1(x) \o rest2(x)
    BY DEF Ref_IQ1_KT, Linear, Coded, Weight, WithMin, HalfNibble
  <2> HIDE DEF byte, lane, rest1, rest2
  <2>4. Run(Byte(byte(x)))
    BY KindsRun
  <2>5. First(Byte(byte(x)) \o rest1(x) \o rest2(x)) = First(Byte(byte(x)))
    BY <2>2, <2>4, ConcatRun
  <2>. QED
    BY <2>1, <2>3, <2>6, <2>5, FirstBits
<1> SUFFICES ASSUME SameCode(Ref_IQ1_KT(p), Ref_IQ1_KT(q)) PROVE p = q
  OBVIOUS
<1> HIDE DEF byte, lane
<1>2. 8 * byte(p) = 8 * byte(q) /\ lane(p) = lane(q)
  BY <1>1, Zenon DEF SameCode
<1>. QED
  BY <1>2 DEF byte, lane

LEMMA Own_IQ4_KT ==
  ASSUME NEW p \in 0 .. 255, NEW q \in 0 .. 255
  PROVE  SameCode(Ref_IQ4_KT(p), Ref_IQ4_KT(q)) => p = q
<1> DEFINE byte(x) == 32 + x \div 4
           lane(x) == x % 4
           rest1(x) == Nibble(96 + ((x \div 4) % 32), (x \div 4) \div 32)
           rest2(x) == Bits(4 * ((x \div 4) \div 8), 8 + 3 * ((x \div 4) % 8), 3)
<1>1. ASSUME NEW x \in 0 .. 255
      PROVE  First(Ref_IQ4_KT(x).code) = 8 * byte(x) /\ Ref_IQ4_KT(x).lane = lane(x)
  <2>1. byte(x) \in Int
    OBVIOUS
  <2>2. Run(rest1(x)) /\ Run(rest2(x))
    BY BitsRun, KindsRun
  <2>6. Ref_IQ4_KT(x).lane = lane(x)
    BY DEF Ref_IQ4_KT, Linear, Coded, Weight, WithMin
  <2>3. Ref_IQ4_KT(x).code = Byte(byte(x)) \o rest1(x) \o rest2(x)
    BY DEF Ref_IQ4_KT, Linear, Coded, Weight, WithMin, HalfNibble
  <2> HIDE DEF byte, lane, rest1, rest2
  <2>4. Run(Byte(byte(x)))
    BY KindsRun
  <2>5. First(Byte(byte(x)) \o rest1(x) \o rest2(x)) = First(Byte(byte(x)))
    BY <2>2, <2>4, ConcatRun
  <2>. QED
    BY <2>1, <2>3, <2>6, <2>5, FirstBits
<1> SUFFICES ASSUME SameCode(Ref_IQ4_KT(p), Ref_IQ4_KT(q)) PROVE p = q
  OBVIOUS
<1> HIDE DEF byte, lane
<1>2. 8 * byte(p) = 8 * byte(q) /\ lane(p) = lane(q)
  BY <1>1, Zenon DEF SameCode
<1>. QED
  BY <1>2 DEF byte, lane

LEMMA Own_IQ2_KT ==
  ASSUME NEW p \in 0 .. 255, NEW q \in 0 .. 255
  PROVE  SameCode(Ref_IQ2_KT(p), Ref_IQ2_KT(q)) => p = q
<1> DEFINE byte(x) == 4 + 2 * (16 * (x \div 128) + (x % 128) \div 8)
           lane(x) == x % 8
<1>1. ASSUME NEW x \in 0 .. 255
      PROVE  First(Ref_IQ2_KT(x).code) = 8 * byte(x) /\ Ref_IQ2_KT(x).lane = lane(x)
  <2>1. byte(x) \in Int
    OBVIOUS
  <2>6. Ref_IQ2_KT(x).lane = lane(x)
    BY DEF Ref_IQ2_KT, Linear, Coded, Weight, WithMin
  <2>3. Ref_IQ2_KT(x).code = Bits(byte(x), 0, 16)
    BY DEF Ref_IQ2_KT, Linear, Coded, Weight, WithMin, HalfNibble
  <2> HIDE DEF byte, lane
  <2>. QED
    BY <2>1, <2>3, <2>6, FirstBit
<1> SUFFICES ASSUME SameCode(Ref_IQ2_KT(p), Ref_IQ2_KT(q)) PROVE p = q
  OBVIOUS
<1> HIDE DEF byte, lane
<1>2. 8 * byte(p) = 8 * byte(q) /\ lane(p) = lane(q)
  BY <1>1, Zenon DEF SameCode
<1>. QED
  BY <1>2 DEF byte, lane

LEMMA Own_IQ3_KT ==
  ASSUME NEW p \in 0 .. 255, NEW q \in 0 .. 255
  PROVE  SameCode(Ref_IQ3_KT(p), Ref_IQ3_KT(q)) => p = q
<1> DEFINE byte(x) == 4 + 2 * (16 * (x \div 128) + (x % 128) \div 8)
           lane(x) == x % 8
<1>1. ASSUME NEW x \in 0 .. 255
      PROVE  First(Ref_IQ3_KT(x).code) = 8 * byte(x) /\ Ref_IQ3_KT(x).lane = lane(x)
  <2>1. byte(x) \in Int
    OBVIOUS
  <2>6. Ref_IQ3_KT(x).lane = lane(x)
    BY DEF Ref_IQ3_KT, Weight
  <2>3. Ref_IQ3_KT(x).code = Bits(byte(x), 0, 16)
    BY DEF Ref_IQ3_KT, Weight, HalfNibble
  <2> HIDE DEF byte, lane
  <2>. QED
    BY <2>1, <2>3, <2>6, FirstBit
<1> SUFFICES ASSUME SameCode(Ref_IQ3_KT(p), Ref_IQ3_KT(q)) PROVE p = q
  OBVIOUS
<1> HIDE DEF byte, lane
<1>2. 8 * byte(p) = 8 * byte(q) /\ lane(p) = lane(q)
  BY <1>1, Zenon DEF SameCode
<1>. QED
  BY <1>2 DEF byte, lane

LEMMA Own_NVFP4 ==
  ASSUME NEW p \in 0 .. 63, NEW q \in 0 .. 63
  PROVE  SameCode(DecodeCpu_NVFP4(p), DecodeCpu_NVFP4(q)) => p = q
<1>1. ASSUME NEW x \in 0 .. 63
      PROVE  \E g \in 0 .. 3, h \in 0 .. 1, i \in 0 .. 7 :
               /\ x = 16 * g + 8 * h + i
               /\ First(DecodeCpu_NVFP4(x).code) = 8 * (4 + 8 * g + i) + 4 * h
  <2>1. PICK g \in 0 .. 3, h \in 0 .. 1, i \in 0 .. 7 : x = 16 * g + 8 * h + i
    BY GroupPlace
  <2>2. x \div 16 = g /\ x % 16 = 8 * h + i
    BY <2>1
  <2>3. (8 * h + i) % 8 = i /\ (8 * h + i) \div 8 = h
    OBVIOUS
  <2>4. DecodeCpu_NVFP4(x).code = Nibble(4 + 8 * (x \div 16) + ((x % 16) % 8), (x % 16) \div 8)
    BY DEF DecodeCpu_NVFP4, Coded, Weight
  <2>5. DecodeCpu_NVFP4(x).code = Nibble(4 + 8 * g + i, h)
    BY <2>2, <2>3, <2>4, Zenon
  <2>6. 4 + 8 * g + i \in Int /\ h \in Int
    OBVIOUS
  <2>7. First(DecodeCpu_NVFP4(x).code) = 8 * (4 + 8 * g + i) + 4 * h
    BY <2>5, <2>6, FirstBits, Zenon
  <2>. QED
    BY <2>1, <2>7
<1> SUFFICES ASSUME SameCode(DecodeCpu_NVFP4(p), DecodeCpu_NVFP4(q)) PROVE p = q
  OBVIOUS
<1>2. PICK g \in 0 .. 3, h \in 0 .. 1, i \in 0 .. 7 :
        /\ p = 16 * g + 8 * h + i
        /\ First(DecodeCpu_NVFP4(p).code) = 8 * (4 + 8 * g + i) + 4 * h
  BY <1>1
<1>3. PICK g1 \in 0 .. 3, h1 \in 0 .. 1, i1 \in 0 .. 7 :
        /\ q = 16 * g1 + 8 * h1 + i1
        /\ First(DecodeCpu_NVFP4(q).code) = 8 * (4 + 8 * g1 + i1) + 4 * h1
  BY <1>1
<1>4. 8 * (4 + 8 * g + i) + 4 * h = 8 * (4 + 8 * g1 + i1) + 4 * h1
  BY <1>2, <1>3, Zenon DEF SameCode
<1>. QED
  BY <1>2, <1>3, <1>4

LEMMA Own_Q1_0 ==
  ASSUME NEW p \in 0 .. 127, NEW q \in 0 .. 127
  PROVE  SameCode(DequantizeLlama_Q1_0(p), DequantizeLlama_Q1_0(q)) => p = q
<1>1. ASSUME NEW x \in 0 .. 127
      PROVE  First(DequantizeLlama_Q1_0(x).code) = 16 + x
  <2>1. DequantizeLlama_Q1_0(x).code = Bits(2 + x \div 8, x % 8, 1)
    BY DEF DequantizeLlama_Q1_0, Coded, Weight
  <2>2. x \div 8 \in Nat /\ x % 8 \in Nat
    OBVIOUS
  <2>3. x = (x % 8) + 8 * (x \div 8)
    OBVIOUS
  <2> DEFINE u == x \div 8  v == x % 8
  <2>4. /\ DequantizeLlama_Q1_0(x).code = Bits(2 + u, v, 1)
        /\ u \in Nat /\ v \in Nat /\ x = v + 8 * u
    BY <2>1, <2>2, <2>3, Zenon
  <2> HIDE DEF u, v
  <2>5. 2 + u \in Int /\ v \in Int /\ 1 \in Nat \ {0} /\ 8 * (2 + u) + v = 16 + x
    BY <2>4
  <2>6. First(Bits(2 + u, v, 1)) = 8 * (2 + u) + v
    BY <2>5, FirstBit, Zenon
  <2>. QED
    BY <2>4, <2>5, <2>6, Zenon
<1> SUFFICES ASSUME SameCode(DequantizeLlama_Q1_0(p), DequantizeLlama_Q1_0(q)) PROVE p = q
  OBVIOUS
<1>2. 16 + p = 16 + q
  BY <1>1, Zenon DEF SameCode
<1>. QED
  BY <1>2

LEMMA Own_IQ2_XS ==
  ASSUME NEW p \in 0 .. 255, NEW q \in 0 .. 255
  PROVE  SameCode(Dequantize_IQ2_XS(p), Dequantize_IQ2_XS(q)) => p = q
<1> DEFINE byte(x) == 2 + 2 * (4 * (x \div 32) + (x % 32) \div 8)
<1>1. ASSUME NEW x \in 0 .. 255
      PROVE  First(Dequantize_IQ2_XS(x).code) = 8 * byte(x) /\ Dequantize_IQ2_XS(x).lane = x % 8
  <2>1. byte(x) \in Int
    OBVIOUS
  <2>2. Dequantize_IQ2_XS(x).code = SubSeq(Bits(byte(x), 0, 16), 1, 9)
    BY DEF Dequantize_IQ2_XS, Weight
  <2>3. Dequantize_IQ2_XS(x).lane = x % 8
    BY DEF Dequantize_IQ2_XS, Weight
  <2> HIDE DEF byte
  <2>4. First(SubSeq(Bits(byte(x), 0, 16), 1, 9)) = 8 * byte(x)
    BY <2>1 DEF Bits, First
  <2>. QED
    BY <2>2, <2>3, <2>4
<1> SUFFICES ASSUME SameCode(Dequantize_IQ2_XS(p), Dequantize_IQ2_XS(q)) PROVE p = q
  OBVIOUS
<1> HIDE DEF byte
<1>2. 8 * byte(p) = 8 * byte(q) /\ p % 8 = q % 8
  BY <1>1, Zenon DEF SameCode
<1>. QED
  BY <1>2 DEF byte

LEMMA Own_Q3_0_ROCMFPX ==
  ASSUME NEW p \in 0 .. 31, NEW q \in 0 .. 31
  PROVE  SameCode(DequantizeRocm_Q3_0_ROCMFPX(p), DequantizeRocm_Q3_0_ROCMFPX(q)) => p = q
<1>1. ASSUME NEW x \in 0 .. 31
      PROVE  First(DequantizeRocm_Q3_0_ROCMFPX(x).code) = 3 * x
  <2>1. DequantizeRocm_Q3_0_ROCMFPX(x).code
          = SubSeq(Triple(x \div 8), 3 * (x % 8) + 1, 3 * (x % 8) + 3)
    BY DEF DequantizeRocm_Q3_0_ROCMFPX, Coded, Weight
  <2>2. DequantizeRocm_Q3_0_ROCMFPX(x).code = Bits(0, 3 * x, 3)
    BY <2>1, TripleBits, Zenon
  <2>3. 3 * x \in Int /\ 8 * 0 + 3 * x = 3 * x
    OBVIOUS
  <2>. QED
    BY <2>2, <2>3, FirstBit
<1>. QED
  BY <1>1 DEF SameCode

LEMMA Own_Q6_0_ROCMFPX ==
  ASSUME NEW p \in 0 .. 31, NEW q \in 0 .. 31
  PROVE  SameCode(DequantizeRocm_Q6_0_ROCMFPX(p), DequantizeRocm_Q6_0_ROCMFPX(q)) => p = q
<1>1. ASSUME NEW x \in 0 .. 31
      PROVE  First(DequantizeRocm_Q6_0_ROCMFPX(x).code) = 6 * x
  <2>1. DequantizeRocm_Q6_0_ROCMFPX(x).code
          = SubSeq(Triple(x \div 4), 6 * (x % 4) + 1, 6 * (x % 4) + 6)
    BY DEF DequantizeRocm_Q6_0_ROCMFPX, Coded, Weight
  <2>2. DequantizeRocm_Q6_0_ROCMFPX(x).code = Bits(0, 6 * x, 6)
    BY <2>1, TripleBits, Zenon
  <2>3. 6 * x \in Int /\ 8 * 0 + 6 * x = 6 * x
    OBVIOUS
  <2>. QED
    BY <2>2, <2>3, FirstBit
<1>. QED
  BY <1>1 DEF SameCode

\* Base-three digits: 160 weights five to a byte of 32, 80 of 16, 16 four to a byte of 4.
Ternary(x, code, digit) ==
  \/ x \in 0 .. 159 /\ code = 8 * (x % 32) /\ digit = x \div 32
  \/ x \in 160 .. 239 /\ code = 8 * (32 + ((x - 160) % 16)) /\ digit = (x - 160) \div 16
  \/ x \in 240 .. 255 /\ code = 8 * (48 + ((x - 240) % 4)) /\ digit = (x - 240) \div 4

\* Two weights of such a block differ in the byte or in the digit.
LEMMA TernaryPlaces ==
  ASSUME NEW p \in 0 .. 255, NEW q \in 0 .. 255, NEW code, NEW digit,
         Ternary(p, code, digit), Ternary(q, code, digit)
  PROVE  p = q
<1> DEFINE Told(x) == /\ code \in 0 .. 500
                      /\ x \in 0 .. 159 <=> code < 256
                      /\ x \in 240 .. 255 <=> code >= 384
<1>1. ASSUME NEW x \in 0 .. 255, Ternary(x, code, digit)
      PROVE  Told(x)
  BY <1>1 DEF Ternary
<1> HIDE DEF Told
<1>2. Told(p) /\ Told(q)
  BY <1>1, Zenon
<1>3. CASE p \in 0 .. 159 /\ q \in 0 .. 159
  <2>1. 8 * (p % 32) = 8 * (q % 32) /\ p \div 32 = q \div 32
    BY <1>3 DEF Ternary
  <2>. QED
    BY <1>3, <2>1
<1>4. CASE p \in 160 .. 239 /\ q \in 160 .. 239
  <2>1. /\ 8 * (32 + ((p - 160) % 16)) = 8 * (32 + ((q - 160) % 16))
        /\ (p - 160) \div 16 = (q - 160) \div 16
    BY <1>4 DEF Ternary
  <2>. QED
    BY <1>4, <2>1
<1>5. CASE p \in 240 .. 255 /\ q \in 240 .. 255
  <2>1. /\ 8 * (48 + ((p - 240) % 4)) = 8 * (48 + ((q - 240) % 4))
        /\ (p - 240) \div 4 = (q - 240) \div 4
    BY <1>5 DEF Ternary
  <2>. QED
    BY <1>5, <2>1
<1>6. \/ p \in 0 .. 159 /\ q \in 0 .. 159
      \/ p \in 160 .. 239 /\ q \in 160 .. 239
      \/ p \in 240 .. 255 /\ q \in 240 .. 255
  <2>1. p \in 0 .. 159 <=> q \in 0 .. 159
    BY <1>2, Zenon DEF Told
  <2>2. p \in 240 .. 255 <=> q \in 240 .. 255
    BY <1>2, Zenon DEF Told
  <2>. QED
    BY <2>1, <2>2
<1>. QED
  BY <1>3, <1>4, <1>5, <1>6, Zenon

LEMMA Own_TQ1_0 ==
  ASSUME NEW p \in 0 .. 255, NEW q \in 0 .. 255
  PROVE  SameCode(DequantizeLlama_TQ1_0(p), DequantizeLlama_TQ1_0(q)) => p = q
<1> DEFINE W(x) == DequantizeLlama_TQ1_0(x)
<1>1. ASSUME NEW x \in 0 .. 255
      PROVE  Ternary(x, First(W(x).code), W(x).lane)
  <2>1. CASE x \in 0 .. 159
    <3>1. W(x).code = Byte(0 + ((x - 0) % 32)) /\ W(x).lane = (x - 0) \div 32
      BY <2>1 DEF DequantizeLlama_TQ1_0, Weight
    <3>2. x - 0 = x /\ 0 + (x % 32) = x % 32 /\ x % 32 \in Int
      BY <2>1
    <3>3. First(W(x).code) = 8 * (x % 32) /\ W(x).lane = x \div 32
      BY <3>1, <3>2, FirstBits, Zenon
    <3>. QED
      BY <2>1, <3>3, Zenon DEF Ternary
  <2>2. CASE x \in 160 .. 239
    <3>1. W(x).code = Byte(32 + ((x - 160) % 16)) /\ W(x).lane = (x - 160) \div 16
      BY <2>2 DEF DequantizeLlama_TQ1_0, Weight
    <3>2. 32 + ((x - 160) % 16) \in Int
      BY <2>2
    <3>3. First(W(x).code) = 8 * (32 + ((x - 160) % 16)) /\ W(x).lane = (x - 160) \div 16
      BY <3>1, <3>2, FirstBits, Zenon
    <3>. QED
      BY <2>2, <3>3, Zenon DEF Ternary
  <2>3. CASE x \in 240 .. 255
    <3>1. W(x).code = Byte(48 + ((x - 240) % 4)) /\ W(x).lane = (x - 240) \div 4
      BY <2>3 DEF DequantizeLlama_TQ1_0, Weight
    <3>2. 48 + ((x - 240) % 4) \in Int
      BY <2>3
    <3>3. First(W(x).code) = 8 * (48 + ((x - 240) % 4)) /\ W(x).lane = (x - 240) \div 4
      BY <3>1, <3>2, FirstBits, Zenon
    <3>. QED
      BY <2>3, <3>3, Zenon DEF Ternary
  <2>. QED
    BY <2>1, <2>2, <2>3
<1> SUFFICES ASSUME SameCode(W(p), W(q)) PROVE p = q
  OBVIOUS
<1>2. First(W(p).code) = First(W(q).code) /\ W(p).lane = W(q).lane
  BY Zenon DEF SameCode
<1> HIDE DEF W
<1>3. /\ Ternary(p, First(W(p).code), W(p).lane)
      /\ Ternary(q, First(W(p).code), W(p).lane)
  BY <1>1, <1>2, Zenon
<1>. QED
  BY <1>3, TernaryPlaces, Zenon

\* Five base-three digits to a byte, and the last weight of each group of 16 in one byte.
Fifths(x, code, digit) ==
  \/ x % 16 = 15 /\ code = 96 /\ digit = 4 - x \div 16
  \/ /\ x % 16 # 15 /\ digit = 4 - ((x % 16) % 5)
     /\ code = 8 * (3 * (x \div 16) + (x % 16) \div 5)

\* Two weights of such a block differ in the byte or in the digit.
LEMMA FifthPlaces ==
  ASSUME NEW p \in 0 .. 63, NEW q \in 0 .. 63, NEW code, NEW digit,
         Fifths(p, code, digit), Fifths(q, code, digit)
  PROVE  p = q
<1>1. ASSUME NEW x \in 0 .. 63, Fifths(x, code, digit), x % 16 # 15
      PROVE  code # 96
  BY <1>1 DEF Fifths
<1>2. CASE p % 16 = 15 /\ q % 16 = 15
  <2>1. 4 - p \div 16 = 4 - q \div 16
    BY <1>2 DEF Fifths
  <2>. QED
    BY <1>2, <2>1
<1>3. CASE p % 16 # 15 /\ q % 16 # 15
  <2>1. /\ 8 * (3 * (p \div 16) + (p % 16) \div 5) = 8 * (3 * (q \div 16) + (q % 16) \div 5)
        /\ 4 - ((p % 16) % 5) = 4 - ((q % 16) % 5)
    BY <1>3 DEF Fifths
  <2>. QED
    BY <1>3, <2>1
<1>4. (p % 16 = 15) = (q % 16 = 15)
  BY <1>1, Zenon DEF Fifths
<1>. QED
  BY <1>2, <1>3, <1>4, Zenon

LEMMA Own_IQ1_BN ==
  ASSUME NEW p \in 0 .. 63, NEW q \in 0 .. 63
  PROVE  SameCode(Ref_IQ1_BN(p), Ref_IQ1_BN(q)) => p = q
<1> DEFINE W(x) == Ref_IQ1_BN(x)
<1>1. ASSUME NEW x \in 0 .. 63
      PROVE  Fifths(x, First(W(x).code), W(x).lane)
  <2>1. CASE x % 16 = 15
    <3>1. W(x).code = Byte(12) /\ W(x).lane = 4 - x \div 16
      BY <2>1 DEF Ref_IQ1_BN, Weight
    <3>2. 12 \in Int /\ 8 * 12 = 96
      OBVIOUS
    <3>3. First(W(x).code) = 96
      BY <3>1, <3>2, FirstBits, Zenon
    <3>. QED
      BY <2>1, <3>1, <3>3, Zenon DEF Fifths
  <2>2. CASE x % 16 # 15
    <3>1. (x % 16) \div 5 \in 0 .. 2
      BY <2>2
    <3>2. (IF (x % 16) \div 5 < 2 THEN (x % 16) \div 5 ELSE 2) = (x % 16) \div 5
      BY <3>1
    <3>3. /\ W(x).code
               = Byte(3 * (x \div 16) + (IF (x % 16) \div 5 < 2 THEN (x % 16) \div 5 ELSE 2))
          /\ W(x).lane = 4 - ((x % 16) % 5)
      BY <2>2, Zenon DEF Ref_IQ1_BN, Weight
    <3>4. 3 * (x \div 16) + (x % 16) \div 5 \in Int
      OBVIOUS
    <3>5. First(W(x).code) = 8 * (3 * (x \div 16) + (x % 16) \div 5)
      BY <3>2, <3>3, <3>4, FirstBits, Zenon
    <3>. QED
      BY <2>2, <3>3, <3>5, Zenon DEF Fifths
  <2>. QED
    BY <2>1, <2>2
<1> SUFFICES ASSUME SameCode(W(p), W(q)) PROVE p = q
  OBVIOUS
<1>2. First(W(p).code) = First(W(q).code) /\ W(p).lane = W(q).lane
  BY Zenon DEF SameCode
<1> HIDE DEF W
<1>3. /\ Fifths(p, First(W(p).code), W(p).lane)
      /\ Fifths(q, First(W(p).code), W(p).lane)
  BY <1>1, <1>2, Zenon
<1>. QED
  BY <1>3, FifthPlaces, Zenon

LEMMA Own_IQ4_KSS ==
  ASSUME NEW p \in 0 .. 255, NEW q \in 0 .. 255
  PROVE  SameCode(Ref_IQ4_KSS(p), Ref_IQ4_KSS(q)) => p = q
<1> DEFINE b(x) == x % 16
           n(x) == 2 * (b(x) % 2) + ((x % 32) \div 16)
           word(x) == 16 * (x \div 32) + 2 * (b(x) \div 2)
           ls(x) == [j \in 1 .. 8 |-> 8 * (16 * (x \div 32) + 2 * (j - 1))]
           bits(x) == CASE n(x) = 0 -> Bits(word(x), 1, 4) [] n(x) = 3 -> Bits(word(x), 12, 4)
                        [] n(x) \in {1, 2} -> Bits(word(x), 4 * n(x), 5)
           low(x) == IF n(x) = 0 THEN 1 ELSE 4 * n(x)
           W(x) == Ref_IQ4_KSS(x)
<1>1. ASSUME NEW x \in 0 .. 255
      PROVE  First(W(x).code) = 8 * word(x) + low(x) /\ W(x).lane = n(x)
  <2>1. W(x).code = bits(x) \o <<ls(x)[1]>> /\ W(x).lane = n(x)
    BY Zenon DEF Ref_IQ4_KSS, Weight
  <2>2. n(x) \in 0 .. 3 /\ word(x) \in Int
    OBVIOUS
  <2>3. Run(<<ls(x)[1]>>)
    BY SingleRun
  <2> HIDE DEF n, word, ls, W
  <2>4. Run(bits(x)) /\ First(bits(x)) = 8 * word(x) + low(x)
    <3>1. CASE n(x) = 0
      <4>1. bits(x) = Bits(word(x), 1, 4) /\ low(x) = 1
        BY <3>1
      <4>. QED
        BY <2>2, <4>1, BitsRun, FirstBit
    <3>2. CASE n(x) = 3
      <4>1. bits(x) = Bits(word(x), 12, 4) /\ low(x) = 12
        BY <3>2
      <4>. QED
        BY <2>2, <4>1, BitsRun, FirstBit
    <3>3. CASE n(x) \in {1, 2}
      <4>1. bits(x) = Bits(word(x), 4 * n(x), 5) /\ low(x) = 4 * n(x) /\ 4 * n(x) \in Int
        BY <3>3
      <4>2. 5 \in Nat \ {0}
        OBVIOUS
      <4>3. First(Bits(word(x), 4 * n(x), 5)) = 8 * word(x) + 4 * n(x)
        BY <2>2, <4>1, <4>2, FirstBit, Zenon
      <4> HIDE DEF bits, low
      <4>. QED
        BY <4>1, <4>2, <4>3, BitsRun, Zenon
    <3>. QED
      BY <2>2, <3>1, <3>2, <3>3
  <2> HIDE DEF bits, low
  <2>5. First(bits(x) \o <<ls(x)[1]>>) = First(bits(x))
    BY <2>3, <2>4, ConcatRun
  <2>. QED
    BY <2>1, <2>4, <2>5, Zenon
<1> SUFFICES ASSUME SameCode(W(p), W(q)) PROVE p = q
  OBVIOUS
<1> HIDE DEF W, low, n, word
<1>2. 8 * word(p) + low(p) = 8 * word(q) + low(q) /\ n(p) = n(q)
  BY <1>1, Zenon DEF SameCode
<1>3. low(p) = low(q)
  BY <1>2, Zenon DEF low
<1> USE DEF word, n
<1>4. ASSUME NEW x \in 0 .. 255 PROVE word(x) \in Int /\ low(x) \in Int
  BY DEF low
<1> HIDE DEF word, n
<1>5. word(p) = word(q)
  <2>1. word(p) \in Int /\ word(q) \in Int /\ low(p) \in Int
    BY <1>4
  <2>. QED
    BY <1>2, <1>3, <2>1
<1> DEFINE j(x) == x % 16  h(x) == (x % 32) \div 16  g(x) == x \div 32
<1>6. ASSUME NEW x \in 0 .. 255
      PROVE  /\ j(x) \in 0 .. 15 /\ h(x) \in 0 .. 1 /\ g(x) \in 0 .. 7
             /\ x = 32 * g(x) + 16 * h(x) + j(x)
             /\ n(x) = 2 * (j(x) % 2) + h(x)
             /\ word(x) = 16 * g(x) + 2 * (j(x) \div 2)
  <2>1. PICK g1 \in 0 .. 7, h1 \in 0 .. 1, j1 \in 0 .. 15 : x = 32 * g1 + 16 * h1 + j1
    BY HalfPlace
  <2>2. g(x) = g1 /\ h(x) = h1 /\ j(x) = j1
    BY <2>1
  <2>3. n(x) = 2 * (j(x) % 2) + h(x) /\ word(x) = 16 * g(x) + 2 * (j(x) \div 2)
    BY Zenon DEF n, word
  <2>. QED
    BY <2>1, <2>2, <2>3, Zenon
<1> HIDE DEF j, h, g
<1>7. /\ j(p) \in 0 .. 15 /\ h(p) \in 0 .. 1 /\ g(p) \in 0 .. 7
      /\ j(q) \in 0 .. 15 /\ h(q) \in 0 .. 1 /\ g(q) \in 0 .. 7
      /\ p = 32 * g(p) + 16 * h(p) + j(p) /\ q = 32 * g(q) + 16 * h(q) + j(q)
      /\ 2 * (j(p) % 2) + h(p) = 2 * (j(q) % 2) + h(q)
      /\ 16 * g(p) + 2 * (j(p) \div 2) = 16 * g(q) + 2 * (j(q) \div 2)
  BY <1>2, <1>5, <1>6, Zenon
<1>8. h(p) = h(q) /\ j(p) % 2 = j(q) % 2
  BY <1>7
<1>9. /\ j(p) \div 2 \in 0 .. 7 /\ j(q) \div 2 \in 0 .. 7
      /\ j(p) = (j(p) % 2) + 2 * (j(p) \div 2) /\ j(q) = (j(q) % 2) + 2 * (j(q) \div 2)
  BY <1>7
<1> DEFINE u == j(p) \div 2  v == j(q) \div 2
<1>10. u \in 0 .. 7 /\ v \in 0 .. 7 /\ g(p) \in 0 .. 7 /\ g(q) \in 0 .. 7
         /\ 16 * g(p) + 2 * u = 16 * g(q) + 2 * v
  BY <1>7, <1>9, Zenon
<1>11. u = v => j(p) = j(q)
  BY <1>8, <1>9, Zenon
<1> HIDE DEF u, v
<1>12. g(p) = g(q) /\ u = v
  BY <1>10
<1>. QED
  BY <1>7, <1>8, <1>11, <1>12, Zenon

\* The reference decoders without a native twin.
LEMMA OtherReferences ==
  ASSUME NEW p
  PROVE  /\ REFERENCE_DECODERS("IQ1_BN", p) = Ref_IQ1_BN(p)
         /\ REFERENCE_DECODERS("IQ3_KS", p) = Ref_IQ3_KS(p)
         /\ REFERENCE_DECODERS("IQ5_KS", p) = Ref_IQ5_KS(p)
BY DEF REFERENCE_DECODERS

\* No two columns of a block share a code and a place in it, type by type.
LEMMA OwnDense ==
  ASSUME NEW t \in DenseTypes,
         NEW p \in 0 .. (BLOCK_QK_BY_TYPE(t) - 1), NEW q \in 0 .. (BLOCK_QK_BY_TYPE(t) - 1),
         SameCode(Authority(t, p), Authority(t, q))
  PROVE  p = q
<1>2. CASE t \in {"Q4_0", "Q4_1", "Q5_0", "Q5_1", "Q8_0", "Q8_1", "IQ4_NL", "MXFP4",
                   "Q4_0_ROCMFP4", "Q4_0_ROCMFP4_FAST", "Q8_0_ROCMFPX", "Q6_0_ROCMFPX",
                   "Q3_0_ROCMFPX", "Q2_0_ROCMFPX"}
  <2>1. p \in 0 .. 31 /\ q \in 0 .. 31
    <3>1. BLOCK_QK_BY_TYPE(t) = 32
      BY <1>2 DEF BLOCK_QK_BY_TYPE, Tiled32
    <3>. QED
      BY <3>1
  <2>2. t = "Q4_0" => p = q
    <3>1. /\ Authority("Q4_0", p) = Dequantize_Q4_0(p)
          /\ Authority("Q4_0", q) = Dequantize_Q4_0(q)
      BY DenseAuthority
    <3>. QED
      BY <2>1, <3>1, Own_Q4_0, Zenon
  <2>3. t = "Q4_1" => p = q
    <3>1. /\ Authority("Q4_1", p) = Dequantize_Q4_1(p)
          /\ Authority("Q4_1", q) = Dequantize_Q4_1(q)
      BY DenseAuthority
    <3>. QED
      BY <2>1, <3>1, Own_Q4_1, Zenon
  <2>4. t = "Q5_0" => p = q
    <3>1. /\ Authority("Q5_0", p) = Dequantize_Q5_0(p)
          /\ Authority("Q5_0", q) = Dequantize_Q5_0(q)
      BY DenseAuthority
    <3>. QED
      BY <2>1, <3>1, Own_Q5_0, Zenon
  <2>5. t = "Q5_1" => p = q
    <3>1. /\ Authority("Q5_1", p) = Dequantize_Q5_1(p)
          /\ Authority("Q5_1", q) = Dequantize_Q5_1(q)
      BY DenseAuthority
    <3>. QED
      BY <2>1, <3>1, Own_Q5_1, Zenon
  <2>6. t = "Q8_0" => p = q
    <3>1. /\ Authority("Q8_0", p) = Dequantize_Q8_0(p)
          /\ Authority("Q8_0", q) = Dequantize_Q8_0(q)
      BY DenseAuthority
    <3>. QED
      BY <2>1, <3>1, Own_Q8_0, Zenon
  <2>7. t = "Q8_1" => p = q
    <3>1. /\ Authority("Q8_1", p) = Dequantize_Q8_1(p)
          /\ Authority("Q8_1", q) = Dequantize_Q8_1(q)
      BY DenseAuthority
    <3>. QED
      BY <2>1, <3>1, Own_Q8_1, Zenon
  <2>8. t = "IQ4_NL" => p = q
    <3>1. /\ Authority("IQ4_NL", p) = Dequantize_IQ4_NL(p)
          /\ Authority("IQ4_NL", q) = Dequantize_IQ4_NL(q)
      BY DenseAuthority
    <3>. QED
      BY <2>1, <3>1, Own_IQ4_NL, Zenon
  <2>9. t = "MXFP4" => p = q
    <3>1. /\ Authority("MXFP4", p) = DecodeCpu_MXFP4(p)
          /\ Authority("MXFP4", q) = DecodeCpu_MXFP4(q)
      BY DenseAuthority
    <3>. QED
      BY <2>1, <3>1, Own_MXFP4, Zenon
  <2>10. t = "Q4_0_ROCMFP4" => p = q
    <3>1. /\ Authority("Q4_0_ROCMFP4", p) = DequantizeRocm_Q4_0_ROCMFP4(p)
          /\ Authority("Q4_0_ROCMFP4", q) = DequantizeRocm_Q4_0_ROCMFP4(q)
      BY DenseAuthority
    <3>. QED
      BY <2>1, <3>1, Own_Q4_0_ROCMFP4, Zenon
  <2>11. t = "Q4_0_ROCMFP4_FAST" => p = q
    <3>1. /\ Authority("Q4_0_ROCMFP4_FAST", p) = DequantizeRocm_Q4_0_ROCMFP4_FAST(p)
          /\ Authority("Q4_0_ROCMFP4_FAST", q) = DequantizeRocm_Q4_0_ROCMFP4_FAST(q)
      BY DenseAuthority
    <3>. QED
      BY <2>1, <3>1, Own_Q4_0_ROCMFP4_FAST, Zenon
  <2>12. t = "Q8_0_ROCMFPX" => p = q
    <3>1. /\ Authority("Q8_0_ROCMFPX", p) = DequantizeRocm_Q8_0_ROCMFPX(p)
          /\ Authority("Q8_0_ROCMFPX", q) = DequantizeRocm_Q8_0_ROCMFPX(q)
      BY DenseAuthority
    <3>. QED
      BY <2>1, <3>1, Own_Q8_0_ROCMFPX, Zenon
  <2>13. t = "Q6_0_ROCMFPX" => p = q
    <3>1. /\ Authority("Q6_0_ROCMFPX", p) = DequantizeRocm_Q6_0_ROCMFPX(p)
          /\ Authority("Q6_0_ROCMFPX", q) = DequantizeRocm_Q6_0_ROCMFPX(q)
      BY DenseAuthority
    <3>. QED
      BY <2>1, <3>1, Own_Q6_0_ROCMFPX, Zenon
  <2>14. t = "Q3_0_ROCMFPX" => p = q
    <3>1. /\ Authority("Q3_0_ROCMFPX", p) = DequantizeRocm_Q3_0_ROCMFPX(p)
          /\ Authority("Q3_0_ROCMFPX", q) = DequantizeRocm_Q3_0_ROCMFPX(q)
      BY DenseAuthority
    <3>. QED
      BY <2>1, <3>1, Own_Q3_0_ROCMFPX, Zenon
  <2>15. t = "Q2_0_ROCMFPX" => p = q
    <3>1. /\ Authority("Q2_0_ROCMFPX", p) = DequantizeRocm_Q2_0_ROCMFPX(p)
          /\ Authority("Q2_0_ROCMFPX", q) = DequantizeRocm_Q2_0_ROCMFPX(q)
      BY DenseAuthority
    <3>. QED
      BY <2>1, <3>1, Own_Q2_0_ROCMFPX, Zenon
  <2>. QED
    BY <1>2, <2>2, <2>3, <2>4, <2>5, <2>6, <2>7, <2>8, <2>9, <2>10, <2>11, <2>12, <2>13, <2>14,
       <2>15, Zenon
<1>3. CASE t \in {"Q2_0", "NVFP4"}
  <2>1. p \in 0 .. 63 /\ q \in 0 .. 63
    <3>1. BLOCK_QK_BY_TYPE(t) = 64
      BY <1>3 DEF BLOCK_QK_BY_TYPE, Tiled32
    <3>. QED
      BY <3>1
  <2>2. t = "Q2_0" => p = q
    <3>1. /\ Authority("Q2_0", p) = DequantizeLlama_Q2_0(p)
          /\ Authority("Q2_0", q) = DequantizeLlama_Q2_0(q)
      BY DenseAuthority
    <3>. QED
      BY <2>1, <3>1, Own_Q2_0, Zenon
  <2>3. t = "NVFP4" => p = q
    <3>1. /\ Authority("NVFP4", p) = DecodeCpu_NVFP4(p)
          /\ Authority("NVFP4", q) = DecodeCpu_NVFP4(q)
      BY DenseAuthority
    <3>. QED
      BY <2>1, <3>1, Own_NVFP4, Zenon
  <2>. QED
    BY <1>3, <2>2, <2>3, Zenon
<1>4. CASE t \in {"Q1_0"}
  <2>1. p \in 0 .. 127 /\ q \in 0 .. 127
    <3>1. BLOCK_QK_BY_TYPE(t) = 128
      BY <1>4 DEF BLOCK_QK_BY_TYPE, Tiled32
    <3>. QED
      BY <3>1
  <2>2. t = "Q1_0" => p = q
    <3>1. /\ Authority("Q1_0", p) = DequantizeLlama_Q1_0(p)
          /\ Authority("Q1_0", q) = DequantizeLlama_Q1_0(q)
      BY DenseAuthority
    <3>. QED
      BY <2>1, <3>1, Own_Q1_0, Zenon
  <2>. QED
    BY <1>4, <2>2, Zenon
<1>5. CASE t \in {"Q2_K", "Q3_K", "Q4_K", "Q5_K", "Q6_K", "IQ1_M", "IQ1_S", "IQ2_S", "IQ2_XS",
                   "IQ2_XXS", "IQ3_S", "IQ3_XXS", "IQ4_XS", "TQ1_0", "TQ2_0"}
  <2>1. p \in 0 .. 255 /\ q \in 0 .. 255
    <3>1. BLOCK_QK_BY_TYPE(t) = 256
      BY <1>5 DEF BLOCK_QK_BY_TYPE, Tiled32
    <3>. QED
      BY <3>1
  <2>2. t = "Q2_K" => p = q
    <3>1. /\ Authority("Q2_K", p) = Dequantize_Q2_K(p)
          /\ Authority("Q2_K", q) = Dequantize_Q2_K(q)
      BY DenseAuthority
    <3>. QED
      BY <2>1, <3>1, Own_Q2_K, Zenon
  <2>3. t = "Q3_K" => p = q
    <3>1. /\ Authority("Q3_K", p) = Dequantize_Q3_K(p)
          /\ Authority("Q3_K", q) = Dequantize_Q3_K(q)
      BY DenseAuthority
    <3>. QED
      BY <2>1, <3>1, Own_Q3_K, Zenon
  <2>4. t = "Q4_K" => p = q
    <3>1. /\ Authority("Q4_K", p) = Dequantize_Q4_K(p)
          /\ Authority("Q4_K", q) = Dequantize_Q4_K(q)
      BY DenseAuthority
    <3>. QED
      BY <2>1, <3>1, Own_Q4_K, Zenon
  <2>5. t = "Q5_K" => p = q
    <3>1. /\ Authority("Q5_K", p) = Dequantize_Q5_K(p)
          /\ Authority("Q5_K", q) = Dequantize_Q5_K(q)
      BY DenseAuthority
    <3>. QED
      BY <2>1, <3>1, Own_Q5_K, Zenon
  <2>6. t = "Q6_K" => p = q
    <3>1. /\ Authority("Q6_K", p) = Dequantize_Q6_K(p)
          /\ Authority("Q6_K", q) = Dequantize_Q6_K(q)
      BY DenseAuthority
    <3>. QED
      BY <2>1, <3>1, Own_Q6_K, Zenon
  <2>7. t = "IQ1_M" => p = q
    <3>1. /\ Authority("IQ1_M", p) = Dequantize_IQ1_M(p)
          /\ Authority("IQ1_M", q) = Dequantize_IQ1_M(q)
      BY DenseAuthority
    <3>. QED
      BY <2>1, <3>1, Own_IQ1_M, Zenon
  <2>8. t = "IQ1_S" => p = q
    <3>1. /\ Authority("IQ1_S", p) = Dequantize_IQ1_S(p)
          /\ Authority("IQ1_S", q) = Dequantize_IQ1_S(q)
      BY DenseAuthority
    <3>. QED
      BY <2>1, <3>1, Own_IQ1_S, Zenon
  <2>9. t = "IQ2_S" => p = q
    <3>1. /\ Authority("IQ2_S", p) = Dequantize_IQ2_S(p)
          /\ Authority("IQ2_S", q) = Dequantize_IQ2_S(q)
      BY DenseAuthority
    <3>. QED
      BY <2>1, <3>1, Own_IQ2_S, Zenon
  <2>10. t = "IQ2_XS" => p = q
    <3>1. /\ Authority("IQ2_XS", p) = Dequantize_IQ2_XS(p)
          /\ Authority("IQ2_XS", q) = Dequantize_IQ2_XS(q)
      BY DenseAuthority
    <3>. QED
      BY <2>1, <3>1, Own_IQ2_XS, Zenon
  <2>11. t = "IQ2_XXS" => p = q
    <3>1. /\ Authority("IQ2_XXS", p) = Dequantize_IQ2_XXS(p)
          /\ Authority("IQ2_XXS", q) = Dequantize_IQ2_XXS(q)
      BY DenseAuthority
    <3>. QED
      BY <2>1, <3>1, Own_IQ2_XXS, Zenon
  <2>12. t = "IQ3_S" => p = q
    <3>1. /\ Authority("IQ3_S", p) = Dequantize_IQ3_S(p)
          /\ Authority("IQ3_S", q) = Dequantize_IQ3_S(q)
      BY DenseAuthority
    <3>. QED
      BY <2>1, <3>1, Own_IQ3_S, Zenon
  <2>13. t = "IQ3_XXS" => p = q
    <3>1. /\ Authority("IQ3_XXS", p) = Dequantize_IQ3_XXS(p)
          /\ Authority("IQ3_XXS", q) = Dequantize_IQ3_XXS(q)
      BY DenseAuthority
    <3>. QED
      BY <2>1, <3>1, Own_IQ3_XXS, Zenon
  <2>14. t = "IQ4_XS" => p = q
    <3>1. /\ Authority("IQ4_XS", p) = Dequantize_IQ4_XS(p)
          /\ Authority("IQ4_XS", q) = Dequantize_IQ4_XS(q)
      BY DenseAuthority
    <3>. QED
      BY <2>1, <3>1, Own_IQ4_XS, Zenon
  <2>15. t = "TQ1_0" => p = q
    <3>1. /\ Authority("TQ1_0", p) = DequantizeLlama_TQ1_0(p)
          /\ Authority("TQ1_0", q) = DequantizeLlama_TQ1_0(q)
      BY DenseAuthority
    <3>. QED
      BY <2>1, <3>1, Own_TQ1_0, Zenon
  <2>16. t = "TQ2_0" => p = q
    <3>1. /\ Authority("TQ2_0", p) = DequantizeLlama_TQ2_0(p)
          /\ Authority("TQ2_0", q) = DequantizeLlama_TQ2_0(q)
      BY DenseAuthority
    <3>. QED
      BY <2>1, <3>1, Own_TQ2_0, Zenon
  <2>. QED
    BY <1>5, <2>2, <2>3, <2>4, <2>5, <2>6, <2>7, <2>8, <2>9, <2>10, <2>11, <2>12, <2>13, <2>14,
       <2>15, <2>16, Zenon
<1>. QED
  BY <1>2, <1>3, <1>4, <1>5
  DEF DenseTypes, Tiled32, GridTypes, LlamaTypes

\* The same for the types of ik_llama.
LEMMA OwnReference ==
  ASSUME NEW t \in IKTypes,
         NEW p \in 0 .. (BLOCK_QK_BY_TYPE(t) - 1), NEW q \in 0 .. (BLOCK_QK_BY_TYPE(t) - 1),
         SameCode(Authority(t, p), Authority(t, q))
  PROVE  p = q
<1>1. /\ Authority(t, p) = REFERENCE_DECODERS(t, p)
      /\ Authority(t, q) = REFERENCE_DECODERS(t, q)
  BY ReferenceAuthority
<1>2. CASE t \in {"Q6_0"}
  <2>1. p \in 0 .. 31 /\ q \in 0 .. 31
    <3>1. BLOCK_QK_BY_TYPE(t) = 32
      BY <1>2 DEF BLOCK_QK_BY_TYPE, Tiled32
    <3>. QED
      BY <3>1
  <2>2. t = "Q6_0" => p = q
    BY <2>1, <1>1, ReferenceDispatch, OtherReferences, Own_Q6_0, Zenon
  <2>. QED
    BY <1>2, <2>2, Zenon
<1>3. CASE t \in {"IQ1_BN", "IQ2_BN"}
  <2>1. p \in 0 .. 63 /\ q \in 0 .. 63
    <3>1. BLOCK_QK_BY_TYPE(t) = 64
      BY <1>3 DEF BLOCK_QK_BY_TYPE, Tiled32
    <3>. QED
      BY <3>1
  <2>2. t = "IQ1_BN" => p = q
    BY <2>1, <1>1, ReferenceDispatch, OtherReferences, Own_IQ1_BN, Zenon
  <2>3. t = "IQ2_BN" => p = q
    BY <2>1, <1>1, ReferenceDispatch, OtherReferences, Own_IQ2_BN, Zenon
  <2>. QED
    BY <1>3, <2>2, <2>3, Zenon
<1>4. CASE t \in {"I2_S"}
  <2>1. p \in 0 .. 127 /\ q \in 0 .. 127
    <3>1. BLOCK_QK_BY_TYPE(t) = 128
      BY <1>4 DEF BLOCK_QK_BY_TYPE, Tiled32
    <3>. QED
      BY <3>1
  <2>2. t = "I2_S" => p = q
    BY <2>1, <1>1, ReferenceDispatch, OtherReferences, Own_I2_S, Zenon
  <2>. QED
    BY <1>4, <2>2, Zenon
<1>5. CASE t \in {"IQ2_K", "IQ3_K", "IQ4_K", "IQ5_K", "IQ6_K", "IQ2_KS", "IQ3_KS", "IQ4_KS",
                   "IQ5_KS", "IQ4_KSS", "IQ2_KL", "IQ1_KT", "IQ2_KT", "IQ3_KT", "IQ4_KT"}
  <2>1. p \in 0 .. 255 /\ q \in 0 .. 255
    <3>1. BLOCK_QK_BY_TYPE(t) = 256
      BY <1>5 DEF BLOCK_QK_BY_TYPE, Tiled32
    <3>. QED
      BY <3>1
  <2>2. t = "IQ2_K" => p = q
    BY <2>1, <1>1, ReferenceDispatch, OtherReferences, Own_IQ2_K, Zenon
  <2>3. t = "IQ3_K" => p = q
    BY <2>1, <1>1, ReferenceDispatch, OtherReferences, Own_IQ3_K, Zenon
  <2>4. t = "IQ4_K" => p = q
    BY <2>1, <1>1, ReferenceDispatch, OtherReferences, Own_IQ4_K, Zenon
  <2>5. t = "IQ5_K" => p = q
    BY <2>1, <1>1, ReferenceDispatch, OtherReferences, Own_IQ5_K, Zenon
  <2>6. t = "IQ6_K" => p = q
    BY <2>1, <1>1, ReferenceDispatch, OtherReferences, Own_IQ6_K, Zenon
  <2>7. t = "IQ2_KS" => p = q
    BY <2>1, <1>1, ReferenceDispatch, OtherReferences, Own_IQ2_KS, Zenon
  <2>8. t = "IQ3_KS" => p = q
    BY <2>1, <1>1, ReferenceDispatch, OtherReferences, Own_IQ3_KS, Zenon
  <2>9. t = "IQ4_KS" => p = q
    BY <2>1, <1>1, ReferenceDispatch, OtherReferences, Own_IQ4_KS, Zenon
  <2>10. t = "IQ5_KS" => p = q
    BY <2>1, <1>1, ReferenceDispatch, OtherReferences, Own_IQ5_KS, Zenon
  <2>11. t = "IQ4_KSS" => p = q
    BY <2>1, <1>1, ReferenceDispatch, OtherReferences, Own_IQ4_KSS, Zenon
  <2>12. t = "IQ2_KL" => p = q
    BY <2>1, <1>1, ReferenceDispatch, OtherReferences, Own_IQ2_KL, Zenon
  <2>13. t = "IQ1_KT" => p = q
    BY <2>1, <1>1, ReferenceDispatch, OtherReferences, Own_IQ1_KT, Zenon
  <2>14. t = "IQ2_KT" => p = q
    BY <2>1, <1>1, ReferenceDispatch, OtherReferences, Own_IQ2_KT, Zenon
  <2>15. t = "IQ3_KT" => p = q
    BY <2>1, <1>1, ReferenceDispatch, OtherReferences, Own_IQ3_KT, Zenon
  <2>16. t = "IQ4_KT" => p = q
    BY <2>1, <1>1, ReferenceDispatch, OtherReferences, Own_IQ4_KT, Zenon
  <2>. QED
    BY <1>5, <2>2, <2>3, <2>4, <2>5, <2>6, <2>7, <2>8, <2>9, <2>10, <2>11, <2>12, <2>13, <2>14,
       <2>15, <2>16, Zenon
<1>. QED
  BY <1>2, <1>3, <1>4, <1>5
  DEF IKTypes

\* The columns of a block are told apart by the code and the place in it.
LEMMA KeysDiffer ==
  ASSUME Launches \subseteq Agreeing, NEW k, NEW t, <<k, t>> \in Launches,
         NEW p \in 0 .. (BLOCK_QK_BY_TYPE(t) - 1), NEW q \in 0 .. (BLOCK_QK_BY_TYPE(t) - 1),
         Key(t, p) = Key(t, q)
  PROVE  p = q
<1>1. <<k, t>> \in Agreeing
  OBVIOUS
<1>2. t \in DenseTypes \cup IKTypes
  BY <1>1 DEF Agreeing, CpuTypes, DecoderTypes, NativeTypes, DenseTypes, Tiled32, GridTypes,
              LlamaTypes, ROCmFPXTypes, IKTypes, KernelTypes
<1>3. SameCode(Authority(t, p), Authority(t, q))
  BY DEF Key, SameCode
<1>4. CASE t \in DenseTypes
  BY <1>3, <1>4, OwnDense
<1>5. CASE t \in IKTypes
  BY <1>3, <1>5, OwnReference
<1>. QED
  BY <1>2, <1>4, <1>5

\* Reading a column is then a bijection from the columns done to the codes used.
LEMMA BlockOwn ==
  ASSUME Launches \subseteq Agreeing, BlockInv
  PROVE  OwnCode
<1> DEFINE Q == BLOCK_QK_BY_TYPE(type)
           f == [x \in done |-> Key(type, x)]
<1>1. done \subseteq 0 .. (Q - 1) /\ used = {Key(type, x) : x \in done}
  BY Zenon DEF BlockInv
<1>2. IsFiniteSet(done)
  <2>1. IsFiniteSet(0 .. (Q - 1))
    <3>1. Q \in Nat
      BY LaneCounts
    <3>. QED
      BY <3>1, CountUpTo
  <2>. QED
    BY <1>1, <2>1, FS_Subset
<1>3. ASSUME NEW p \in done, NEW q \in done, Key(type, p) = Key(type, q)
      PROVE  p = q
  <2>1. \E k : <<k, type>> \in Launches
    <3>1. type # ""
      BY <1>3, Zenon DEF BlockInv
    <3>. QED
      BY <3>1, Zenon DEF BlockInv
  <2>. QED
    BY <1>1, <1>3, <2>1, KeysDiffer, Zenon
<1>4. f \in Bijection(done, used)
  <2>1. f \in [done -> used]
    BY <1>1
  <2>2. \A p, q \in done : f[p] = f[q] => p = q
    BY <1>3
  <2>3. \A u \in used : \E p \in done : f[p] = u
    BY <1>1
  <2>. QED
    BY <2>1, <2>2, <2>3 DEF Bijection, Injection, Surjection, IsInjective
<1>5. ExistsBijection(done, used)
  BY <1>4 DEF ExistsBijection
<1>. QED
  BY <1>2, <1>5, FS_Bijection DEF OwnCode

\* Two weights of a block never share a code and a place in it, whatever kernel read them
\* (the bit offsets of the decoders).
THEOREM EveryWeightOwnCode ==
  ASSUME Launches \subseteq Agreeing
  PROVE  Spec => []OwnCode
<1>1. Init => BlockInv
  BY InitBlock
<1>2. BlockInv /\ [Next]_vars => BlockInv'
  BY NextBlock
<1>3. BlockInv => OwnCode
  BY BlockOwn
<1>. QED
  BY <1>1, <1>2, <1>3, PTL DEF Spec
=============================================================================
