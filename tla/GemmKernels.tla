---------------------------- MODULE GemmKernels ----------------------------
(* The dense Triton kernels: for every type, the pair of an activation and a *)
(* weight that lane l of step c of the kernel's loop over one block          *)
(* multiplies.  The loop over the blocks of a row, the row and column masks  *)
(* and the store are the same in all of them and are left out.               *)
EXTENDS BlockBits

\* Blocks of 32 weights handled as one tile of joined halves.
Gemm_Q4_0(c, l) == At(load_x_tile(l), Linear(Nibble(2 + l \div 2, l % 2), 8, {F16(0)}))
Gemm_Q4_1(c, l) ==
  At(load_x_tile(l),
     WithMin(Linear(Nibble(4 + l \div 2, l % 2), 0, {F16(0)}), {F16(2)}))
Gemm_Q5_0(c, l) ==
  LET j == l \div 2  bit == j + 16 * (l % 2) IN
  At(load_x_tile(l), Linear(Nibble(6 + j, l % 2) \o Bits(2, bit, 1), 16, {F16(0)}))
Gemm_Q5_1(c, l) ==
  LET j == l \div 2  bit == j + 16 * (l % 2) IN
  At(load_x_tile(l),
     WithMin(Linear(Nibble(8 + j, l % 2) \o Bits(4, bit, 1), 0, {F16(0)}), {F16(2)}))
Gemm_Q8_0(c, l) ==
  LET low == 2 + l \div 2 IN
  At(load_x_tile(l), Coded(Byte(IF l % 2 = 0 THEN low ELSE low + 16), "int8", {F16(0)}))
Gemm_Q8_1(c, l) ==
  LET j == l \div 2 IN
  At(load_x_tile(l), Coded(Byte(IF l % 2 = 0 THEN 4 + j ELSE 20 + j), "int8", {F16(0)}))
Gemm_IQ4_NL(c, l) ==
  At(load_x_tile(l), Coded(Nibble(2 + l \div 2, l % 2), "iq4nl", {F16(0)}))

\* Super-blocks of 256 weights, in chunks with a scale of their own.
Gemm_Q2_K(c, l) ==
  LET group == c \div 4  part == c % 4
      scale == 8 * group + 2 * part + (IF l >= 16 THEN 1 ELSE 0)
  IN  At(load_x_chunk(128 * group + 32 * part, l),
         WithMin(Linear(Pair(16 + 32 * group + l, part), 0, {Uint(Nibble(scale, 0)), F16(80)}),
                 {Uint(Nibble(scale, 1)), F16(82)}))
Gemm_Q3_K(c, l) ==
  LET group == c \div 8  j == (c % 8) \div 2  half == c % 2 IN
  At(load_x_chunk(128 * group + 32 * j + 16 * half, l),
     Linear(Pair(32 + 32 * group + 16 * half + l, j) \o Bits(16 * half + l, 4 * group + j, 1), 4,
            {Biased(load_q3_k_scale(96, 8 * group + 2 * j + half), 32), F16(108)}))
Gemm_Q4_K(c, l) ==
  LET group == c \div 2  part == c % 2  s == load_scale_min_k4(4, 2 * group + part) IN
  At(load_x_chunk(64 * group + 32 * part, l),
     WithMin(Linear(Nibble(16 + 32 * group + l, part), 0, {Uint(s.d), F16(0)}),
             {Uint(s.m), F16(2)}))
Gemm_Q5_K(c, l) ==
  LET group == c \div 2  part == c % 2  s == load_scale_min_k4(4, 2 * group + part)
      code == Nibble(48 + 32 * group + l, part) \o Bits(16 + l, 2 * group + part, 1)
  IN  At(load_x_chunk(64 * group + 32 * part, l),
         WithMin(Linear(code, 0, {Uint(s.d), F16(0)}), {Uint(s.m), F16(2)}))
Gemm_Q6_K(c, l) ==
  LET hb == c \div 8  group == (c % 8) \div 2  half == c % 2  il == 16 * half + l
      ql == 64 * hb + (IF group % 2 = 1 THEN 32 ELSE 0) + il
      code == Nibble(ql, IF group < 2 THEN 0 ELSE 1) \o Pair(128 + 32 * hb + il, group)
  IN  At(load_x_chunk(128 * hb + 32 * group + 16 * half, l),
         Linear(code, 32, {Int8(192 + 8 * hb + 2 * group + half), F16(208)}))

\* Grid types: step c = 4 * ib + il reads the row of a grid that eight
\* neighbouring weights share; l is the entry of that row.
Gemm_IQ1_M(c, l) ==
  LET ib == c \div 4  il == c % 4  qh == 32 + 2 * ib + il \div 2 IN
  At(load_x_chunk(32 * ib + 8 * il, l),
     Weight(Byte(4 * ib + il) \o Bits(qh, 4 * (il % 2), 3), 0, "iq1s", l,
            SignBit(Bits(qh, 4 * (il % 2) + 3, 1)),
            {IQ1MBase(48), Odd(IQ1MScale(48, 2 * ib + il \div 2))}))
Gemm_IQ1_S(c, l) ==
  LET ib == c \div 4  il == c % 4  qh == 34 + 2 * ib IN
  At(load_x_chunk(32 * ib + 8 * il, l),
     Weight(Byte(2 + 4 * ib + il) \o Bits(qh, 3 * il, 3), 0, "iq1s", l,
            SignBit(Bits(qh, 15, 1)), {F16(0), Odd(Bits(qh, 12, 3))}))
Gemm_IQ2_S(c, l) ==
  LET ib == c \div 4  il == c % 4 IN
  At(load_x_chunk(32 * ib + 8 * il, l),
     Weight(Byte(2 + 4 * ib + il) \o Pair(66 + ib, il), 0, "iq2s", l,
            SignBit(Bits(34 + 4 * ib + il, l, 1)), {F16(0), Half(Nibble(74 + ib, il \div 2))}))
Gemm_IQ2_XS(c, l) ==
  LET ib == c \div 4  il == c % 4  q2 == 2 + 2 * (4 * ib + il) IN
  At(load_x_chunk(32 * ib + 8 * il, l),
     Weight(Bits(q2, 0, 9), 0, "iq2xs", l, Sign(Bits(q2, 9, 7), l),
            {F16(0), Half(Nibble(66 + ib, il \div 2))}))
Gemm_IQ2_XXS(c, l) ==
  LET ib == c \div 4  il == c % 4  aux32 == 2 + 8 * ib + 4 IN
  At(load_x_chunk(32 * ib + 8 * il, l),
     Weight(Byte(2 + 8 * ib + il), 0, "iq2xxs", l, Sign(Bits(aux32, 7 * il, 7), l),
            {F16(0), Half(Bits(aux32, 28, 4))}))
Gemm_IQ3_S(c, l) ==
  LET ib == c \div 4  il == c % 4  second == IF l >= 4 THEN 1 ELSE 0 IN
  At(load_x_chunk(32 * ib + 8 * il + 4 * second, l - 4 * second),
     Weight(Byte(2 + 8 * ib + 2 * il + second) \o Bits(66 + ib, 2 * il + second, 1), 0, "iq3s",
            l - 4 * second, SignBit(Bits(74 + 4 * ib + il, l, 1)),
            {F16(0), Odd(Nibble(106 + ib \div 2, ib % 2))}))
Gemm_IQ3_XXS(c, l) ==
  LET ib == c \div 4  il == c % 4  second == IF l >= 4 THEN 1 ELSE 0  aux32 == 66 + 4 * ib IN
  At(load_x_chunk(32 * ib + 8 * il + 4 * second, l - 4 * second),
     Weight(Byte(2 + 8 * ib + 2 * il + second), 0, "iq3xxs", l - 4 * second,
            Sign(Bits(aux32, 7 * il, 7), l), {F16(0), Half(Bits(aux32, 28, 4))}))
Gemm_IQ4_XS(c, l) ==
  At(load_x_chunk(32 * c + (IF l < 16 THEN 0 ELSE 16), l % 16),
     Coded(Nibble(8 + 16 * c + (l % 16), IF l < 16 THEN 0 ELSE 1), "iq4nl",
           {F16(0), Biased(Nibble(4 + c \div 2, c % 2) \o Bits(2, 2 * c, 2), 32)}))

\* Low-bit types: the whole block is one tile.
Gemm_Q1_0(c, l) == At(l, Coded(Bits(2 + l \div 8, l % 8, 1), "+-1", {F16(0)}))
Gemm_Q2_0(c, l) == At(l, Linear(Pair(2 + l \div 4, l % 4), 1, {F16(0)}))
Gemm_TQ1_0(c, l) ==
  At(l, Weight(Byte(Trit(l).byte), 1, "trit", Trit(l).plane, NoSign, {F16(52)}))
Gemm_TQ2_0(c, l) ==
  At(l, Linear(Pair((l \div 128) * 32 + (l % 32), (l % 128) \div 32), 1, {F16(64)}))

\* 4-bit floats and the ROCmFPX types.
Gemm_MXFP4(c, l) ==
  LET k == l \div 2 IN
  At(k + 16 * (l % 2), Coded(Nibble(k, l % 2), "e2m1", {Factor(Byte(16), "e8m0", 0)}))
Gemm_NVFP4(c, l) ==
  LET p == l \div 2  sub == p \div 8 IN
  At(sub * 16 + (p % 8) + 8 * (l % 2),
     Coded(Nibble(4 + p, l % 2), "e2m1", {Factor(Byte(sub), "ue4m3", 0)}))
Rocm(byte) == Factor(Byte(byte), "rocmfpx", 0)
Gemm_Q4_0_ROCMFP4(c, l) ==
  LET k == l \div 2 IN
  At(k + 16 * (l % 2), Coded(Nibble(k, l % 2), "fp4", {Rocm(16 + (l % 2))}))
Gemm_Q4_0_ROCMFP4_FAST(c, l) ==
  LET k == l \div 2 IN At(k + 16 * (l % 2), Coded(Nibble(k, l % 2), "fp4", {Rocm(16)}))
Gemm_Q8_0_ROCMFPX(c, l) == At(l, Coded(Byte(l), "int8", {Rocm(32)}))
Gemm_Q6_0_ROCMFPX(c, l) == At(l, Coded(Packed(l, 6, 24), "sign5", {Rocm(24 + l \div 16)}))
Gemm_Q3_0_ROCMFPX(c, l) == At(l, Coded(Packed(l, 3, 12), "fp3", {Rocm(12 + l \div 16)}))
Gemm_Q2_0_ROCMFPX(c, l) ==
  At(l, Coded(Pair(l \div 4, l % 4), "fp2", {Rocm(8 + l \div 16)}))

\* The dispatch of ggml_mul_mat_a8_triton.
ggml_mul_mat_a8_triton(t, c, l) ==
  CASE t = "Q4_0" -> Gemm_Q4_0(c, l) [] t = "Q4_1" -> Gemm_Q4_1(c, l)
    [] t = "Q5_0" -> Gemm_Q5_0(c, l) [] t = "Q5_1" -> Gemm_Q5_1(c, l)
    [] t = "Q8_0" -> Gemm_Q8_0(c, l) [] t = "Q8_1" -> Gemm_Q8_1(c, l)
    [] t = "Q2_K" -> Gemm_Q2_K(c, l) [] t = "Q3_K" -> Gemm_Q3_K(c, l)
    [] t = "Q4_K" -> Gemm_Q4_K(c, l) [] t = "Q5_K" -> Gemm_Q5_K(c, l)
    [] t = "Q6_K" -> Gemm_Q6_K(c, l) [] t = "IQ4_NL" -> Gemm_IQ4_NL(c, l)
    [] t = "IQ1_M" -> Gemm_IQ1_M(c, l) [] t = "IQ1_S" -> Gemm_IQ1_S(c, l)
    [] t = "IQ2_S" -> Gemm_IQ2_S(c, l) [] t = "IQ2_XS" -> Gemm_IQ2_XS(c, l)
    [] t = "IQ2_XXS" -> Gemm_IQ2_XXS(c, l) [] t = "IQ3_S" -> Gemm_IQ3_S(c, l)
    [] t = "IQ3_XXS" -> Gemm_IQ3_XXS(c, l) [] t = "IQ4_XS" -> Gemm_IQ4_XS(c, l)
    [] t = "Q1_0" -> Gemm_Q1_0(c, l) [] t = "Q2_0" -> Gemm_Q2_0(c, l)
    [] t = "TQ1_0" -> Gemm_TQ1_0(c, l) [] t = "TQ2_0" -> Gemm_TQ2_0(c, l)
    [] t = "MXFP4" -> Gemm_MXFP4(c, l) [] t = "NVFP4" -> Gemm_NVFP4(c, l)
    [] t = "Q4_0_ROCMFP4" -> Gemm_Q4_0_ROCMFP4(c, l)
    [] t = "Q4_0_ROCMFP4_FAST" -> Gemm_Q4_0_ROCMFP4_FAST(c, l)
    [] t = "Q8_0_ROCMFPX" -> Gemm_Q8_0_ROCMFPX(c, l)
    [] t = "Q6_0_ROCMFPX" -> Gemm_Q6_0_ROCMFPX(c, l)
    [] t = "Q3_0_ROCMFPX" -> Gemm_Q3_0_ROCMFPX(c, l)
    [] t = "Q2_0_ROCMFPX" -> Gemm_Q2_0_ROCMFPX(c, l)
=============================================================================
