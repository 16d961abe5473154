----------------------------- MODULE MoEKernels -----------------------------
(* The expert Triton kernels: for every type, the pair of an activation and  *)
(* a weight of the selected expert that lane l of step c of the kernel's     *)
(* loop over one block multiplies.  Every kernel first looks up the token    *)
(* rows of its tile and the expert of its tile, and returns when the expert  *)
(* is not local; that part is the same in all of them and is left out.       *)
EXTENDS BlockBits

\* Blocks of 32 weights: the low halves of a tile of bytes, then the high ones.
Moe_Q4_0(c, l) ==
  At(load_moe_x_tile(l), Linear(Bits(2 + l \div 2, 4 * (l % 2), 4), 8, {F16(0)}))
Moe_Q4_1(c, l) ==
  At(load_moe_x_tile(l),
     WithMin(Linear(Bits(4 + l \div 2, 4 * (l % 2), 4), 0, {F16(0)}), {F16(2)}))
Moe_Q5_0(c, l) ==
  At(load_moe_x_tile(l),
     Linear(Bits(6 + l \div 2, 4 * (l % 2), 4) \o Bits(2, l \div 2 + 16 * (l % 2), 1),
            16, {F16(0)}))
Moe_Q5_1(c, l) ==
  At(load_moe_x_tile(l),
     WithMin(Linear(Bits(8 + l \div 2, 4 * (l % 2), 4) \o Bits(4, l \div 2 + 16 * (l % 2), 1),
                    0, {F16(0)}), {F16(2)}))
Moe_Q8_0(c, l) ==
  At(load_moe_x_tile(l), Coded(Byte(2 + l \div 2 + 16 * (l % 2)), "int8", {F16(0)}))
Moe_Q8_1(c, l) ==
  At(load_moe_x_tile(l),
     Coded(Byte((IF l % 2 = 0 THEN 4 ELSE 20) + l \div 2), "int8", {F16(0)}))
Moe_IQ4_NL(c, l) ==
  At(load_moe_x_tile(l), Coded(Bits(2 + l \div 2, 4 * (l % 2), 4), "iq4nl", {F16(0)}))

\* Super-blocks of 256 weights, chunk by chunk; these kernels unpack the scales
\* in place instead of calling the dense kernels' helpers.
Moe_Q2_K(c, l) ==
  LET sc == 8 * (c \div 4) + 2 * (c % 4) + l \div 16 IN
  At(load_moe_x_chunk(128 * (c \div 4) + 32 * (c % 4), l),
     WithMin(Linear(Bits(16 + 32 * (c \div 4) + l, 2 * (c % 4), 2), 0,
                    {Uint(Bits(sc, 0, 4)), F16(80)}),
             {Uint(Bits(sc, 4, 4)), F16(82)}))
Moe_Q3_K(c, l) ==
  LET group == c \div 8  j == (c % 8) \div 2  half == c % 2
      i == 8 * group + 2 * j + half
      lo == IF i < 8 THEN Bits(96 + i, 0, 4) ELSE Bits(96 + i - 8, 4, 4)
      hi == CASE i < 4       -> Bits(96 + i + 8, 0, 2)
              [] i \in 4..7  -> Bits(96 + i + 4, 2, 2)
              [] i \in 8..11 -> Bits(96 + i, 4, 2)
              [] i >= 12     -> Bits(96 + i - 4, 6, 2)
  IN  At(load_moe_x_chunk(128 * group + 32 * j + 16 * half, l),
         Linear(Bits(32 + 32 * group + 16 * half + l, 2 * j, 2)
                  \o Bits(16 * half + l, 4 * group + j, 1), 4,
                {Biased(lo \o hi, 32), F16(108)}))
\* The scale and the minimum of 32-weight part j of a Q4_K or Q5_K block.
moe_k4_scale(j) == IF j < 4 THEN Bits(4 + j, 0, 6) ELSE Bits(8 + j, 0, 4) \o Bits(j, 6, 2)
moe_k4_min(j) == IF j < 4 THEN Bits(8 + j, 0, 6) ELSE Bits(8 + j, 4, 4) \o Bits(4 + j, 6, 2)
Moe_Q4_K(c, l) ==
  At(load_moe_x_chunk(32 * c, l),
     WithMin(Linear(Bits(16 + 32 * (c \div 2) + l, 4 * (c % 2), 4), 0,
                    {Uint(moe_k4_scale(c)), F16(0)}),
             {Uint(moe_k4_min(c)), F16(2)}))
Moe_Q5_K(c, l) ==
  At(load_moe_x_chunk(32 * c, l),
     WithMin(Linear(Bits(48 + 32 * (c \div 2) + l, 4 * (c % 2), 4) \o Bits(16 + l, c, 1), 0,
                    {Uint(moe_k4_scale(c)), F16(0)}),
             {Uint(moe_k4_min(c)), F16(2)}))
Moe_Q6_K(c, l) ==
  LET half_block == c \div 8  group == (c % 8) \div 2  il == 16 * (c % 2) + l
      ql == 64 * half_block + 32 * (group % 2) + il
      qh == 128 + 32 * half_block + il
  IN  At(load_moe_x_chunk(128 * half_block + 32 * group + 16 * (c % 2), l),
         Linear(Bits(ql, 4 * (group \div 2), 4) \o Bits(qh, 2 * group, 2), 32,
                {Int8(192 + 8 * half_block + 2 * group + (c % 2)), F16(208)}))

\* Grid types: c = 4 * ib + il is the group of eight weights.
Moe_IQ1_M(c, l) ==
  LET qh == 32 + c \div 2  low == 4 * (c % 2)  ib16 == c \div 2 IN
  At(load_moe_x_chunk(8 * c, l),
     Weight(Byte(c) \o Bits(qh, low, 3), 0, "iq1s", l, SignBit(Bits(qh, low + 3, 1)),
            {IQ1MBase(48), Odd(Bits(48 + 2 * (ib16 \div 4), 3 * (ib16 % 4), 3))}))
Moe_IQ1_S(c, l) ==
  LET qh == 34 + 2 * (c \div 4) IN
  At(load_moe_x_chunk(8 * c, l),
     Weight(Byte(2 + c) \o Bits(qh, 3 * (c % 4), 3), 0, "iq1s", l, SignBit(Bits(qh, 15, 1)),
            {F16(0), Odd(Bits(qh, 12, 3))}))
Moe_IQ2_S(c, l) ==
  LET ib == c \div 4  il == c % 4 IN
  At(load_moe_x_chunk(8 * c, l),
     Weight(Byte(2 + c) \o Bits(66 + ib, 2 * il, 2), 0, "iq2s", l, SignBit(Bits(34 + c, l, 1)),
            {F16(0), Half(Bits(74 + ib, 4 * (il \div 2), 4))}))
Moe_IQ2_XS(c, l) ==
  LET ib == c \div 4  il == c % 4 IN
  At(load_moe_x_chunk(8 * c, l),
     Weight(Bits(2 + 2 * c, 0, 9), 0, "iq2xs", l, Sign(Bits(2 + 2 * c, 9, 7), l),
            {F16(0), Half(Bits(66 + ib, 4 * (il \div 2), 4))}))
Moe_IQ2_XXS(c, l) ==
  LET q2 == 2 + 8 * (c \div 4)  il == c % 4 IN
  At(load_moe_x_chunk(8 * c, l),
     Weight(Byte(q2 + il), 0, "iq2xxs", l, Sign(Bits(q2 + 4, 7 * il, 7), l),
            {F16(0), Half(Bits(q2 + 4, 28, 4))}))
Moe_IQ3_S(c, l) ==
  LET ib == c \div 4  il == c % 4  h == l \div 4 IN
  At(load_moe_x_chunk(8 * c + 4 * h, l % 4),
     Weight(Byte(2 + 2 * c + h) \o Bits(66 + ib, 2 * il + h, 1), 0, "iq3s", l % 4,
            SignBit(Bits(74 + c, l, 1)), {F16(0), Odd(Bits(106 + ib \div 2, 4 * (ib % 2), 4))}))
Moe_IQ3_XXS(c, l) ==
  LET aux32 == 66 + 4 * (c \div 4)  h == l \div 4 IN
  At(load_moe_x_chunk(8 * c + 4 * h, l % 4),
     Weight(Byte(2 + 2 * c + h), 0, "iq3xxs", l % 4, Sign(Bits(aux32, 7 * (c % 4), 7), l),
            {F16(0), Half(Bits(aux32, 28, 4))}))
Moe_IQ4_XS(c, l) ==
  At(load_moe_x_chunk(32 * c + 16 * (l \div 16), l % 16),
     Coded(Bits(8 + 16 * c + (l % 16), 4 * (l \div 16), 4), "iq4nl",
           {F16(0), Biased(Bits(4 + c \div 2, 4 * (c % 2), 4) \o Bits(2, 2 * c, 2), 32)}))

\* Low-bit types: the ternary ones in chunks of 64 weights.
Moe_Q1_0(c, l) == At(load_moe_x_chunk(0, l), Coded(Bits(2 + l \div 8, l % 8, 1), "+-1", {F16(0)}))
Moe_Q2_0(c, l) ==
  At(load_moe_x_chunk(0, l), Linear(Bits(2 + l \div 4, 2 * (l % 4), 2), 1, {F16(0)}))
K_CHUNK == 64
Moe_TQ1_0(c, l) ==
  LET k == c * K_CHUNK + l IN
  At(load_moe_x_chunk(c * K_CHUNK, l),
     Weight(Byte(Trit(k).byte), 1, "trit", Trit(k).plane, NoSign, {F16(52)}))
Moe_TQ2_0(c, l) ==
  LET k == c * K_CHUNK + l IN
  At(load_moe_x_chunk(c * K_CHUNK, l),
     Linear(Bits(32 * (k \div 128) + (k % 32), 2 * ((k % 128) \div 32), 2), 1, {F16(64)}))

\* 4-bit floats and the ROCmFPX types load the activations themselves.
Moe_MXFP4(c, l) ==
  At(l \div 2 + 16 * (l % 2),
     Coded(Bits(l \div 2, 4 * (l % 2), 4), "e2m1", {Factor(Byte(16), "e8m0", 0)}))
Moe_NVFP4(c, l) ==
  LET p == l \div 2  low_idx == 16 * (p \div 8) + (p % 8) IN
  At(low_idx + 8 * (l % 2),
     Coded(Bits(4 + p, 4 * (l % 2), 4), "e2m1", {Factor(Byte(p \div 8), "ue4m3", 0)}))
decode_ue4m3_scale(byte) == Factor(Byte(byte), "rocmfpx", 0)
Moe_Q4_0_ROCMFP4(c, l) ==
  LET scale == IF l % 2 = 0 THEN decode_ue4m3_scale(16) ELSE decode_ue4m3_scale(17) IN
  At(l \div 2 + 16 * (l % 2), Coded(Bits(l \div 2, 4 * (l % 2), 4), "fp4", {scale}))
Moe_Q4_0_ROCMFP4_FAST(c, l) ==
  At(l \div 2 + 16 * (l % 2),
     Coded(Bits(l \div 2, 4 * (l % 2), 4), "fp4", {decode_ue4m3_scale(16)}))
Moe_Q8_0_ROCMFPX(c, l) == At(l, Coded(Byte(l), "int8", {decode_ue4m3_scale(32)}))
Moe_Q6_0_ROCMFPX(c, l) ==
  At(l, Coded(Packed(l, 6, 24), "sign5", {decode_ue4m3_scale(24 + l \div 16)}))
Moe_Q3_0_ROCMFPX(c, l) ==
  At(l, Coded(Packed(l, 3, 12), "fp3", {decode_ue4m3_scale(12 + l \div 16)}))
Moe_Q2_0_ROCMFPX(c, l) ==
  At(l, Coded(Bits(l \div 4, 2 * (l % 4), 2), "fp2", {decode_ue4m3_scale(8 + l \div 16)}))

\* TRITON_MOE_DISPATCH.
ggml_moe_a8_triton(t, c, l) ==
  CASE t = "Q4_0" -> Moe_Q4_0(c, l) [] t = "Q4_1" -> Moe_Q4_1(c, l)
    [] t = "Q5_0" -> Moe_Q5_0(c, l) [] t = "Q5_1" -> Moe_Q5_1(c, l)
    [] t = "Q8_0" -> Moe_Q8_0(c, l) [] t = "Q8_1" -> Moe_Q8_1(c, l)
    [] t = "Q2_K" -> Moe_Q2_K(c, l) [] t = "Q3_K" -> Moe_Q3_K(c, l)
    [] t = "Q4_K" -> Moe_Q4_K(c, l) [] t = "Q5_K" -> Moe_Q5_K(c, l)
    [] t = "Q6_K" -> Moe_Q6_K(c, l) [] t = "IQ4_NL" -> Moe_IQ4_NL(c, l)
    [] t = "IQ1_M" -> Moe_IQ1_M(c, l) [] t = "IQ1_S" -> Moe_IQ1_S(c, l)
    [] t = "IQ2_S" -> Moe_IQ2_S(c, l) [] t = "IQ2_XS" -> Moe_IQ2_XS(c, l)
    [] t = "IQ2_XXS" -> Moe_IQ2_XXS(c, l) [] t = "IQ3_S" -> Moe_IQ3_S(c, l)
    [] t = "IQ3_XXS" -> Moe_IQ3_XXS(c, l) [] t = "IQ4_XS" -> Moe_IQ4_XS(c, l)
    [] t = "Q1_0" -> Moe_Q1_0(c, l) [] t = "Q2_0" -> Moe_Q2_0(c, l)
    [] t = "TQ1_0" -> Moe_TQ1_0(c, l) [] t = "TQ2_0" -> Moe_TQ2_0(c, l)
    [] t = "MXFP4" -> Moe_MXFP4(c, l) [] t = "NVFP4" -> Moe_NVFP4(c, l)
    [] t = "Q4_0_ROCMFP4" -> Moe_Q4_0_ROCMFP4(c, l)
    [] t = "Q4_0_ROCMFP4_FAST" -> Moe_Q4_0_ROCMFP4_FAST(c, l)
    [] t = "Q8_0_ROCMFPX" -> Moe_Q8_0_ROCMFPX(c, l)
    [] t = "Q6_0_ROCMFPX" -> Moe_Q6_0_ROCMFPX(c, l)
    [] t = "Q3_0_ROCMFPX" -> Moe_Q3_0_ROCMFPX(c, l)
    [] t = "Q2_0_ROCMFPX" -> Moe_Q2_0_ROCMFPX(c, l)
=============================================================================
