------------------------------ MODULE Decoders ------------------------------
(* The decoders of whole tensors to floats: for every type, the weight that  *)
(* a decoder writes at position pos of a block.                              *)
(*   Dequantize_X  the Triton dequantize kernels and, for the ROCmFPX and    *)
(*                 llama.cpp types, their tensor references                  *)
(*   DecodeCpu_X   the decoders the dense kernels fall back to on a host     *)
(*                 without a GPU                                             *)
EXTENDS BlockBits

\* The low nibbles of sixteen bytes hold the first half of a block of 32.
HalfNibble(base, pos) == Nibble(base + (pos % 16), pos \div 16)

Dequantize_Q4_0(pos) == Linear(HalfNibble(2, pos), 8, {F16(0)})
Dequantize_Q4_1(pos) == WithMin(Linear(HalfNibble(4, pos), 0, {F16(0)}), {F16(2)})
Dequantize_Q5_0(pos) == Linear(HalfNibble(6, pos) \o Bits(2, pos, 1), 16, {F16(0)})
Dequantize_Q5_1(pos) ==
  WithMin(Linear(HalfNibble(8, pos) \o Bits(4, pos, 1), 0, {F16(0)}), {F16(2)})
Dequantize_Q8_0(pos) == Coded(Byte(2 + pos), "int8", {F16(0)})
Dequantize_Q8_1(pos) == Coded(Byte(4 + pos), "int8", {F16(0)})
Dequantize_IQ4_NL(pos) == Coded(HalfNibble(2, pos), "iq4nl", {F16(0)})

\* The vector forms of the scale decoders, for one lane.
load_scale_min_k4_vector(s, j) ==
  [d |-> IF j < 4 THEN Bits(s + j, 0, 6) ELSE Bits(s + j + 4, 0, 4) \o Bits(s + j - 4, 6, 2),
   m |-> IF j < 4 THEN Bits(s + j + 4, 0, 6) ELSE Bits(s + j + 4, 4, 4) \o Bits(s + j, 6, 2)]
load_q3_k_scale_vector(s, i) ==
  Nibble(IF i < 8 THEN s + i ELSE s + i - 8, IF i < 8 THEN 0 ELSE 1)
    \o Pair(s + 8 + (i % 4), i \div 4)

Dequantize_Q2_K(pos) ==
  LET group == pos \div 128  part == (pos % 128) \div 32  q_idx == pos % 32
      scale_idx == 8 * group + 2 * part + (IF q_idx >= 16 THEN 1 ELSE 0)
  IN  WithMin(Linear(Pair(16 + 32 * group + q_idx, part), 0,
                     {Uint(Nibble(scale_idx, 0)), F16(80)}),
              {Uint(Nibble(scale_idx, 1)), F16(82)})
Dequantize_Q3_K(pos) ==
  LET group == pos \div 128  j == (pos % 128) \div 32  half == (pos % 32) \div 16
      is_idx == 8 * group + 2 * j + half
      at == 16 * half + (pos % 16)
  IN  Linear(Pair(32 + 32 * group + at, j) \o Bits(at, 4 * group + j, 1), 4,
             {Biased(load_q3_k_scale_vector(96, is_idx), 32), F16(108)})
Dequantize_Q4_K(pos) ==
  LET group == pos \div 64  part == (pos % 64) \div 32
      s == load_scale_min_k4_vector(4, 2 * group + part)
  IN  WithMin(Linear(Nibble(16 + 32 * group + (pos % 32), part), 0, {Uint(s.d), F16(0)}),
              {Uint(s.m), F16(2)})
Dequantize_Q5_K(pos) ==
  LET group == pos \div 64  part == (pos % 64) \div 32  q_idx == pos % 32
      s == load_scale_min_k4_vector(4, 2 * group + part)
      code == Nibble(48 + 32 * group + q_idx, part) \o Bits(16 + q_idx, 2 * group + part, 1)
  IN  WithMin(Linear(code, 0, {Uint(s.d), F16(0)}), {Uint(s.m), F16(2)})
Dequantize_Q6_K(pos) ==
  LET half_block == pos \div 128  group == (pos % 128) \div 32  half == (pos % 32) \div 16
      il == 16 * half + (pos % 16)
      ql_idx == 64 * half_block + (IF group % 2 = 1 THEN 32 ELSE 0) + il
  IN  Linear(Nibble(ql_idx, IF group < 2 THEN 0 ELSE 1) \o Pair(128 + 32 * half_block + il, group),
             32, {Int8(192 + 8 * half_block + 2 * group + half), F16(208)})

\* Grid types: ib numbers the groups of 32 weights, il those of eight, k a weight.
Dequantize_IQ1_M(pos) ==
  LET ib == pos \div 32  il == (pos % 32) \div 8  qh == 32 + 2 * ib + il \div 2
      nibble == Nibble(qh, il % 2)
  IN  Weight(Byte(4 * ib + il) \o SubSeq(nibble, 1, 3), 0, "iq1s", pos % 8, SignBit(<<nibble[4]>>),
             {IQ1MBase(48), Odd(IQ1MScale(48, 2 * ib + il \div 2))})
Dequantize_IQ1_S(pos) ==
  LET ib == pos \div 32  il == (pos % 32) \div 8  qh == 34 + 2 * ib IN
  Weight(Byte(2 + 4 * ib + il) \o Bits(qh, 3 * il, 3), 0, "iq1s", pos % 8,
         SignBit(Bits(qh, 15, 1)), {F16(0), Odd(Bits(qh, 12, 3))})
Dequantize_IQ2_S(pos) ==
  LET ib == pos \div 32  il == (pos % 32) \div 8  k == pos % 8 IN
  Weight(Byte(2 + 4 * ib + il) \o Pair(66 + ib, il), 0, "iq2s", k,
         SignBit(Bits(34 + 4 * ib + il, k, 1)), {F16(0), Half(Nibble(74 + ib, il \div 2))})
Dequantize_IQ2_XS(pos) ==
  LET ib == pos \div 32  il == (pos % 32) \div 8  k == pos % 8
      q2 == Bits(2 + 2 * (4 * ib + il), 0, 16)
  IN  Weight(SubSeq(q2, 1, 9), 0, "iq2xs", k, Sign(SubSeq(q2, 10, 16), k),
             {F16(0), Half(Nibble(66 + ib, il \div 2))})
Dequantize_IQ2_XXS(pos) ==
  LET ib == pos \div 32  il == (pos % 32) \div 8  k == pos % 8
      aux32 == Bits(6 + 8 * ib, 0, 32)
  IN  Weight(Byte(2 + 8 * ib + il), 0, "iq2xxs", k, Sign(SubSeq(aux32, 7 * il + 1, 7 * il + 7), k),
             {F16(0), Half(SubSeq(aux32, 29, 32))})
Dequantize_IQ3_S(pos) ==
  LET ib == pos \div 32  il == (pos % 32) \div 8  k == pos % 8  half == k \div 4 IN
  Weight(Byte(2 + 8 * ib + 2 * il + half) \o Bits(66 + ib, 2 * il + half, 1), 0, "iq3s", k % 4,
         SignBit(Bits(74 + 4 * ib + il, k, 1)), {F16(0), Odd(Nibble(106 + ib \div 2, ib % 2))})
Dequantize_IQ3_XXS(pos) ==
  LET ib == pos \div 32  il == (pos % 32) \div 8  k == pos % 8  half == k \div 4
      aux32 == Bits(66 + 4 * ib, 0, 32)
  IN  Weight(Byte(2 + 8 * ib + 2 * il + half), 0, "iq3xxs", k % 4,
             Sign(SubSeq(aux32, 7 * il + 1, 7 * il + 7), k),
             {F16(0), Half(SubSeq(aux32, 29, 32))})
Dequantize_IQ4_XS(pos) ==
  LET ib == pos \div 32  rem == pos % 32 IN
  Coded(HalfNibble(8 + 16 * ib, rem), "iq4nl",
        {F16(0), Biased(Nibble(4 + ib \div 2, ib % 2) \o Bits(2, 2 * ib, 2), 32)})

\* _dequantize_llama_reference: the planes of a block, one after the other.
DequantizeLlama_Q1_0(pos) == Coded(Bits(2 + pos \div 8, pos % 8, 1), "+-1", {F16(0)})
DequantizeLlama_Q2_0(pos) == Linear(Pair(2 + pos \div 4, pos % 4), 1, {F16(0)})
DequantizeLlama_TQ2_0(pos) ==
  LET j == 32 * (pos \div 128)  shift == (pos % 128) \div 32 IN
  Linear(Pair(j + (pos % 32), shift), 1, {F16(64)})
DequantizeLlama_TQ1_0(pos) ==
  LET start == IF pos < 160 THEN 0 ELSE IF pos < 240 THEN 32 ELSE 48
      count == IF pos < 160 THEN 32 ELSE IF pos < 240 THEN 16 ELSE 4
      k == pos - 5 * start
  IN  Weight(Byte(start + (k % count)), 1, "trit", k \div count, NoSign, {F16(52)})

\* _dequantize_rocmfpx_reference: one scale byte for each run of 16 or 32
\* weights; triples of bytes hold eight 3-bit or four 6-bit codes.
Scale_ROCMFPX(byte) == Factor(Byte(byte), "rocmfpx", 0)
Triple(group) == Bits(3 * group, 0, 24)
DequantizeRocm_Q4_0_ROCMFP4(pos) ==
  Coded(HalfNibble(0, pos), "fp4", {Scale_ROCMFPX(16 + pos \div 16)})
DequantizeRocm_Q4_0_ROCMFP4_FAST(pos) == Coded(HalfNibble(0, pos), "fp4", {Scale_ROCMFPX(16)})
DequantizeRocm_Q2_0_ROCMFPX(pos) ==
  Coded(Pair(pos \div 4, pos % 4), "fp2", {Scale_ROCMFPX(8 + pos \div 16)})
DequantizeRocm_Q3_0_ROCMFPX(pos) ==
  LET k == pos % 8 IN
  Coded(SubSeq(Triple(pos \div 8), 3 * k + 1, 3 * k + 3), "fp3", {Scale_ROCMFPX(12 + pos \div 16)})
DequantizeRocm_Q6_0_ROCMFPX(pos) ==
  LET k == pos % 4 IN
  Coded(SubSeq(Triple(pos \div 4), 6 * k + 1, 6 * k + 6), "sign5",
        {Scale_ROCMFPX(24 + pos \div 16)})
DequantizeRocm_Q8_0_ROCMFPX(pos) == Coded(Byte(pos), "int8", {Scale_ROCMFPX(32)})

\* _decode_cpu of the dense kernels' modules.
DecodeCpu_MXFP4(pos) == Coded(HalfNibble(0, pos), "e2m1", {Factor(Byte(16), "e8m0", 0)})
DecodeCpu_NVFP4(pos) ==
  LET sub == pos \div 16  i == pos % 16 IN
  Coded(Nibble(4 + 8 * sub + (i % 8), i \div 8), "e2m1", {Factor(Byte(sub), "ue4m3", 0)})
DecodeCpu_Q4_0_ROCMFP4(pos) ==
  Coded(HalfNibble(0, pos), "fp4", {Scale_ROCMFPX(IF pos < 16 THEN 16 ELSE 17)})
DecodeCpu_Q4_0_ROCMFP4_FAST(pos) == Coded(HalfNibble(0, pos), "fp4", {Scale_ROCMFPX(16)})
DecodeCpu_Q8_0_ROCMFPX(pos) == Coded(Byte(pos), "int8", {Scale_ROCMFPX(32)})
DecodeCpu_Q6_0_ROCMFPX(pos) ==
  Coded(Packed(pos, 6, 24), "sign5", {Scale_ROCMFPX(IF pos < 16 THEN 24 ELSE 25)})
DecodeCpu_Q3_0_ROCMFPX(pos) ==
  Coded(Packed(pos, 3, 12), "fp3", {Scale_ROCMFPX(IF pos < 16 THEN 12 ELSE 13)})
DecodeCpu_Q2_0_ROCMFPX(pos) ==
  Coded(Bits(pos \div 4, 2 * (pos % 4), 2), "fp2", {Scale_ROCMFPX(IF pos < 16 THEN 8 ELSE 9)})
_decode_cpu(t, pos) ==
  CASE t = "MXFP4" -> DecodeCpu_MXFP4(pos) [] t = "NVFP4" -> DecodeCpu_NVFP4(pos)
    [] t = "Q4_0_ROCMFP4" -> DecodeCpu_Q4_0_ROCMFP4(pos)
    [] t = "Q4_0_ROCMFP4_FAST" -> DecodeCpu_Q4_0_ROCMFP4_FAST(pos)
    [] t = "Q8_0_ROCMFPX" -> DecodeCpu_Q8_0_ROCMFPX(pos)
    [] t = "Q6_0_ROCMFPX" -> DecodeCpu_Q6_0_ROCMFPX(pos)
    [] t = "Q3_0_ROCMFPX" -> DecodeCpu_Q3_0_ROCMFPX(pos)
    [] t = "Q2_0_ROCMFPX" -> DecodeCpu_Q2_0_ROCMFPX(pos)
=============================================================================
