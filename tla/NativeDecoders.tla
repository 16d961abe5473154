--------------------------- MODULE NativeDecoders ---------------------------
(* The CUDA kernels that dequantize the ik_llama types: every kernel starts  *)
(* one thread per group of a block; the weight it writes at position pos.    *)
(* They serve where the native extension is built.                           *)
EXTENDS BlockBits

\* The row scale of I2_S lies after the row.
NativeSuffix == Factor(<<>>, "f32 after the row", 0)
Doubled(bits) == Factor(bits, "2n", 127)

Native_Q6_0(pos) ==
  LET j == pos % 16  h == 4 * (j \div 8) IN
  IF pos < 16 THEN Linear(Bits(10 + j, 0, 4) \o Bits(2 + (j % 8), h, 2), 32, {F16(0)})
              ELSE Linear(Bits(10 + j, 4, 4) \o Bits(2 + (j % 8), h + 2, 2), 32, {F16(0)})
Native_I2_S(pos) ==
  LET ig == pos \div 32 IN Linear(Bits(pos % 32, 6 - 2 * ig, 2), 1, {NativeSuffix})
\* The product with 3^digit is cut to a byte.
Native_IQ1_BN(pos) ==
  LET i16 == pos \div 16  lane == pos % 16
      byte == IF lane = 15 THEN 12 ELSE 3 * i16 + lane \div 5
      digit == IF lane = 15 THEN i16 ELSE lane % 5
  IN  Weight(Byte(byte), 1, "trit uint8", digit, NoSign, {F16(-2)})
Native_IQ2_BN(pos) ==
  LET stream == pos \div 16 IN Linear(Bits(pos % 16, 2 * stream, 2), 1, {F32(-4)})

Native_IQ2_K(pos) ==
  LET ib32 == pos \div 32  j == pos % 32  second == IF j < 16 THEN 0 ELSE 1 IN
  Coded(Bits(12 + 32 * (ib32 \div 4) + j, 2 * (ib32 % 4), 2)
          \o Bits(2, 2 * ib32 + second, 1), "iq2nl",
        {F16(0), Biased(Bits(4 + ib32, 4 * second, 4), 8)})
Native_IQ3_K(pos) ==
  LET ib32 == pos \div 32  j == pos % 32  second == IF j < 16 THEN 0 ELSE 1 IN
  Weight(Bits(14 + 32 * (ib32 \div 4) + j, 2 * (ib32 % 4), 2) \o Bits(78 + j, ib32 % 8, 1)
           \o Bits(2, 2 * ib32 + second, 1), 0, "iq3nl", 0,
         SignBit(Bits(4, 2 * ib32 + second, 1)), {F16(0), Odd(Bits(6 + ib32, 4 * second, 4))})
Native_IQ4_K(pos) ==
  LET ib32 == pos \div 32  second == IF pos % 32 < 16 THEN 0 ELSE 1
      sh == Bits(4 + ib32 \div 2, 4 * (ib32 % 2), 4)
  IN  Coded(Bits(16 + 16 * ib32 + (pos % 16), 4 * second, 4) \o Bits(2, 2 * ib32 + second, 1), "iq4k",
            {F16(0), Biased(Bits(8 + ib32, 4 * second, 4)
                              \o (IF second = 0 THEN SubSeq(sh, 1, 2) ELSE SubSeq(sh, 3, 4)), 32)})
Native_IQ5_K(pos) ==
  LET ib32 == pos \div 32  ib64 == ib32 \div 2  hi == ib32 % 2
      j == pos % 32  second == IF j < 16 THEN 0 ELSE 1
      sh == Bits(4 + ib64, (IF hi = 1 THEN 4 ELSE 0) + 2 * second, 2)
  IN  Coded(Bits(16 + 32 * ib64 + j, 4 * hi, 4) \o Bits(144 + j, 2 * ib64 + hi, 1)
              \o Bits(2, 4 * ib64 + 2 * hi + second, 1), "iq5nl",
            {F16(0), Biased(Bits(8 + 2 * ib64 + hi, 4 * second, 4) \o sh, 32)})
Native_IQ6_K(pos) ==
  LET ib32 == pos \div 32  ib64 == ib32 \div 2  hi == ib32 % 2
      j == pos % 32  second == IF j < 16 THEN 0 ELSE 1
  IN  Coded(Bits(20 + 32 * ib64 + j, 4 * hi, 4)
              \o Bits(148 + 32 * (ib64 \div 2) + j, 4 * (ib64 % 2) + 2 * hi, 2)
              \o Bits(2, 4 * ib64 + 2 * hi + second, 1), "iq6nl",
            {F16(0), Int8(4 + 4 * ib64 + 2 * hi + second)})

Native_IQ2_KS(pos) ==
  LET ib64 == pos \div 64  j == pos % 32  second == IF pos % 64 < 32 THEN 0 ELSE 1 IN
  Coded(Bits(6 + 32 * (ib64 \div 2) + j, 4 * (ib64 % 2) + 2 * second, 2)
          \o Bits(0, 2 * ib64 + second, 1), "iq2nl",
        {F16(-2), Biased(Bits(2 + ib64, 4 * second, 4) \o Bits(0, 2 * ib64 + 8 + second, 1), 16)})
Native_IQ3_KS(pos) ==
  LET ib32 == pos \div 32  j == pos % 32  i128 == ib32 \div 4  ib == ib32 % 4
      scale == IF ib32 < 4 THEN Bits(2 + ib, 0, 4) \o Bits(0, ib, 1)
                           ELSE Bits(2 + ib, 4, 4) \o Bits(0, ib + 4, 1)
  IN  Coded(Bits(6 + 32 * i128 + j, 2 * ib, 2) \o Bits(70 + j, 4 * i128 + ib, 1)
              \o Bits(0, 8 + ib32, 1), "iq3nl", {F16(-2), Biased(scale, 16)})
Native_IQ4_KS(pos) ==
  LET ib32 == pos \div 32  second == IF pos % 32 < 16 THEN 0 ELSE 1 IN
  Coded(Bits(8 + 16 * ib32 + (pos % 16), 4 * second, 4) \o Bits(ib32, 0, 1), "iq4k",
        {F32(-4), Doubled(Bits(ib32, 1, 7))})
\* Bit 0 of the scale byte selects the half of the codebook.
Native_IQ5_KS(pos) ==
  LET ib64 == pos \div 64  j == pos % 32  second == IF pos % 64 < 32 THEN 0 ELSE 1
      scale == 2 * ib64 + second
  IN  Coded(Bits(8 + 32 * ib64 + j, 4 * second, 4) \o Bits(136 + j, 2 * ib64 + second, 1)
              \o Bits(scale, 0, 1), "iq5nl", {F32(-4), Doubled(Bits(scale, 1, 7))})

Native_IQ4_KSS(pos) ==
  LET ib32 == pos \div 32  b == pos % 16
      low == 8 * (b % 2) + (IF pos % 32 < 16 THEN 0 ELSE 4)
      word == 8 * (16 * ib32 + 2 * (b \div 2))
      \* aux16 ^= aux16 >> 1 with bit 0 cleared: bits low to low + 4 of the word.
      first == IF low = 0 THEN 1 ELSE low
      code == [k \in 1..(IF low \in {0, 12} THEN 4 ELSE 5) |-> word + first + k - 1]
      ls == [j \in 1..8 |-> 8 * (16 * ib32 + 2 * (j - 1))]
  IN  Weight(code \o <<ls[1]>>, 0, "grey iq4k", low \div 4, NoSign, {F32(-4), Doubled(Tail(ls))})
Native_IQ2_KL(pos) ==
  LET ib64 == pos \div 64  second == IF pos % 64 < 32 THEN 0 ELSE 1  j == (pos % 32) \div 2
      scale == Bits(2 + ((2 * ib64 + second) % 4), 4 * (ib64 \div 2), 4)
                 \o Bits(0, 4 * ib64 + 2 * second, 2)
  IN  Weight(Bits(6 + 16 * ib64 + j, 4 * second, 4) \o Bits(70 + j, 2 * ib64 + second, 1),
             0, "iq2kl", pos % 2, NoSign, {F16(-2), Biased(scale, 32)})

Native_IQ1_KT(pos) ==
  LET group == pos \div 8  ib == group \div 4  ig == group % 4
      idx == Byte(8 + group) \o Bits(40 + 4 * (ib % 4) + ig, 4 * (ib \div 4), 4) \o Bits(ib, ig + 4, 1)
  IN  Weight(idx, 4096, "trellis", pos % 8, NoSign, {F32(-4), Factor(Bits(ib, 0, 4), "iq4nl", 0)})
Native_IQ2_KT(pos) ==
  LET group == (pos % 128) \div 8  high == pos \div 128 IN
  Weight(Bits(4 + 2 * group + 32 * high, 0, 16), 4096, "trellis", pos % 8, NoSign,
         {F32(-4), Factor(Bits(group \div 4, 4 * high, 4), "iq4nl", 0)})
Native_IQ3_KT(pos) ==
  LET group == (pos % 128) \div 8  high == pos \div 128  ib == group \div 4  ig == group % 4 IN
  Weight(Bits(4 + 2 * group + 32 * high, 0, 16), 4096, "trellis of integers", pos % 8,
         SignBit(Bits(68 + 8 * ig + (pos % 8), ib + 4 * high, 1)),
         {F32(-4), Uint(Bits(ib, 4 * high, 4))})
Native_IQ4_KT(pos) ==
  LET group == pos \div 4  ib == group \div 8  ig == group % 8
      idx == Byte(32 + group) \o Bits(96 + (group % 32), 4 * (group \div 32), 4)
               \o Bits(4 * ib + 1, 3 * ig, 3)
  IN  Weight(idx, 4096, "trellis", pos % 4, SignBit(Bits(4 * ib, 0, 1)),
             {F32(-4), Biased(Bits(4 * ib, 1, 7), 64)})

ggml_get_to_cuda(t, pos) ==
  CASE t = "Q6_0" -> Native_Q6_0(pos) [] t = "I2_S" -> Native_I2_S(pos)
    [] t = "IQ1_BN" -> Native_IQ1_BN(pos) [] t = "IQ2_BN" -> Native_IQ2_BN(pos)
    [] t = "IQ2_K" -> Native_IQ2_K(pos) [] t = "IQ3_K" -> Native_IQ3_K(pos)
    [] t = "IQ4_K" -> Native_IQ4_K(pos) [] t = "IQ5_K" -> Native_IQ5_K(pos)
    [] t = "IQ6_K" -> Native_IQ6_K(pos) [] t = "IQ2_KS" -> Native_IQ2_KS(pos)
    [] t = "IQ3_KS" -> Native_IQ3_KS(pos) [] t = "IQ4_KS" -> Native_IQ4_KS(pos)
    [] t = "IQ5_KS" -> Native_IQ5_KS(pos) [] t = "IQ4_KSS" -> Native_IQ4_KSS(pos)
    [] t = "IQ2_KL" -> Native_IQ2_KL(pos) [] t = "IQ1_KT" -> Native_IQ1_KT(pos)
    [] t = "IQ2_KT" -> Native_IQ2_KT(pos) [] t = "IQ3_KT" -> Native_IQ3_KT(pos)
    [] t = "IQ4_KT" -> Native_IQ4_KT(pos)
=============================================================================
