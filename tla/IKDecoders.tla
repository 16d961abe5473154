----------------------------- MODULE IKDecoders -----------------------------
(* The tensor decoders of the ik_llama types, in Python: the weight that a   *)
(* decoder writes at position pos of a block.  They serve where the native   *)
(* extension is not built; a row-prefix type keeps its row scale at negative *)
(* bytes.  A bit that selects one half of a codebook is the top bit of the   *)
(* code.                                                                     *)
EXTENDS BlockBits

\* The scale of an I2_S row, stored after the row instead of before it.
RowSuffix == Factor(<<>>, "f32 after the row", 0)
\* A scale byte whose bit 0 means something else: (s & 254) - 127.
EvenScale(bits) == Factor(bits, "2n", 127)

Ref_Q6_0(pos) ==
  LET i == pos % 16  half == pos \div 16 IN
  Linear(Nibble(10 + i, half) \o Pair(2 + (i % 8), 2 * (i \div 8) + half), 32, {F16(0)})
Ref_I2_S(pos) == Linear(Pair(pos % 32, 3 - pos \div 32), 1, {RowSuffix})
\* Mutant of Ref_IQ1_BN: the sixteenth weight of a group read like the others.
Ref_IQ1_BN_without_extra(pos) ==
  LET group == pos \div 16  lane == pos % 16 IN
  Weight(Byte(3 * group + lane \div 5), 1, "trit int32", 4 - (lane % 5), NoSign, {F16(-2)})
\* The product q * 3^digit is not cut to a byte before its top bits are taken.
Ref_IQ1_BN(pos) ==
  LET group == pos \div 16  lane == pos % 16
      q_index == 3 * group + (IF lane \div 5 < 2 THEN lane \div 5 ELSE 2)
  IN  IF lane = 15 THEN Weight(Byte(12), 1, "trit int32", 4 - group, NoSign, {F16(-2)})
                   ELSE Weight(Byte(q_index), 1, "trit int32", 4 - (lane % 5), NoSign, {F16(-2)})
Ref_IQ2_BN(pos) == Linear(Pair(pos % 16, pos \div 16), 1, {F32(-4)})

Ref_IQ2_K(pos) ==
  LET ib == pos \div 32  i == pos % 32  half == i \div 16 IN
  Coded(Pair(12 + 32 * (ib \div 4) + i, ib % 4) \o Bits(2, 2 * ib + half, 1), "iq2nl",
        {F16(0), Biased(Nibble(4 + ib, half), 8)})
Ref_IQ3_K(pos) ==
  LET ib == pos \div 32  i == pos % 32  half == i \div 16
      code == Pair(14 + 32 * (ib \div 4) + i, ib % 4) \o Bits(78 + i, ib, 1)
  IN  Weight(code \o Bits(2, 2 * ib + half, 1), 0, "iq3nl", 0, SignBit(Bits(4, 2 * ib + half, 1)),
             {F16(0), Odd(Nibble(6 + ib, half))})
Ref_IQ4_K(pos) ==
  LET ib == pos \div 32  half == (pos % 32) \div 16  j == pos % 16 IN
  Coded(Nibble(16 + 16 * ib + j, half) \o Bits(2, 2 * ib + half, 1), "iq4k",
        {F16(0), Biased(Nibble(8 + ib, half) \o Pair(4 + ib \div 2, 2 * (ib % 2) + half), 32)})
Ref_IQ5_K(pos) ==
  LET ib32 == pos \div 32  ib64 == ib32 \div 2  hi == ib32 % 2
      i == pos % 32  half == i \div 16
      code == Nibble(16 + 32 * ib64 + i, hi) \o Bits(144 + i, 2 * ib64 + hi, 1)
  IN  Coded(code \o Bits(2, 4 * ib64 + 2 * hi + half, 1), "iq5nl",
            {F16(0), Biased(Nibble(8 + 2 * ib64 + hi, half) \o Pair(4 + ib64, 2 * hi + half), 32)})
Ref_IQ6_K(pos) ==
  LET ib32 == pos \div 32  ib64 == ib32 \div 2  hi == ib32 % 2
      i == pos % 32  half == i \div 16
      code == Nibble(20 + 32 * ib64 + i, hi)
                \o Pair(148 + 32 * (ib64 \div 2) + i, 2 * (ib64 % 2) + hi)
  IN  Coded(code \o Bits(2, 4 * ib64 + 2 * hi + half, 1), "iq6nl",
            {F16(0), Int8(4 + 4 * ib64 + 2 * hi + half)})

Ref_IQ2_KS(pos) ==
  LET ib == pos \div 64  half == (pos % 64) \div 32  i == pos % 32 IN
  Coded(Pair(6 + 32 * (ib \div 2) + i, 2 * (ib % 2) + half) \o Bits(0, 2 * ib + half, 1), "iq2nl",
        {F16(-2), Biased(Nibble(2 + ib, half) \o Bits(0, 2 * ib + 8 + half, 1), 16)})
\* Mutant of Ref_IQ3_KS: the codes start where the scales do.
Ref_IQ3_KS_at_scales(pos) ==
  LET ib == pos \div 32  i == pos % 32
      code == Pair(2 + 32 * (ib \div 4) + i, ib % 4) \o Bits(70 + i, ib, 1)
      scale == Nibble(2 + (ib % 4), ib \div 4) \o Bits(0, ib, 1)
  IN  Coded(code \o Bits(0, 8 + ib, 1), "iq3nl", {F16(-2), Factor(scale, "uint8 wrapping", 16)})
\* The scale stays a uint8 tensor: subtracting 16 from it wraps below zero.
Ref_IQ3_KS(pos) ==
  LET ib == pos \div 32  i == pos % 32
      code == Pair(6 + 32 * (ib \div 4) + i, ib % 4) \o Bits(70 + i, ib, 1)
      scale == Nibble(2 + (ib % 4), ib \div 4) \o Bits(0, ib, 1)
  IN  Coded(code \o Bits(0, 8 + ib, 1), "iq3nl", {F16(-2), Factor(scale, "uint8 wrapping", 16)})
Ref_IQ4_KS(pos) ==
  LET ib == pos \div 32  half == (pos % 32) \div 16  j == pos % 16 IN
  Coded(Nibble(8 + 16 * ib + j, half) \o Bits(ib, 0, 1), "iq4k",
        {F32(-4), EvenScale(Bits(ib, 1, 7))})
\* Bit 0 of the scale byte is dropped: only the first half of the codebook is used.
Ref_IQ5_KS(pos) ==
  LET ib == pos \div 64  half == (pos % 64) \div 32  i == pos % 32 IN
  Coded(Nibble(8 + 32 * ib + i, half) \o Bits(136 + i, 2 * ib + half, 1), "iq5nl first half",
        {F32(-4), EvenScale(Bits(2 * ib + half, 1, 7))})

\* A group of 32 weights is eight 16-bit words; bit 0 of each is a bit of the
\* scale, the rest is a Grey code of which each weight takes a nibble.
Ref_IQ4_KSS(pos) ==
  LET group == pos \div 32  b == pos % 16  n == 2 * (b % 2) + ((pos % 32) \div 16)
      word == 16 * group + 2 * (b \div 2)
      code == CASE n = 0 -> Bits(word, 1, 4) [] n = 3 -> Bits(word, 12, 4)
                [] n \in {1, 2} -> Bits(word, 4 * n, 5)
      ls == [j \in 1..8 |-> 8 * (16 * group + 2 * (j - 1))]
  IN  Weight(code \o <<ls[1]>>, 0, "grey iq4k", n, NoSign, {F32(-4), EvenScale(Tail(ls))})
Ref_IQ2_KL(pos) ==
  LET ib == pos \div 64  half == (pos % 64) \div 32  j == (pos % 32) \div 2
      scale == Nibble(2 + ((2 * ib + half) % 4), ib \div 2) \o Pair(0, 2 * ib + half)
  IN  Weight(Nibble(6 + 16 * ib + j, half) \o Bits(70 + j, 2 * ib + half, 1), 0, "iq2kl", pos % 2,
             NoSign, {F16(-2), Biased(scale, 32)})

\* Trellis types: the code seeds a generator, the lane is the draw.
Ref_IQ1_KT(pos) ==
  LET i == pos \div 8  ib == i \div 4  ig == i % 4
      seed == Byte(8 + i) \o Nibble(40 + 4 * (ib % 4) + ig, ib \div 4) \o Bits(ib, 4 + ig, 1)
  IN  Weight(seed, 4096, "trellis", pos % 8, NoSign, {F32(-4), Factor(Nibble(ib, 0), "iq4nl", 0)})
Ref_IQ2_KT(pos) ==
  LET half == pos \div 128  i == (pos % 128) \div 8 IN
  Weight(Bits(4 + 2 * (16 * half + i), 0, 16), 4096, "trellis", pos % 8, NoSign,
         {F32(-4), Factor(Nibble(i \div 4, half), "iq4nl", 0)})
Ref_IQ3_KT(pos) ==
  LET half == pos \div 128  i == (pos % 128) \div 8  j == pos % 8 IN
  Weight(Bits(4 + 2 * (16 * half + i), 0, 16), 4096, "trellis of integers", j,
         SignBit(Bits(68 + 8 * (i % 4) + j, i \div 4 + 4 * half, 1)),
         {F32(-4), Uint(Nibble(i \div 4, half))})
Ref_IQ4_KT(pos) ==
  LET group == pos \div 4  ib == group \div 8  ig == group % 8
      seed == Byte(32 + group) \o Nibble(96 + (group % 32), group \div 32)
                \o Bits(4 * ib, 8 + 3 * ig, 3)
  IN  Weight(seed, 4096, "trellis", pos % 4, SignBit(Bits(4 * ib, 0, 1)),
             {F32(-4), Biased(Bits(4 * ib, 1, 7), 64)})

IKTypes == {"Q6_0", "I2_S", "IQ1_BN", "IQ2_BN", "IQ2_K", "IQ3_K", "IQ4_K", "IQ5_K", "IQ6_K",
            "IQ2_KS", "IQ3_KS", "IQ4_KS", "IQ5_KS", "IQ4_KSS", "IQ2_KL",
            "IQ1_KT", "IQ2_KT", "IQ3_KT", "IQ4_KT"}
REFERENCE_DECODERS(t, pos) ==
  CASE t = "Q6_0" -> Ref_Q6_0(pos) [] t = "I2_S" -> Ref_I2_S(pos)
    [] t = "IQ1_BN" -> Ref_IQ1_BN(pos) [] t = "IQ2_BN" -> Ref_IQ2_BN(pos)
    [] t = "IQ2_K" -> Ref_IQ2_K(pos) [] t = "IQ3_K" -> Ref_IQ3_K(pos)
    [] t = "IQ4_K" -> Ref_IQ4_K(pos) [] t = "IQ5_K" -> Ref_IQ5_K(pos)
    [] t = "IQ6_K" -> Ref_IQ6_K(pos) [] t = "IQ2_KS" -> Ref_IQ2_KS(pos)
    [] t = "IQ3_KS" -> Ref_IQ3_KS(pos) [] t = "IQ4_KS" -> Ref_IQ4_KS(pos)
    [] t = "IQ5_KS" -> Ref_IQ5_KS(pos) [] t = "IQ4_KSS" -> Ref_IQ4_KSS(pos)
    [] t = "IQ2_KL" -> Ref_IQ2_KL(pos) [] t = "IQ1_KT" -> Ref_IQ1_KT(pos)
    [] t = "IQ2_KT" -> Ref_IQ2_KT(pos) [] t = "IQ3_KT" -> Ref_IQ3_KT(pos)
    [] t = "IQ4_KT" -> Ref_IQ4_KT(pos)
=============================================================================
