----------------------------- MODULE BlockBits -----------------------------
(* The vocabulary in which a kernel's reading of one quantized block is      *)
(* described.  A block is a run of bytes; a bit is named by its address      *)
(* 8 * byte + position, low bit first, so that a code assembled from several *)
(* bytes is the sequence of the addresses of its bits, lowest first.  The    *)
(* prefix of a row-prefix type lies before its blocks, at negative bytes.    *)
(*                                                                           *)
(* A weight is described by where its parts come from, never by its value:   *)
(*   code    the bits of the integer code                                    *)
(*   zero    what is subtracted from the code                                *)
(*   table   the codebook, grid or arithmetic the code goes through ("" none)*)
(*   lane    which entry of a grid row, or which base-3 digit, it is         *)
(*   sign    the bits that choose its sign or its shift                      *)
(*   scale   the set of factors it is multiplied by                          *)
(*   min     the set of factors of what is subtracted from (added to) it     *)
(* Two kernels read the same weight when these records are equal.            *)
EXTENDS Integers, Sequences

Bits(byte, low, width) == [k \in 1..width |-> 8 * byte + low + k - 1]
Byte(byte) == Bits(byte, 0, 8)
Nibble(byte, high) == Bits(byte, 4 * high, 4)
Pair(byte, j) == Bits(byte, 2 * j, 2)

\* A factor: its bits, how they are read, and what is subtracted from them.
Factor(bits, as, bias) == [bits |-> bits, as |-> as, bias |-> bias]
F16(byte) == Factor(Bits(byte, 0, 16), "f16", 0)
F32(byte) == Factor(Bits(byte, 0, 32), "f32", 0)
Int8(byte) == Factor(Byte(byte), "int8", 0)
Uint(bits) == Factor(bits, "uint", 0)
Biased(bits, bias) == Factor(bits, "uint", bias)
\* A stored odd multiplier 2 * bits + 1, and the forms bits + 1/2.
Odd(bits) == Factor(bits, "2n+1", 0)
Half(bits) == Factor(bits, "n+1/2", 0)

\* A sign read from one bit, or from entry lane of a table of sign patterns.
Sign(bits, lane) == [bits |-> bits, lane |-> lane]
SignBit(bits) == Sign(bits, 0)
NoSign == Sign(<<>>, 0)

Weight(code, zero, table, lane, sign, scale) ==
  [code |-> code, zero |-> zero, table |-> table, lane |-> lane,
   sign |-> sign, scale |-> scale, min |-> {}]
Linear(code, zero, scale) == Weight(code, zero, "", 0, NoSign, scale)
Coded(code, table, scale) == Weight(code, 0, table, 0, NoSign, scale)
WithMin(w, min) == [w EXCEPT !.min = min]

\* A weight together with the column of the activations it is multiplied by.
At(x, w) == [x |-> x, w |-> w]

\* Mutant of load_x_tile: the activations of a joined tile taken in order.
load_x_tile_in_order(l) == l \div 2

\* Column l of a tile that joins the low and the high halves of a block: even
\* columns hold activation l \div 2, odd ones the activation 16 further on.
\* load_x_tile of the dense kernels and load_moe_x_tile of the expert kernels.
load_x_tile(l) == (l \div 2) + 16 * (l % 2)
load_moe_x_tile(l) == (l \div 2) + 16 * (l % 2)
\* The activation at lane l of a chunk that starts at k_start.
load_x_chunk(k_start, l) == k_start + l
load_moe_x_chunk(k_start, l) == k_start + l

\* Mutant of load_scale_min_k4: the top bits of the minimum are those of the scale.
load_scale_min_k4_shared_top(s, j) ==
  IF j < 4
  THEN [d |-> Bits(s + j, 0, 6), m |-> Bits(s + j + 4, 0, 6)]
  ELSE [d |-> Nibble(s + j + 4, 0) \o Pair(s + j - 4, 3),
        m |-> Nibble(s + j + 4, 1) \o Pair(s + j - 4, 3)]

\* The 6-bit scale and minimum number j of a Q4_K or Q5_K block, packed in the
\* twelve bytes that start at s.
load_scale_min_k4(s, j) ==
  IF j < 4
  THEN [d |-> Bits(s + j, 0, 6), m |-> Bits(s + j + 4, 0, 6)]
  ELSE [d |-> Nibble(s + j + 4, 0) \o Pair(s + j - 4, 3),
        m |-> Nibble(s + j + 4, 1) \o Pair(s + j, 3)]

\* The 6-bit scale number i of a Q3_K block, packed in twelve bytes from s.
load_q3_k_scale(s, i) ==
  CASE i < 4  -> Nibble(s + i, 0) \o Pair(s + i + 8, 0)
    [] i \in 4..7  -> Nibble(s + i, 0) \o Pair(s + i + 4, 1)
    [] i \in 8..11 -> Nibble(s + i - 8, 1) \o Pair(s + i, 2)
    [] i >= 12 -> Nibble(s + i - 8, 1) \o Pair(s + i - 4, 3)

\* Code number k of a stream of codes of the given width packed back to back in
\* the first payload bytes: a code may straddle two bytes, and the load of the
\* second is clamped to the last byte of the payload.
Packed(k, width, payload) ==
  LET byte == (k * width) \div 8
      shift == (k * width) % 8
      next == IF byte + 1 < payload THEN byte + 1 ELSE payload - 1
  IN  [b \in 1..width |-> IF shift + b - 1 < 8 THEN 8 * byte + shift + b - 1
                                              ELSE 8 * next + shift + b - 9]

\* The byte and the base-3 digit of weight k of a TQ1_0 block: 32 bytes of five
\* digits, 16 bytes of five, and 4 bytes of four.
Trit(k) ==
  CASE k < 160 -> [byte |-> k % 32, plane |-> k \div 32]
    [] k \in 160..239 -> [byte |-> 32 + ((k - 160) % 16), plane |-> (k - 160) \div 16]
    [] k >= 240 -> [byte |-> 48 + ((k - 240) % 4), plane |-> (k - 240) \div 4]

\* The base scale of an IQ1_M block: the top nibbles of four 16-bit words.
IQ1MBase(s) ==
  Factor(Bits(s + 1, 4, 4) \o Bits(s + 3, 4, 4) \o Bits(s + 5, 4, 4) \o Bits(s + 7, 4, 4),
         "f16", 0)
\* Its 3-bit scale number i of sixteen, four to a word.
IQ1MScale(s, i) == Bits(s + 2 * (i \div 4), 3 * (i % 4), 3)
=============================================================================
