------------------------- MODULE PackedColumnsProofs -------------------------
(***************************************************************************)
(* The packed columns of the row-parallel layers: a rank decodes its own   *)
(* columns exactly when neither the slice of its share nor the move of its *)
(* heads cuts a block, for every format, every size of a head, every       *)
(* number of heads and every number of ranks.                              *)
(***************************************************************************)
EXTENDS PackedRowsProofs

-----------------------------------------------------------------------------
(* Where a swap of groups takes an item from.                              *)

Total(a, b, d) == (a * b) * d

Moved(i, a, b, d) ==
  LET g == (i - 1) \div d
  IN  ((g % a) * b + (g \div a)) * d + ((i - 1) % d) + 1

\* Item j of group (x, y), of width d.
Place(x, a, y, d, j) == (x * a + y) * d + j + 1

\* Every place is one of an item of a group.
LEMMA Places ==
  ASSUME NEW a \in Nat \ {0}, NEW b \in Nat \ {0}, NEW d \in Nat \ {0},
         NEW i \in 1 .. Total(a, b, d)
  PROVE  \E x \in 0 .. b - 1, y \in 0 .. a - 1, j \in 0 .. d - 1 : i = Place(x, a, y, d, j)
<1> DEFINE g == (i - 1) \div d
           j == (i - 1) % d
           x == g \div a
           y == g % a
           n == a * b
<1>0. n \in Nat \ {0} /\ n = b * a
  BY Products
<1>1. g \in 0 .. n - 1 /\ j \in 0 .. d - 1 /\ i - 1 = g * d + j
  <2>1. i - 1 \in Nat /\ i - 1 < n * d
    BY <1>0 DEF Total
  <2>. HIDE DEF n
  <2>. QED
    BY <1>0, <2>1, Remainder
<1>2. x \in 0 .. b - 1 /\ y \in 0 .. a - 1 /\ g = x * a + y
  <2>1. g \in Nat /\ g < b * a
    BY <1>0, <1>1
  <2>. HIDE DEF g
  <2>. QED
    BY <2>1, Remainder
<1>3. i = g * d + j + 1
  BY <1>1
<1>. HIDE DEF g, j, x, y
<1>4. i = Place(x, a, y, d, j)
  BY <1>2, <1>3 DEF Place
<1>. QED
  BY <1>1, <1>2, <1>4

\* A swap reads group (y, x) for group (x, y).
Exchanged(x, a, y, b, d, j) ==
  /\ Moved(Place(x, a, y, d, j), a, b, d) = Place(y, b, x, d, j)
  /\ Place(x, a, y, d, j) \in 1 .. Total(a, b, d)

LEMMA MovedPlace ==
  ASSUME NEW a \in Nat \ {0}, NEW b \in Nat \ {0}, NEW d \in Nat \ {0},
         NEW x \in 0 .. b - 1, NEW y \in 0 .. a - 1, NEW j \in 0 .. d - 1
  PROVE  Exchanged(x, a, y, b, d, j)
<1> DEFINE q == x * a + y
           i == q * d + j + 1
<1>1. q \in Nat /\ q < b * a
  BY Pairing
<1>2. (i - 1) \div d = q /\ (i - 1) % d = j
  <2>. HIDE DEF q
  <2>1. i - 1 = q * d + j
    BY <1>1
  <2>. QED
    BY <1>1, <2>1, Division
<1>3. q % a = y /\ q \div a = x
  <2>1. x \in Nat /\ y \in Nat /\ y < a
    OBVIOUS
  <2>. QED
    BY <2>1, Division
<1>4. Moved(i, a, b, d) = Place(y, b, x, d, j)
  <2>. HIDE DEF i, q
  <2>. QED
    BY <1>2, <1>3 DEF Moved, Place
<1>5. i \in 1 .. Total(a, b, d)
  <2> DEFINE n == a * b
  <2>1. n \in Nat \ {0} /\ q \in 0 .. n - 1
    BY <1>1, Products
  <2>2. q * d + j \in Nat /\ q * d + j < n * d
    <3>. HIDE DEF n, q
    <3>. QED
      BY <2>1, Pairing
  <2>3. n * d \in Nat
    <3>. HIDE DEF n
    <3>. QED
      BY <2>1
  <2>. HIDE DEF q, n
  <2>4. i \in 1 .. n * d
    BY <2>2, <2>3
  <2>. QED
    BY <2>4 DEF n, Total
<1>. QED
  BY <1>4, <1>5 DEF Place, Exchanged

\* The places of a swap are those of the tensor.
LEMMA MovedInside ==
  ASSUME NEW a \in Nat \ {0}, NEW b \in Nat \ {0}, NEW d \in Nat \ {0},
         NEW i \in 1 .. Total(a, b, d)
  PROVE  Moved(i, a, b, d) \in 1 .. Total(a, b, d)
<1>1. PICK x \in 0 .. b - 1, y \in 0 .. a - 1, j \in 0 .. d - 1 : i = Place(x, a, y, d, j)
  BY Places
<1>2. Moved(i, a, b, d) = Place(y, b, x, d, j)
  BY <1>1, MovedPlace DEF Exchanged
<1>3. Place(y, b, x, d, j) \in 1 .. Total(b, a, d)
  BY MovedPlace DEF Exchanged
<1>4. Total(b, a, d) = Total(a, b, d)
  BY DEF Total
<1>. QED
  BY <1>2, <1>3, <1>4

\* The first group stays, and nothing else comes to its place.
LEMMA FirstGroup ==
  ASSUME NEW a \in Nat \ {0}, NEW b \in Nat \ {0}, NEW d \in Nat \ {0},
         NEW i \in 1 .. Total(a, b, d), NEW j \in 0 .. d - 1
  PROVE  Moved(i, a, b, d) = j + 1 <=> i = j + 1
<1>1. Place(0, a, 0, d, j) = j + 1 /\ Place(0, b, 0, d, j) = j + 1
  BY DEF Place
<1>2. 0 \in 0 .. a - 1 /\ 0 \in 0 .. b - 1
  OBVIOUS
<1>3. i = j + 1 => Moved(i, a, b, d) = j + 1
  BY <1>1, <1>2, MovedPlace DEF Exchanged
<1>4. ASSUME Moved(i, a, b, d) = j + 1 PROVE i = j + 1
  <2>1. PICK x \in 0 .. b - 1, y \in 0 .. a - 1, e \in 0 .. d - 1 : i = Place(x, a, y, d, e)
    BY Places
  <2>2. Place(y, b, x, d, e) = j + 1
    BY <1>4, <2>1, MovedPlace DEF Exchanged
  <2> DEFINE q == y * b + x
  <2>3. q \in Nat
    BY Pairing
  <2>4. q * d + e = j
    BY <2>2, <2>3 DEF Place
  <2>5. q = 0
    <3>1. (q * d + e) \div d = q
      <4>. HIDE DEF q
      <4>. QED
        BY <2>3, Division
    <3>2. j \div d = 0
      <4>1. (0 * d + j) \div d = 0
        BY Division
      <4>. QED
        BY <4>1
    <3>. QED
      BY <2>4, <3>1, <3>2
  <2>6. x = 0 /\ y = 0
    <3>1. y * b \in Nat /\ (y # 0 => y * b >= b)
      <4>1. y # 0 => 0 * b + b <= y * b
        BY Products
      <4>. QED
        BY <4>1
    <3>. QED
      BY <2>5, <3>1
  <2>. QED
    BY <2>1, <2>4, <2>5, <2>6 DEF Place
<1>. QED
  BY <1>3, <1>4

\* What a swap of groups makes of a sequence, place by place.
LEMMA SwappedPlaces ==
  ASSUME NEW S, NEW s \in Seq(S), NEW a, NEW b, NEW d
  PROVE  /\ Swapped(s, a, b, d) = [i \in 1 .. Len(s) |-> s[Moved(i, a, b, d)]]
         /\ \A i \in 1 .. Len(s) : Swapped(s, a, b, d)[i] = s[Moved(i, a, b, d)]
  BY DEF Swapped, Moved

\* With one group on either side a swap is no move.
LEMMA SwappedAlone ==
  ASSUME NEW S, NEW s \in Seq(S), NEW a \in Nat \ {0}, NEW b \in Nat \ {0},
         NEW d \in Nat \ {0}, Len(s) = Total(a, b, d), a = 1 \/ b = 1
  PROVE  Swapped(s, a, b, d) = s
<1>1. ASSUME NEW i \in 1 .. Total(a, b, d) PROVE Moved(i, a, b, d) = i
  <2>1. PICK x \in 0 .. b - 1, y \in 0 .. a - 1, j \in 0 .. d - 1 : i = Place(x, a, y, d, j)
    BY Places
  <2>2. Moved(i, a, b, d) = Place(y, b, x, d, j)
    BY <2>1, MovedPlace DEF Exchanged
  <2>3. CASE a = 1
    BY <2>1, <2>2, <2>3 DEF Place
  <2>4. CASE b = 1
    BY <2>1, <2>2, <2>4 DEF Place
  <2>. QED
    BY <2>3, <2>4
<1>2. s = [i \in 1 .. Len(s) |-> s[i]]
  OBVIOUS
<1>. QED
  BY <1>1, <1>2, SwappedPlaces
-----------------------------------------------------------------------------
(* Packed rows.                                                            *)

Piece == [of : Seq(Slot), byte : Nat]

Format(f) == f.weights \in Nat \ {0} /\ f.bytes \in Nat \ {0} /\ f.prefix \in Nat

\* The columns of a block, and a sequence of so many blocks.
Block(s, b, f) == SubSeq(s, b * f.weights + 1, (b + 1) * f.weights)
Columns(s, f, nb) == s \in Seq(Slot) /\ Len(s) = nb * f.weights

\* The place of a column and that of a byte, of block b.
ColumnAt(b, f, j) == b * f.weights + j + 1
ByteAt(b, f, j) == f.prefix + b * f.bytes + j + 1

\* t has the prefix, then the bytes of nb blocks.
IsPacked(t, s, f, nb) ==
  /\ t \in Seq(Piece) /\ Len(t) = f.prefix + nb * f.bytes
  /\ \A i \in 1 .. f.prefix : t[i] = [of |-> <<>>, byte |-> i - 1]
  /\ \A b \in 0 .. nb - 1, j \in 0 .. f.bytes - 1 :
       t[ByteAt(b, f, j)] = [of |-> Block(s, b, f), byte |-> j]

\* Every column belongs to a block, and every byte behind the prefix.
LEMMA ColumnPlaces ==
  ASSUME NEW f, Format(f), NEW nb \in Nat, NEW s, Columns(s, f, nb), NEW i \in 1 .. Len(s)
  PROVE  \E b \in 0 .. nb - 1, j \in 0 .. f.weights - 1 : i = ColumnAt(b, f, j)
<1> DEFINE w == f.weights
           b == (i - 1) \div w
           j == (i - 1) % w
<1>1. w \in Nat \ {0} /\ Len(s) = nb * w /\ nb # 0
  BY DEF Format, Columns
<1>2. b \in 0 .. nb - 1 /\ j \in 0 .. w - 1 /\ i - 1 = b * w + j
  <2>1. i - 1 \in Nat /\ i - 1 < nb * w /\ nb \in Nat \ {0}
    BY <1>1
  <2>. HIDE DEF w
  <2>. QED
    BY <1>1, <2>1, Remainder
<1>. HIDE DEF b, j
<1>3. i = ColumnAt(b, f, j)
  BY <1>2 DEF ColumnAt
<1>. QED
  BY <1>2, <1>3

LEMMA BytePlaces ==
  ASSUME NEW f, Format(f), NEW nb \in Nat, NEW t, Len(t) = f.prefix + nb * f.bytes,
         NEW i \in f.prefix + 1 .. Len(t)
  PROVE  \E b \in 0 .. nb - 1, j \in 0 .. f.bytes - 1 : i = ByteAt(b, f, j)
<1> DEFINE y == f.bytes
           e == i - f.prefix - 1
           b == e \div y
           j == e % y
<1>1. y \in Nat \ {0} /\ e \in Nat /\ e < nb * y /\ nb # 0
  BY DEF Format
<1>2. b \in 0 .. nb - 1 /\ j \in 0 .. y - 1 /\ e = b * y + j
  <2>1. nb \in Nat \ {0}
    BY <1>1
  <2>. HIDE DEF e, y
  <2>. QED
    BY <1>1, <2>1, Remainder
<1>. HIDE DEF b, j
<1>3. i = ByteAt(b, f, j)
  <2> DEFINE m == b * y
  <2>1. i = f.prefix + e + 1 /\ f.prefix \in Nat
    BY DEF Format
  <2>2. m \in Nat
    BY <1>1, <1>2
  <2>3. ByteAt(b, f, j) = f.prefix + m + j + 1
    BY DEF ByteAt
  <2>. HIDE DEF e, m
  <2>4. e = m + j /\ j \in Nat
    BY <1>2 DEF m
  <2>. QED
    BY <1>1, <2>1, <2>2, <2>3, <2>4
<1>. QED
  BY <1>2, <1>3

\* A block is weights columns.
IsBlock(s, b, f) ==
  /\ Block(s, b, f) \in Seq(Slot) /\ Len(Block(s, b, f)) = f.weights
  /\ \A j \in 0 .. f.weights - 1 :
       ColumnAt(b, f, j) \in 1 .. Len(s) /\ Block(s, b, f)[j + 1] = s[ColumnAt(b, f, j)]

LEMMA Blocks ==
  ASSUME NEW f, Format(f), NEW nb \in Nat, NEW s, Columns(s, f, nb), NEW b \in 0 .. nb - 1
  PROVE  IsBlock(s, b, f)
<1> DEFINE w == f.weights
           m == b * w
<1>1. w \in Nat \ {0} /\ s \in Seq(Slot) /\ Len(s) = nb * w
  BY DEF Format, Columns
<1>2. m \in Nat /\ m + w <= Len(s)
  BY <1>1, Products
<1>3. (b + 1) * w = m + w
  BY <1>1
<1>. HIDE DEF m, w
<1>4. w \in Nat /\ s \in Seq(Slot)
  BY <1>1
<1>5. /\ Narrow(s, m, w) \in Seq(Slot) /\ Len(Narrow(s, m, w)) = w
      /\ \A i \in 1 .. w : Narrow(s, m, w)[i] = s[m + i]
  BY <1>2, <1>4, NarrowRows
<1>6. Block(s, b, f) = Narrow(s, m, w)
  BY <1>3 DEF Block, Narrow, m, w
<1>7. ASSUME NEW j \in 0 .. w - 1
      PROVE  ColumnAt(b, f, j) \in 1 .. Len(s) /\ Block(s, b, f)[j + 1] = s[ColumnAt(b, f, j)]
  <2>1. ColumnAt(b, f, j) = m + (j + 1) /\ j + 1 \in 1 .. w
    BY <1>1, <1>2 DEF ColumnAt, m, w
  <2>. QED
    BY <1>1, <1>2, <1>5, <1>6, <2>1
<1>. QED
  BY <1>5, <1>6, <1>7 DEF w, IsBlock

\* What the packing makes of columns.
LEMMA PackedBytes ==
  ASSUME NEW f, Format(f), NEW nb \in Nat, NEW s, Columns(s, f, nb)
  PROVE  IsPacked(Packed(s, f), s, f, nb)
<1> DEFINE w == f.weights
           y == f.bytes
           p == f.prefix
           n == nb * y
           A == [i \in 1 .. p |-> [of |-> <<>>, byte |-> i - 1]]
           B == [i \in 1 .. n |-> [of |-> Block(s, (i - 1) \div y, f), byte |-> (i - 1) % y]]
<1>1. w \in Nat \ {0} /\ y \in Nat \ {0} /\ p \in Nat /\ Len(s) = nb * w /\ n \in Nat
  BY DEF Format, Columns
<1>2. Len(s) \div w = nb
  <2>. HIDE DEF w
  <2>1. (nb * w + 0) \div w = nb
    BY <1>1, Division
  <2>. QED
    BY <1>1, <2>1
<1>3. Packed(s, f) = A \o B
  BY <1>2 DEF Packed, Block
<1>4. A \in Seq(Piece) /\ Len(A) = p
  <2>1. \A i \in 1 .. p : [of |-> <<>>, byte |-> i - 1] \in Piece
    BY <1>1 DEF Piece
  <2>. HIDE DEF p
  <2>. QED
    BY <1>1, <2>1
<1>5. ASSUME NEW i \in 1 .. n
      PROVE  (i - 1) \div y \in 0 .. nb - 1 /\ (i - 1) % y \in 0 .. y - 1
  <2>1. i - 1 \in Nat /\ i - 1 < nb * y /\ nb \in Nat \ {0}
    BY <1>1
  <2>. HIDE DEF y
  <2>. QED
    BY <1>1, <2>1, Remainder
<1>6. B \in Seq(Piece) /\ Len(B) = n
  <2>1. ASSUME NEW i \in 1 .. n
        PROVE  [of |-> Block(s, (i - 1) \div y, f), byte |-> (i - 1) % y] \in Piece
    <3>1. Block(s, (i - 1) \div y, f) \in Seq(Slot)
      <4> DEFINE b == (i - 1) \div y
      <4>1. b \in 0 .. nb - 1
        BY <1>5
      <4>. HIDE DEF b
      <4>2. Block(s, b, f) \in Seq(Slot)
        BY <4>1, Blocks DEF IsBlock
      <4>. QED
        BY <4>2 DEF b
    <3>2. (i - 1) % y \in Nat
      BY <1>1, <1>5
    <3>. QED
      BY <3>1, <3>2 DEF Piece
  <2> DEFINE rec(i) == [of |-> Block(s, (i - 1) \div y, f), byte |-> (i - 1) % y]
  <2>2. B = [i \in 1 .. n |-> rec(i)]
    OBVIOUS
  <2>3. \A i \in 1 .. n : rec(i) \in Piece
    BY <2>1
  <2>. HIDE DEF n, rec, B
  <2>. QED
    BY <1>1, <2>2, <2>3
<1>7. \A i \in 1 .. p : A[i] = [of |-> <<>>, byte |-> i - 1]
  OBVIOUS
<1>8. ASSUME NEW b \in 0 .. nb - 1, NEW j \in 0 .. y - 1
      PROVE  b * y + j + 1 \in 1 .. n /\ B[b * y + j + 1] = [of |-> Block(s, b, f), byte |-> j]
  <2> DEFINE i == b * y + j + 1
  <2>1. i \in 1 .. n /\ i - 1 = b * y + j
    <3>. HIDE DEF y
    <3>1. b \in Nat /\ b < nb /\ y \in Nat
      BY <1>1
    <3>2. b * y \in Nat /\ b * y + y <= nb * y
      BY <3>1, Products
    <3>. QED
      BY <1>1, <3>2
  <2>2. (i - 1) \div y = b /\ (i - 1) % y = j
    <3>1. b \in Nat /\ j \in Nat /\ j < y
      BY <1>1
    <3>2. (b * y + j) \div y = b /\ (b * y + j) % y = j
      <4>. HIDE DEF y
      <4>. QED
        BY <1>1, <3>1, Division
    <3>. HIDE DEF i, y
    <3>. QED
      BY <2>1, <3>2
  <2>. HIDE DEF i, n, y
  <2>. QED
    BY <2>1, <2>2 DEF i
<1>. HIDE DEF A, B, n, p
<1>9. /\ A \o B \in Seq(Piece) /\ Len(A \o B) = p + n
      /\ \A i \in 1 .. p : (A \o B)[i] = A[i]
      /\ \A i \in 1 .. n : (A \o B)[p + i] = B[i]
  <2>1. A \in Seq(Piece) /\ B \in Seq(Piece) /\ Len(A) = p /\ Len(B) = n /\ p \in Nat /\ n \in Nat
    BY <1>1, <1>4, <1>6
  <2>2. /\ A \o B \in Seq(Piece) /\ Len(A \o B) = Len(A) + Len(B)
        /\ \A i \in 1 .. Len(A) + Len(B) : (A \o B)[i] = IF i <= Len(A) THEN A[i] ELSE B[i - Len(A)]
    BY <2>1, ConcatProperties, Zenon
  <2>3. \A i \in 1 .. p : (A \o B)[i] = A[i]
    BY <2>1, <2>2
  <2>4. ASSUME NEW i \in 1 .. n PROVE (A \o B)[p + i] = B[i]
    <3>1. p + i \in 1 .. Len(A) + Len(B) /\ ~ (p + i <= Len(A)) /\ (p + i) - Len(A) = i
      BY <2>1
    <3>. QED
      BY <2>2, <3>1
  <2>. QED
    BY <2>1, <2>2, <2>3, <2>4
<1>10. ASSUME NEW b \in 0 .. nb - 1, NEW j \in 0 .. y - 1
       PROVE  (A \o B)[ByteAt(b, f, j)] = [of |-> Block(s, b, f), byte |-> j]
  <2> DEFINE i == b * y + j + 1
  <2>1. i \in 1 .. n /\ B[i] = [of |-> Block(s, b, f), byte |-> j]
    BY <1>8
  <2>2. ByteAt(b, f, j) = p + i
    <3> DEFINE m == b * y
    <3>1. m \in Nat /\ p \in Nat /\ j \in Nat
      BY <1>1
    <3>2. ByteAt(b, f, j) = p + m + j + 1 /\ i = m + j + 1
      BY DEF ByteAt, p
    <3>. HIDE DEF m, i
    <3>. QED
      BY <3>1, <3>2
  <2>. HIDE DEF i
  <2>. QED
    BY <1>9, <2>1, <2>2
<1>. QED
  <2>1. \A i \in 1 .. p : (A \o B)[i] = [of |-> <<>>, byte |-> i - 1]
    BY <1>7, <1>9
  <2>2. \A b \in 0 .. nb - 1, j \in 0 .. y - 1 :
          (A \o B)[ByteAt(b, f, j)] = [of |-> Block(s, b, f), byte |-> j]
    BY <1>10
  <2>. QED
    BY <1>3, <1>9, <2>1, <2>2, Zenon DEF IsPacked, n, p, y
-----------------------------------------------------------------------------
(* Heads of whole blocks.                                                  *)

\* Block e of group (x, y), of m blocks.
BlockOf(x, a, y, m, e) == (x * a + y) * m + e

\* Its columns and its bytes, counted in the group.
LEMMA BlockPlaces ==
  ASSUME NEW a \in Nat \ {0}, NEW b \in Nat \ {0}, NEW m \in Nat \ {0},
         NEW x \in 0 .. b - 1, NEW y \in 0 .. a - 1, NEW e \in 0 .. m - 1,
         NEW f, Format(f), f.prefix = 0, NEW j \in Nat
  PROVE  /\ BlockOf(x, a, y, m, e) \in 0 .. Total(a, b, m) - 1
         /\ ColumnAt(BlockOf(x, a, y, m, e), f, j)
              = Place(x, a, y, m * f.weights, e * f.weights + j)
         /\ ByteAt(BlockOf(x, a, y, m, e), f, j)
              = Place(x, a, y, m * f.bytes, e * f.bytes + j)
<1> DEFINE q == x * a + y
<1>1. q \in Nat
  BY Pairing
<1>2. \A n \in Nat : (q * m + e) * n + j + 1 = q * (m * n) + (e * n + j) + 1
  <2>. HIDE DEF q
  <2>. QED
    BY <1>1
<1>3. BlockOf(x, a, y, m, e) = Place(x, a, y, m, e) - 1
  <2> DEFINE z == q * m
  <2>1. z \in Nat
    BY <1>1
  <2>2. BlockOf(x, a, y, m, e) = z + e /\ Place(x, a, y, m, e) = z + e + 1
    BY DEF BlockOf, Place
  <2>. HIDE DEF z
  <2>. QED
    BY <2>1, <2>2
<1>4. BlockOf(x, a, y, m, e) \in 0 .. Total(a, b, m) - 1
  <2>1. Place(x, a, y, m, e) \in 1 .. Total(a, b, m)
    BY MovedPlace DEF Exchanged
  <2>2. Total(a, b, m) \in Nat
    BY DEF Total
  <2>. QED
    BY <1>3, <2>1, <2>2
<1>5. f.weights \in Nat /\ f.bytes \in Nat
  BY DEF Format
<1>6. ColumnAt(BlockOf(x, a, y, m, e), f, j)
        = Place(x, a, y, m * f.weights, e * f.weights + j)
  BY <1>2, <1>5 DEF ColumnAt, BlockOf, Place
<1>7. ByteAt(BlockOf(x, a, y, m, e), f, j)
        = Place(x, a, y, m * f.bytes, e * f.bytes + j)
  <2> DEFINE n == (q * m + e) * f.bytes
  <2>1. n \in Nat
    BY <1>1, <1>5
  <2>2. ByteAt(BlockOf(x, a, y, m, e), f, j) = 0 + n + j + 1
    BY DEF ByteAt, BlockOf
  <2>3. n + j + 1 = Place(x, a, y, m * f.bytes, e * f.bytes + j)
    BY <1>2, <1>5 DEF Place
  <2>. HIDE DEF n
  <2>. QED
    BY <2>1, <2>2, <2>3
<1>. QED
  BY <1>4, <1>6, <1>7

\* Moving whole blocks moves their columns.
LEMMA PackedSwapped ==
  ASSUME NEW f, Format(f), f.prefix = 0, NEW a \in Nat \ {0}, NEW b \in Nat \ {0},
         NEW m \in Nat \ {0}, NEW s, Columns(s, f, Total(a, b, m))
  PROVE  Packed(Swapped(s, a, b, m * f.weights), f) = Swapped(Packed(s, f), a, b, m * f.bytes)
<1> DEFINE w == f.weights
           y == f.bytes
           c == m * w
           d == m * y
           nb == Total(a, b, m)
           t == Swapped(s, a, b, c)
           P == Packed(s, f)
           L == Packed(t, f)
           R == Swapped(P, a, b, d)
<1>1. w \in Nat \ {0} /\ y \in Nat \ {0} /\ c \in Nat \ {0} /\ d \in Nat \ {0}
  <2>1. w \in Nat \ {0} /\ y \in Nat \ {0}
    BY DEF Format
  <2>. HIDE DEF w, y
  <2>. QED
    BY <2>1
<1>2. nb \in Nat /\ nb * w = Total(a, b, c) /\ nb * y = Total(a, b, d)
  <2> DEFINE q == a * b
  <2>1. q \in Nat
    OBVIOUS
  <2>. HIDE DEF q
  <2>2. \A n \in Nat : (q * m) * n = q * (m * n) /\ q * m \in Nat
    BY <2>1
  <2>. HIDE DEF w, y
  <2>. QED
    BY <1>1, <2>1, <2>2 DEF Total, q
<1>3. s \in Seq(Slot) /\ Len(s) = Total(a, b, c)
  BY <1>2 DEF Columns
<1>4. t \in Seq(Slot) /\ Len(t) = Len(s)
  <2>. HIDE DEF c
  <2>1. Len(s) = (a * b) * c
    BY <1>3 DEF Total
  <2>. QED
    BY <1>1, <1>3, <2>1, SwappedRows
<1>5. IsPacked(P, s, f, nb) /\ IsPacked(L, t, f, nb)
  <2>1. Columns(t, f, nb)
    BY <1>3, <1>4 DEF Columns
  <2>. HIDE DEF t, nb
  <2>. QED
    BY <1>2, <2>1, PackedBytes DEF nb
<1>6. P \in Seq(Piece) /\ L \in Seq(Piece) /\ Len(P) = Total(a, b, d) /\ Len(L) = Len(P)
  <2>. HIDE DEF P, L, nb
  <2>1. Len(P) = 0 + nb * y /\ Len(L) = 0 + nb * y /\ nb * y \in Nat
    BY <1>1, <1>2, <1>5 DEF IsPacked
  <2>. QED
    BY <1>2, <1>5, <2>1 DEF IsPacked
<1>7. R \in Seq(Piece) /\ Len(R) = Len(P)
  <2>. HIDE DEF d, P
  <2>1. Len(P) = (a * b) * d
    BY <1>6 DEF Total
  <2>. QED
    BY <1>1, <1>6, <2>1, SwappedRows
<1>8. ASSUME NEW x \in 0 .. b - 1, NEW z \in 0 .. a - 1, NEW e \in 0 .. m - 1
      PROVE  Block(t, BlockOf(x, a, z, m, e), f) = Block(s, BlockOf(z, b, x, m, e), f)
  <2> DEFINE B == BlockOf(x, a, z, m, e)
             C == BlockOf(z, b, x, m, e)
  <2>1. B \in 0 .. nb - 1 /\ C \in 0 .. nb - 1
    <3>1. B \in 0 .. Total(a, b, m) - 1
      BY BlockPlaces
    <3>2. C \in 0 .. Total(b, a, m) - 1
      BY BlockPlaces
    <3>3. Total(b, a, m) = Total(a, b, m)
      BY DEF Total
    <3>. QED
      BY <3>1, <3>2, <3>3
  <2>2. Columns(t, f, nb) /\ Columns(s, f, nb)
    BY <1>3, <1>4 DEF Columns
  <2>3. ASSUME NEW j \in 0 .. w - 1
        PROVE  /\ ColumnAt(B, f, j) \in 1 .. Len(t)
               /\ t[ColumnAt(B, f, j)] = s[ColumnAt(C, f, j)]
    <3> DEFINE i == e * w + j
    <3>0. j \in Nat /\ c \in Nat \ {0}
      BY <1>1
    <3>1. ColumnAt(B, f, j) = Place(x, a, z, c, i)
      BY <3>0, BlockPlaces
    <3>4. ColumnAt(C, f, j) = Place(z, b, x, c, i)
      BY <3>0, BlockPlaces
    <3>2. i \in 0 .. c - 1
      <4>. HIDE DEF w
      <4>1. e * w + j \in Nat /\ e * w + j < m * w
        BY <1>1, Pairing
      <4>2. m * w \in Nat
        BY <1>1
      <4>. QED
        BY <4>1, <4>2
    <3>. HIDE DEF i, c, B, C, d, w, y
    <3>3. /\ Moved(Place(x, a, z, c, i), a, b, c) = Place(z, b, x, c, i)
          /\ Place(x, a, z, c, i) \in 1 .. Total(a, b, c)
      <4>1. Exchanged(x, a, z, b, c, i)
        BY <3>0, <3>2, MovedPlace
      <4>. QED
        BY <4>1 DEF Exchanged
    <3>5. \A k \in 1 .. Len(s) : t[k] = s[Moved(k, a, b, c)]
      BY <1>3, SwappedPlaces
    <3>. QED
      BY <1>3, <1>4, <3>1, <3>3, <3>4, <3>5
  <2>. HIDE DEF B, C, nb, t, c, d, w, y
  <2>4. /\ Block(t, B, f) \in Seq(Slot) /\ Len(Block(t, B, f)) = w
        /\ \A j \in 0 .. w - 1 : Block(t, B, f)[j + 1] = t[ColumnAt(B, f, j)]
    <3>1. IsBlock(t, B, f)
      BY <1>2, <2>1, <2>2, Blocks
    <3>. QED
      BY <3>1 DEF IsBlock, w
  <2>5. /\ Block(s, C, f) \in Seq(Slot) /\ Len(Block(s, C, f)) = w
        /\ \A j \in 0 .. w - 1 : Block(s, C, f)[j + 1] = s[ColumnAt(C, f, j)]
    <3>1. IsBlock(s, C, f)
      BY <1>2, <2>1, <2>2, Blocks
    <3>. QED
      BY <3>1 DEF IsBlock, w
  <2>6. \A j \in 0 .. w - 1 : Block(t, B, f)[j + 1] = Block(s, C, f)[j + 1]
    BY <2>3, <2>4, <2>5
  <2>7. \A i \in 1 .. w : Block(t, B, f)[i] = Block(s, C, f)[i]
    <3> TAKE i \in 1 .. w
    <3>1. i - 1 \in 0 .. w - 1 /\ (i - 1) + 1 = i
      BY <1>1
    <3>. QED
      BY <2>6, <3>1
  <2>8. Block(t, B, f) = Block(s, C, f)
    BY <2>4, <2>5, <2>7, SeqEqual
  <2>. QED
    BY <2>8 DEF B, C
<1>9. ASSUME NEW i \in 1 .. Total(a, b, d)
      PROVE  L[i] = R[i]
  <2>1. PICK x \in 0 .. b - 1, z \in 0 .. a - 1, j \in 0 .. d - 1 : i = Place(x, a, z, d, j)
    <3>. HIDE DEF d
    <3>. QED
      BY <1>1, Places
  <2> DEFINE e == j \div y
             o == j % y
             B == BlockOf(x, a, z, m, e)
             C == BlockOf(z, b, x, m, e)
  <2>2. e \in 0 .. m - 1 /\ o \in 0 .. y - 1 /\ j = e * y + o
    <3>1. j \in Nat /\ j < m * y
      BY <1>1
    <3>. HIDE DEF y
    <3>. QED
      BY <1>1, <3>1, Remainder
  <2>. HIDE DEF e, o
  <2>3. ByteAt(B, f, o) = i /\ ByteAt(C, f, o) = Place(z, b, x, d, j)
    <3>1. o \in Nat
      BY <1>1, <2>2
    <3>2. ByteAt(B, f, o) = Place(x, a, z, d, e * y + o)
      BY <2>2, <3>1, BlockPlaces
    <3>3. ByteAt(C, f, o) = Place(z, b, x, d, e * y + o)
      BY <2>2, <3>1, BlockPlaces
    <3>. QED
      BY <2>1, <2>2, <3>2, <3>3
  <2>4. B \in 0 .. nb - 1 /\ C \in 0 .. nb - 1
    <3>1. B \in 0 .. Total(a, b, m) - 1
      BY <2>2, BlockPlaces
    <3>2. C \in 0 .. Total(b, a, m) - 1
      BY <2>2, BlockPlaces
    <3>3. Total(b, a, m) = Total(a, b, m)
      BY DEF Total
    <3>. QED
      BY <3>1, <3>2, <3>3
  <2>5. Block(t, B, f) = Block(s, C, f)
    BY <1>8, <2>2
  <2>. HIDE DEF B, C, L, P, t, nb, d, c, w
  <2>6. L[i] = [of |-> Block(t, B, f), byte |-> o]
    BY <1>5, <2>2, <2>3, <2>4 DEF IsPacked
  <2>7. P[Place(z, b, x, d, j)] = [of |-> Block(s, C, f), byte |-> o]
    BY <1>5, <2>2, <2>3, <2>4 DEF IsPacked
  <2>8. R[i] = P[Moved(i, a, b, d)]
    BY <1>6, SwappedPlaces
  <2>9. Moved(i, a, b, d) = Place(z, b, x, d, j)
    BY <1>1, <2>1, MovedPlace DEF Exchanged
  <2>. QED
    BY <2>5, <2>6, <2>7, <2>8, <2>9
<1>. HIDE DEF L, R, P, d
<1>10. L = R
  BY <1>6, <1>7, <1>9, SeqEqual
<1>. QED
  BY <1>10 DEF L, R, P, d
-----------------------------------------------------------------------------
(* Decoding.                                                               *)

PrefixRead(row, f) ==
  \A i \in 1 .. f.prefix : i <= Len(row) /\ row[i] = [of |-> <<>>, byte |-> i - 1]

BlockRead(row, b, f) ==
  /\ row[ByteAt(b, f, 0)].of # <<>>
  /\ \A k \in 0 .. f.bytes - 1 :
       row[ByteAt(b, f, k)] = [of |-> row[ByteAt(b, f, 0)].of, byte |-> k]

\* What a decoder makes of the m blocks of a row, block by block.
IsDecoded(row, f, m) ==
  /\ Decoded(row, f) = [i \in 1 .. m * f.weights |-> Decoded(row, f)[i]]
  /\ \A b \in 0 .. m - 1, j \in 0 .. f.weights - 1 :
       Decoded(row, f)[ColumnAt(b, f, j)]
         = IF BlockRead(row, b, f) THEN row[ByteAt(b, f, 0)].of[j + 1] ELSE Garbage

\* Block b is whole if the bytes found for it are.
LEMMA WholeBlocks ==
  ASSUME NEW f, Format(f), NEW row, NEW b \in Nat
  PROVE  Whole(row, f.prefix + b * f.bytes, f) <=> BlockRead(row, b, f)
<1> DEFINE first == f.prefix + b * f.bytes
<1>1. first \in Nat /\ f.bytes \in Nat \ {0}
  BY DEF Format
<1>2. ASSUME NEW k \in Nat PROVE ByteAt(b, f, k) = first + (k + 1)
  BY <1>1 DEF ByteAt
<1>3. ByteAt(b, f, 0) = first + 1
  BY <1>1, <1>2
<1>. HIDE DEF first
<1>4. ASSUME NEW X, Whole(row, first, f), X = row[first + 1].of, NEW k \in 0 .. f.bytes - 1
      PROVE  row[ByteAt(b, f, k)] = [of |-> X, byte |-> k]
  <2>1. k + 1 \in 1 .. f.bytes /\ (k + 1) - 1 = k
    BY <1>1
  <2>2. row[first + (k + 1)] = [of |-> X, byte |-> (k + 1) - 1]
    BY <1>4, <2>1 DEF Whole
  <2>. QED
    BY <1>2, <2>1, <2>2
<1>5. ASSUME NEW X, BlockRead(row, b, f), X = row[first + 1].of, NEW i \in 1 .. f.bytes
      PROVE  row[first + i] = [of |-> X, byte |-> i - 1]
  <2>1. i - 1 \in 0 .. f.bytes - 1 /\ (i - 1) + 1 = i
    BY <1>1
  <2>2. row[ByteAt(b, f, i - 1)] = [of |-> X, byte |-> i - 1]
    BY <1>3, <1>5, <2>1 DEF BlockRead
  <2>. QED
    BY <1>2, <2>1, <2>2
<1>6. Whole(row, first, f) => BlockRead(row, b, f)
  <2> HAVE Whole(row, first, f)
  <2>1. row[first + 1].of # <<>>
    BY DEF Whole
  <2>2. \A k \in 0 .. f.bytes - 1 : row[ByteAt(b, f, k)] = [of |-> row[first + 1].of, byte |-> k]
    BY <1>4
  <2>. QED
    BY <1>3, <2>1, <2>2 DEF BlockRead
<1>7. BlockRead(row, b, f) => Whole(row, first, f)
  <2> HAVE BlockRead(row, b, f)
  <2>1. row[first + 1].of # <<>>
    BY <1>3 DEF BlockRead
  <2>2. \A i \in 1 .. f.bytes : row[first + i] = [of |-> row[first + 1].of, byte |-> i - 1]
    BY <1>5
  <2>. QED
    BY <2>1, <2>2 DEF Whole
<1>. QED
  BY <1>6, <1>7 DEF first

\* A decoder that finds its prefix reads the blocks that are there.
LEMMA DecodedRow ==
  ASSUME NEW f, Format(f), NEW row, PrefixRead(row, f), NEW m \in Nat,
         (Len(row) - f.prefix) \div f.bytes = m, Len(row) \in Nat
  PROVE  IsDecoded(row, f, m)
<1> DEFINE w == f.weights
           n == m * w
           first(i) == f.prefix + ((i - 1) \div w) * f.bytes
           val(i) == IF Whole(row, first(i), f)
                     THEN row[first(i) + 1].of[((i - 1) % w) + 1] ELSE Garbage
<1>1. w \in Nat \ {0} /\ f.prefix \in Nat /\ f.bytes \in Nat \ {0} /\ n \in Nat
  BY DEF Format
<1>2. ~ \E i \in 1 .. f.prefix : i > Len(row) \/ row[i] # [of |-> <<>>, byte |-> i - 1]
  <2>1. ASSUME NEW i \in 1 .. f.prefix
        PROVE  ~ (i > Len(row)) /\ row[i] = [of |-> <<>>, byte |-> i - 1]
    <3>1. i <= Len(row) /\ row[i] = [of |-> <<>>, byte |-> i - 1]
      BY Zenon DEF PrefixRead
    <3>2. ~ (i > Len(row))
      BY <1>1, <3>1
    <3>. QED
      BY <3>1, <3>2
  <2>. QED
    BY <2>1, Zenon
<1>3. Decoded(row, f) = [i \in 1 .. n |-> val(i)]
  BY <1>2, Zenon DEF Decoded
<1>4. ASSUME NEW b \in 0 .. m - 1, NEW j \in 0 .. w - 1
      PROVE  Decoded(row, f)[ColumnAt(b, f, j)]
               = IF BlockRead(row, b, f) THEN row[ByteAt(b, f, 0)].of[j + 1] ELSE Garbage
  <2> DEFINE i == ColumnAt(b, f, j)
  <2>1. i \in 1 .. n /\ (i - 1) \div w = b /\ (i - 1) % w = j
    <3>1. i = b * w + j + 1
      BY DEF ColumnAt
    <3>. HIDE DEF i, w
    <3>2. b \in Nat /\ j \in Nat /\ j < w /\ b < m
      BY <1>1
    <3>3. b * w \in Nat /\ b * w + w <= m * w
      BY <1>1, <3>2, Products
    <3>4. i \in 1 .. n /\ i - 1 = b * w + j
      BY <1>1, <3>1, <3>2, <3>3
    <3>5. (b * w + j) \div w = b /\ (b * w + j) % w = j
      BY <1>1, <3>2, Division
    <3>. QED
      BY <3>4, <3>5
  <2>2. first(i) = f.prefix + b * f.bytes /\ first(i) + 1 = ByteAt(b, f, 0)
    <3>1. first(i) = f.prefix + b * f.bytes
      BY <2>1
    <3>2. ByteAt(b, f, 0) = (f.prefix + b * f.bytes) + 1
      <4> DEFINE z == b * f.bytes
      <4>1. z \in Nat
        BY <1>1
      <4>2. ByteAt(b, f, 0) = f.prefix + z + 0 + 1
        BY DEF ByteAt
      <4>. HIDE DEF z
      <4>3. ByteAt(b, f, 0) = (f.prefix + z) + 1
        BY <1>1, <4>1, <4>2
      <4>. QED
        BY <4>3 DEF z
    <3>. QED
      BY <3>1, <3>2
  <2>3. Whole(row, first(i), f) <=> BlockRead(row, b, f)
    <3>1. b \in Nat
      OBVIOUS
    <3>. QED
      BY <2>2, <3>1, WholeBlocks
  <2>4. val(i) = IF BlockRead(row, b, f) THEN row[ByteAt(b, f, 0)].of[j + 1] ELSE Garbage
    <3>. HIDE DEF i, w, first
    <3>1. row[first(i) + 1].of[((i - 1) % w) + 1] = row[ByteAt(b, f, 0)].of[j + 1]
      BY <2>1, <2>2
    <3>. QED
      BY <2>3, <3>1
  <2>. HIDE DEF i, n, val
  <2>. QED
    BY <1>3, <2>1, <2>4 DEF i
<1>5. Decoded(row, f) = [i \in 1 .. n |-> Decoded(row, f)[i]]
  <2>. HIDE DEF val, n
  <2>. QED
    BY <1>3
<1>. QED
  BY <1>4, <1>5 DEF IsDecoded

\* The prefix, then m whole blocks of s from block c on.
HasBlocks(row, s, f, c, m) ==
  /\ row \in Seq(Piece) /\ Len(row) = f.prefix + m * f.bytes
  /\ \A i \in 1 .. f.prefix : row[i] = [of |-> <<>>, byte |-> i - 1]
  /\ \A b \in 0 .. m - 1, j \in 0 .. f.bytes - 1 :
       row[ByteAt(b, f, j)] = [of |-> Block(s, c + b, f), byte |-> j]

\* A decoder gives the columns of the whole blocks of a row.
LEMMA WholeColumns ==
  ASSUME NEW f, Format(f), NEW nb \in Nat, NEW s, Columns(s, f, nb),
         NEW c \in Nat, NEW m \in Nat, c + m <= nb, NEW row, HasBlocks(row, s, f, c, m)
  PROVE  Decoded(row, f) = Narrow(s, c * f.weights, m * f.weights)
<1> DEFINE w == f.weights
           y == f.bytes
           D == Decoded(row, f)
           X == Narrow(s, c * w, m * w)
<1>1. /\ w \in Nat \ {0} /\ y \in Nat \ {0} /\ f.prefix \in Nat
      /\ s \in Seq(Slot) /\ Len(s) = nb * w
  BY DEF Format, Columns
<1>2. PrefixRead(row, f)
  <2>1. m * y \in Nat
    BY <1>1
  <2>. HIDE DEF y
  <2>2. Len(row) = f.prefix + m * y
    BY DEF HasBlocks, y
  <2>. QED
    <3>1. ASSUME NEW i \in 1 .. f.prefix PROVE i <= Len(row)
      BY <1>1, <2>1, <2>2
    <3>2. \A i \in 1 .. f.prefix : row[i] = [of |-> <<>>, byte |-> i - 1]
      BY Zenon DEF HasBlocks
    <3>. QED
      BY <3>1, <3>2, Zenon DEF PrefixRead
<1>3. IsDecoded(row, f, m)
  <2> DEFINE z == m * y
  <2>1. z \in Nat /\ (z + 0) \div y = m
    <3>. HIDE DEF y
    <3>. QED
      BY <1>1, Division
  <2>2. Len(row) = f.prefix + z
    BY DEF HasBlocks
  <2>. HIDE DEF z
  <2>3. Len(row) \in Nat /\ (Len(row) - f.prefix) = z + 0
    BY <1>1, <2>1, <2>2
  <2>. QED
    BY <1>2, <2>1, <2>3, DecodedRow
<1>4. c * w \in Nat /\ m * w \in Nat /\ c * w + m * w <= Len(s)
  <2>. HIDE DEF w
  <2>1. c * w \in Nat /\ m * w \in Nat /\ nb * w \in Nat /\ c * w + m * w = (c + m) * w
    BY <1>1
  <2>2. CASE c + m = nb
    BY <1>1, <2>1, <2>2
  <2>3. CASE c + m < nb
    <3> DEFINE q == c + m
    <3>1. q \in Nat /\ q < nb
      BY <2>3
    <3>. HIDE DEF q
    <3>2. q * w + w <= nb * w /\ q * w \in Nat
      BY <1>1, <3>1, Products
    <3>. QED
      BY <1>1, <2>1, <3>2 DEF q
  <2>. QED
    BY <2>2, <2>3
<1>5. /\ X \in Seq(Slot) /\ Len(X) = m * w
      /\ \A i \in 1 .. m * w : X[i] = s[c * w + i]
  <2> DEFINE a == c * w
             n == m * w
  <2>1. a \in Nat /\ n \in Nat /\ a + n <= Len(s) /\ s \in Seq(Slot)
    BY <1>1, <1>4
  <2>. HIDE DEF a, n
  <2>2. /\ Narrow(s, a, n) \in Seq(Slot) /\ Len(Narrow(s, a, n)) = n
        /\ \A i \in 1 .. n : Narrow(s, a, n)[i] = s[a + i]
    BY <2>1, NarrowRows
  <2>. QED
    BY <2>2 DEF a, n
<1>6. ASSUME NEW b \in 0 .. m - 1
      PROVE  BlockRead(row, b, f) /\ row[ByteAt(b, f, 0)].of = Block(s, c + b, f)
  <2>1. \A k \in 0 .. y - 1 : row[ByteAt(b, f, k)] = [of |-> Block(s, c + b, f), byte |-> k]
    BY DEF HasBlocks
  <2>2. row[ByteAt(b, f, 0)].of = Block(s, c + b, f)
    <3>1. 0 \in 0 .. y - 1
      BY <1>1
    <3>2. row[ByteAt(b, f, 0)] = [of |-> Block(s, c + b, f), byte |-> 0]
      BY <2>1, <3>1, Zenon
    <3>. QED
      BY <3>2
  <2>3. Block(s, c + b, f) # <<>>
    <3>1. IsBlock(s, c + b, f)
      BY Blocks
    <3>2. Len(Block(s, c + b, f)) = w
      BY <3>1 DEF IsBlock
    <3>. QED
      BY <1>1, <3>2
  <2>. QED
    BY <2>1, <2>2, <2>3 DEF BlockRead
<1>7. ASSUME NEW i \in 1 .. m * w PROVE D[i] = X[i]
  <2>1. PICK b \in 0 .. m - 1, j \in 0 .. w - 1 : i = ColumnAt(b, f, j)
    <3>1. X \in Seq(Slot) /\ Len(X) = m * f.weights
      BY <1>5
    <3>. HIDE DEF X
    <3>2. Columns(X, f, m) /\ i \in 1 .. Len(X)
      BY <3>1 DEF Columns
    <3>. QED
      BY <3>2, ColumnPlaces
  <2>2. D[i] = Block(s, c + b, f)[j + 1]
    BY <1>3, <1>6, <2>1 DEF IsDecoded
  <2>3. Block(s, c + b, f)[j + 1] = s[ColumnAt(c + b, f, j)]
    <3>1. IsBlock(s, c + b, f)
      BY Blocks
    <3>. QED
      BY <3>1 DEF IsBlock
  <2>4. ColumnAt(c + b, f, j) = c * w + i
    <3>1. ColumnAt(c + b, f, j) = (c + b) * w + j + 1 /\ i = b * w + j + 1
      BY <2>1 DEF ColumnAt
    <3>. HIDE DEF w
    <3>2. (c + b) * w = c * w + b * w /\ c * w \in Nat /\ b * w \in Nat
      BY <1>1
    <3>. QED
      BY <1>1, <3>1, <3>2
  <2>. HIDE DEF D, X, w
  <2>. QED
    BY <1>5, <2>2, <2>3, <2>4
<1>8. D = [i \in 1 .. m * w |-> D[i]]
  BY <1>3 DEF IsDecoded
<1>9. X = [i \in 1 .. m * w |-> X[i]]
  <2>. HIDE DEF X
  <2>1. DOMAIN X = 1 .. m * w
    BY <1>5
  <2>. QED
    BY <1>5, <2>1
<1>. HIDE DEF D, X, w
<1>10. D = X
  BY <1>7, <1>8, <1>9
<1>. QED
  BY <1>10 DEF D, X, w
\* What must be in a row for a decoder to find so many columns in it.
Reads(row, X, f, m) ==
  /\ PrefixRead(row, f) /\ m \in Nat /\ Len(X) = m * f.weights
  /\ f.prefix + m * f.bytes <= Len(row)
  /\ \A b \in 0 .. m - 1 :
       /\ BlockRead(row, b, f)
       /\ \A j \in 0 .. f.weights - 1 : X[ColumnAt(b, f, j)] = row[ByteAt(b, f, 0)].of[j + 1]

LEMMA ReadColumns ==
  ASSUME NEW f, Format(f), NEW row, Len(row) \in Nat, NEW X \in Seq(Slot), X # <<>>,
         \A i \in 1 .. Len(X) : X[i] # Garbage, Decoded(row, f) = X
  PROVE  Reads(row, X, f, (Len(row) - f.prefix) \div f.bytes)
<1> DEFINE w == f.weights
           y == f.bytes
           p == f.prefix
           e == Len(row) - p
           m == e \div y
           n == Len(X)
<1>1. /\ w \in Nat \ {0} /\ y \in Nat \ {0} /\ p \in Nat /\ n \in Nat \ {0}
      /\ DOMAIN X = 1 .. n
  BY DEF Format
<1>2. PrefixRead(row, f)
  <2> SUFFICES ASSUME ~ PrefixRead(row, f) PROVE FALSE
    OBVIOUS
  <2>1. PICK i \in 1 .. p : ~ (i <= Len(row) /\ row[i] = [of |-> <<>>, byte |-> i - 1])
    BY Zenon DEF PrefixRead
  <2>2. i > Len(row) \/ row[i] # [of |-> <<>>, byte |-> i - 1]
    <3>1. ~ (i <= Len(row)) => i > Len(row)
      BY <1>1
    <3>. QED
      BY <2>1, <3>1, Zenon
  <2>3. Decoded(row, f) = <<Garbage>>
    BY <2>2, Zenon DEF Decoded, p
  <2>4. X[1] = Garbage
    BY <2>3
  <2>. QED
    BY <1>1, <2>4
<1>3. e \in Nat
  <2>1. p # 0 => p <= Len(row)
    <3>1. p # 0 => p \in 1 .. p
      BY <1>1
    <3>. QED
      BY <1>2, <3>1 DEF PrefixRead
  <2>. QED
    BY <1>1, <2>1
<1>4. m \in Nat /\ m * y \in Nat /\ m * y <= e
  <2>. HIDE DEF e, y
  <2>1. e \div y \in Nat /\ e = y * (e \div y) + (e % y) /\ e % y \in Nat
    BY <1>1, <1>3
  <2>2. m \in Nat /\ e = y * m + (e % y)
    BY <2>1
  <2>. HIDE DEF m
  <2>3. m * y \in Nat /\ y * m = m * y
    BY <1>1, <2>2
  <2>. QED
    BY <1>3, <2>1, <2>2, <2>3
<1>5. IsDecoded(row, f, m)
  <2>. HIDE DEF m
  <2>. QED
    BY <1>2, <1>4, DecodedRow DEF m
<1>6. n = m * w
  <2> DEFINE z == m * w
  <2>1. z \in Nat
    BY <1>1, <1>4
  <2>2. X = [i \in 1 .. z |-> X[i]]
    BY <1>5 DEF IsDecoded
  <2>. HIDE DEF z, n
  <2>3. 1 .. z = 1 .. n
    BY <1>1, <2>2
  <2>4. n \in 1 .. z /\ (z \in 1 .. n \/ z = 0)
    BY <1>1, <2>1, <2>3
  <2>. QED
    BY <1>1, <2>1, <2>4 DEF z
<1>7. ASSUME NEW b \in 0 .. m - 1, NEW j \in 0 .. w - 1
      PROVE  BlockRead(row, b, f) /\ X[ColumnAt(b, f, j)] = row[ByteAt(b, f, 0)].of[j + 1]
  <2>1. ColumnAt(b, f, j) \in 1 .. n
    <3>1. Columns(X, f, m)
      BY <1>6 DEF Columns
    <3>2. IsBlock(X, b, f)
      <4>. HIDE DEF m
      <4>. QED
        BY <1>4, <3>1, Blocks
    <3>. QED
      BY <3>2 DEF IsBlock
  <2>2. X[ColumnAt(b, f, j)]
          = IF BlockRead(row, b, f) THEN row[ByteAt(b, f, 0)].of[j + 1] ELSE Garbage
    BY <1>5 DEF IsDecoded
  <2>3. X[ColumnAt(b, f, j)] # Garbage
    BY <2>1
  <2>. QED
    BY <2>2, <2>3
<1>8. p + m * y <= Len(row)
  <2> DEFINE z == m * y
  <2>. HIDE DEF z, m
  <2>1. z <= e /\ z \in Nat
    BY <1>4 DEF z
  <2>. QED
    BY <1>1, <2>1 DEF z
<1>9. \A b \in 0 .. m - 1 : BlockRead(row, b, f)
  <2> TAKE b \in 0 .. m - 1
  <2>1. 0 \in 0 .. w - 1
    BY <1>1
  <2>. QED
    BY <1>7, <2>1
<1>. QED
  BY <1>2, <1>4, <1>6, <1>7, <1>8, <1>9 DEF Reads

-----------------------------------------------------------------------------
(* The rows of out_proj and down_proj.                                     *)

\* The columns of the checkpoint, and whether they were moved.
HF == VSlots(param, heads)
Moves == param = "out_proj" /\ heads.k # heads.v
Width == heads.v * heads.vdim

\* A layer of packed columns, with a row that reshape accepts.
PackedLayer ==
  /\ Layer /\ param \in RowParallel /\ format # Dense
  /\ Width % format.weights = 0 /\ Reshapes(param, FileTensor, heads)

\* The numbers of a packed row: nb blocks, and a head of so many bytes.
LEMMA PackedNumbers ==
  ASSUME PackedLayer
  PROVE  /\ Format(format) /\ HF = Slots("v", heads.v, heads.vdim)
         /\ HF \in Seq(Slot) /\ Len(HF) = Width /\ Width \in Nat \ {0}
         /\ HFOrder(param, heads) = HF
         /\ \E nb \in Nat \ {0} : Columns(HF, format, nb)
<1>1. Format(format)
  <2>1. format \in Formats
    BY DEF PackedLayer, Layer
  <2>. QED
    BY <2>1, FormatsAssumption DEF Format
<1>2. HeadDim(param, heads) = heads.vdim /\ HFOrder(param, heads) = HF
  BY DEF HeadDim, PackedLayer, RowParallel, HFOrder, HF
<1>3. /\ heads.v \in Nat \ {0} /\ heads.vdim \in Nat \ {0} /\ Width \in Nat \ {0}
  <2>1. heads.v \in Nat \ {0} /\ heads.vdim \in Nat \ {0}
    BY Numbers DEF PackedLayer
  <2>. QED
    BY <2>1 DEF Width
<1>4. HF = Slots("v", heads.v, heads.vdim) /\ HF \in Seq(Slot) /\ Len(HF) = Width
  <2>1. HF = Slots("v", heads.v, heads.vdim)
    BY <1>2 DEF HF, VSlots
  <2>2. IsHeads(Slots("v", heads.v, heads.vdim), heads.v, heads.vdim)
    BY <1>3, SlotHeads
  <2>. QED
    BY <2>1, <2>2 DEF IsHeads, Width
<1>5. \E nb \in Nat \ {0} : Columns(HF, format, nb)
  <2> DEFINE w == format.weights
             nb == Width \div w
  <2>1. w \in Nat \ {0} /\ Width % w = 0
    BY <1>1 DEF Format, PackedLayer
  <2>2. Shared(Width, w, 1)
    <3>. HIDE DEF w
    <3>. QED
      BY <1>3, <2>1, Multiple
  <2>3. nb \in Nat \ {0} /\ Width = w * nb
    BY <2>2 DEF Shared
  <2>. HIDE DEF nb
  <2>4. Width = nb * w
    <3>. HIDE DEF w
    <3>. QED
      BY <2>1, <2>3
  <2>5. Columns(HF, format, nb)
    BY <1>4, <2>4 DEF Columns
  <2>. QED
    BY <2>3, <2>5
<1>. QED
  BY <1>1, <1>2, <1>3, <1>4, <1>5
\* No two columns of the checkpoint are the same.
LEMMA SlotsApart ==
  ASSUME NEW n \in Nat, NEW d \in Nat \ {0}, NEW i \in 1 .. n * d, NEW j \in 1 .. n * d,
         Slots("v", n, d)[i] = Slots("v", n, d)[j]
  PROVE  i = j
<1> DEFINE a == (i - 1) \div d
           b == (i - 1) % d
           x == (j - 1) \div d
           y == (j - 1) % d
<1>1. a * d + b = i - 1 /\ x * d + y = j - 1
  OBVIOUS
<1>2. a = x /\ b = y
  <2>1. \A k \in 1 .. n * d :
          Slots("v", n, d)[k] = [part |-> "v", head |-> (k - 1) \div d, at |-> (k - 1) % d]
    BY SlotRows
  <2>2. Slots("v", n, d)[i] = [part |-> "v", head |-> a, at |-> b]
    BY <2>1
  <2>3. Slots("v", n, d)[j] = [part |-> "v", head |-> x, at |-> y]
    BY <2>1
  <2>. HIDE DEF a, b, x, y
  <2>. QED
    BY <2>2, <2>3
<1>. HIDE DEF a, b, x, y
<1>. QED
  BY <1>1, <1>2

\* The columns in the order of the file, and what became of their heads.
F == FileOrder(param, heads)
Group == VPerK(heads)
HeadBytes == Len(FileTensor) \div heads.v

\* The heads of out_proj when they were moved: groups of two or more.
LEMMA HeadsMove ==
  ASSUME PackedLayer, Moves
  PROVE  /\ heads.k \in Nat \ {0} /\ Group \in Nat \ {0, 1} /\ heads.v = heads.k * Group
         /\ F = Swapped(HF, heads.k, Group, heads.vdim)
         /\ Len(HF) = Total(heads.k, Group, heads.vdim)
<1>1. param \in LinearAttention /\ heads.k # heads.v /\ param = "out_proj"
  BY DEF Moves, LinearAttention
<1>2. Layer
  BY DEF PackedLayer
<1>3. Group \in Nat \ {0} /\ heads.v = heads.k * Group
  BY <1>1, <1>2, HeadsDivide DEF Group
<1>4. heads.k \in Nat \ {0}
  BY <1>2, Numbers
<1>5. Group # 1
  <2>1. Group = 1 => heads.v = heads.k
    BY <1>3, <1>4
  <2>. QED
    BY <1>1, <2>1
<1>6. F = Swapped(HF, heads.k, Group, heads.vdim)
  <2>1. HeadDim(param, heads) = heads.vdim
    BY <1>1 DEF HeadDim
  <2>2. F = Tiled(HF, heads, HeadDim(param, heads))
    BY <1>1 DEF F, FileOrder, HF
  <2>. QED
    BY <2>1, <2>2 DEF Tiled, Group
<1>7. Len(HF) = Total(heads.k, Group, heads.vdim)
  BY <1>3, PackedNumbers DEF Total, Width
<1>. QED
  BY <1>3, <1>4, <1>5, <1>6, <1>7

\* The row in the file: whole blocks of the columns in its order.
LEMMA FileRow ==
  ASSUME PackedLayer, NEW nb \in Nat \ {0}, Columns(HF, format, nb)
  PROVE  /\ ~ Moves => F = HF
         /\ Columns(F, format, nb)
         /\ FileTensor = Packed(F, format) /\ IsPacked(FileTensor, F, format, nb)
<1>1. ~ Moves => F = HF
  <2> SUFFICES ASSUME ~ Moves PROVE F = HF
    OBVIOUS
  <2>1. CASE param = "down_proj"
    BY <2>1 DEF F, HF, FileOrder, HFOrder, LinearAttention
  <2>2. CASE param = "out_proj"
    <3>1. heads.k = heads.v
      BY <2>2 DEF Moves
    <3>. QED
      BY <2>2, <3>1 DEF F, HF, FileOrder, LinearAttention
  <2>. QED
    BY <2>1, <2>2 DEF PackedLayer, RowParallel
<1>2. Columns(F, format, nb)
  <2>1. CASE ~ Moves
    BY <1>1, <2>1
  <2>2. CASE Moves
    <3> DEFINE k == heads.k
               g == Group
               d == heads.vdim
    <3>1. /\ k \in Nat \ {0} /\ g \in Nat \ {0} /\ d \in Nat \ {0}
          /\ F = Swapped(HF, k, g, d) /\ Len(HF) = (k * g) * d
      BY <2>2, HeadsMove, Numbers DEF Total, PackedLayer
    <3>2. HF \in Seq(Slot)
      BY PackedNumbers
    <3>. HIDE DEF k, g, d
    <3>3. F \in Seq(Slot) /\ Len(F) = Len(HF)
      BY <3>1, <3>2, SwappedRows
    <3>. QED
      BY <3>3 DEF Columns
  <2>. QED
    BY <2>1, <2>2
<1>3. FileTensor = Packed(F, format)
  BY DEF FileTensor, F, PackedLayer
<1>4. Format(format)
  BY PackedNumbers
<1>. QED
  BY <1>1, <1>2, <1>3, <1>4, PackedBytes

\* The row after transform_weight: the same, or moved head by head.
LEMMA RestoredRow ==
  ASSUME PackedLayer, NEW nb \in Nat \ {0}, Columns(HF, format, nb)
  PROVE  /\ FileTensor \in Seq(Piece) /\ FileTensor # <<>>
         /\ Restored \in Seq(Piece) /\ Len(Restored) = Len(FileTensor)
         /\ ~ Moves => Restored = FileTensor
         /\ Moves => /\ HeadBytes \in Nat \ {0}
                     /\ Restored = Swapped(FileTensor, Group, heads.k, HeadBytes)
                     /\ Len(FileTensor) = heads.v * HeadBytes
                     /\ Len(FileTensor) = Total(Group, heads.k, HeadBytes)
<1> DEFINE P == FileTensor
           k == heads.k
           g == Group
           h == HeadBytes
<1>1. Format(format) /\ IsPacked(P, F, format, nb)
  BY PackedNumbers, FileRow
<1>2. P \in Seq(Piece) /\ P # <<>> /\ Len(P) \in Nat \ {0}
  <2> DEFINE z == nb * format.bytes
  <2>1. z \in Nat \ {0}
    <3>1. format.bytes \in Nat \ {0}
      BY <1>1 DEF Format
    <3>. QED
      BY <3>1
  <2>2. P \in Seq(Piece) /\ Len(P) = format.prefix + z
    BY <1>1 DEF IsPacked
  <2>3. format.prefix \in Nat
    BY <1>1 DEF Format
  <2>. HIDE DEF z, P
  <2>4. Len(P) \in Nat \ {0}
    BY <2>1, <2>2, <2>3
  <2>. QED
    BY <2>2, <2>4
<1>3. ~ Moves => Restored = P
  <2> SUFFICES ASSUME ~ Moves PROVE Restored = P
    OBVIOUS
  <2>1. param \notin LinearAttention \/ heads.k = heads.v
    BY DEF Moves, PackedLayer, RowParallel, LinearAttention
  <2>. QED
    BY <2>1 DEF Restored, Untiled
<1>4. ASSUME Moves
      PROVE  /\ h \in Nat \ {0} /\ Restored = Swapped(P, g, k, h)
             /\ Len(P) = heads.v * h /\ Len(P) = Total(g, k, h)
  <2>1. param = "out_proj" /\ heads.k # heads.v
    BY <1>4 DEF Moves
  <2>2. GroupWidth(P, heads) = h
    BY DEF GroupWidth, PackedLayer, HeadBytes
  <2>3. Len(P) = h * heads.v
    BY <2>1, <2>2 DEF PackedLayer, Reshapes
  <2>4. Restored = Swapped(P, g, k, h)
    <3>1. Restored = Undone(P, heads, GroupWidth(P, heads))
      BY <2>1 DEF Restored, Untiled, LinearAttention
    <3>. QED
      BY <2>2, <3>1 DEF Undone, Group
  <2>5. k \in Nat \ {0} /\ g \in Nat \ {0} /\ heads.v = k * g /\ heads.v \in Nat \ {0}
    BY <1>4, HeadsMove, Numbers DEF PackedLayer
  <2>6. h \in Nat
    <3>1. \A a \in Nat, b \in Nat \ {0} : a \div b \in Nat
      OBVIOUS
    <3>. QED
      BY <1>2, <2>5, <3>1 DEF HeadBytes
  <2>. HIDE DEF P, k, g, h
  <2>7. h # 0
    BY <1>2, <2>3, <2>5
  <2>8. h * heads.v = heads.v * h
    BY <2>5, <2>6
  <2>9. (g * k) * h = heads.v * h
    <3>1. g * k = k * g
      BY <2>5
    <3>. QED
      BY <2>5, <3>1
  <2>. QED
    BY <2>3, <2>4, <2>6, <2>7, <2>8, <2>9 DEF Total
<1>5. Restored \in Seq(Piece) /\ Len(Restored) = Len(P)
  <2>1. CASE Moves
    <3>1. k \in Nat \ {0} /\ g \in Nat \ {0}
      BY <2>1, HeadsMove
    <3>2. h \in Nat \ {0} /\ Restored = Swapped(P, g, k, h) /\ Len(P) = (g * k) * h
      BY <1>4, <2>1 DEF Total
    <3>. HIDE DEF P, k, g, h
    <3>. QED
      BY <1>2, <3>1, <3>2, SwappedRows
  <2>. QED
    BY <1>2, <1>3, <2>1
<1>. QED
  BY <1>2, <1>3, <1>4, <1>5
-----------------------------------------------------------------------------
(* Blocks that are kept whole.                                             *)

\* Where heads are whole blocks, or were not moved, the row is restored.
LEMMA RestoredPacked ==
  ASSUME PackedLayer, KeepsBlocks
  PROVE  Restored = Packed(HF, format)
<1> DEFINE P == FileTensor
           k == heads.k
           g == Group
           h == HeadBytes
           w == format.weights
           y == format.bytes
           d == heads.vdim
<1>1. PICK nb \in Nat \ {0} : Columns(HF, format, nb)
  BY PackedNumbers
<1>2. CASE ~ Moves
  BY <1>1, <1>2, FileRow, RestoredRow
<1>3. ASSUME Moves PROVE Restored = Packed(HF, format)
  <2>1. /\ k \in Nat \ {0} /\ g \in Nat \ {0} /\ d \in Nat \ {0} /\ heads.v = k * g
        /\ F = Swapped(HF, k, g, d) /\ Len(HF) = Total(k, g, d)
    BY <1>3, HeadsMove, Numbers DEF PackedLayer
  <2>2. /\ h \in Nat \ {0} /\ P \in Seq(Piece) /\ Restored = Swapped(P, g, k, h)
        /\ Len(P) = heads.v * h /\ Len(P) = Total(g, k, h)
    BY <1>1, <1>3, RestoredRow
  <2>3. P = Packed(F, format) /\ HF \in Seq(Slot) /\ Format(format)
    BY <1>1, FileRow, PackedNumbers
  <2>4. CASE k = 1
    <3>. HIDE DEF P, k, g, h, d
    <3>1. F = HF
      BY <2>1, <2>3, <2>4, SwappedAlone
    <3>2. Restored = P
      BY <2>1, <2>2, <2>4, SwappedAlone
    <3>. QED
      BY <2>3, <3>1, <3>2
  <2>5. CASE k # 1
    <3>1. heads.k \notin {1, heads.v} /\ param = "out_proj"
      BY <1>3, <2>5 DEF Moves
    <3>2. d % w = 0 /\ format.prefix = 0
      BY <3>1 DEF KeepsBlocks
    <3> DEFINE m == d \div w
    <3>3. m \in Nat \ {0} /\ d = m * w
      <4>1. w \in Nat \ {0}
        BY <2>3 DEF Format
      <4>2. Shared(d, w, 1)
        <5>. HIDE DEF d, w
        <5>. QED
          BY <2>1, <3>2, <4>1, Multiple
      <4>3. m \in Nat \ {0} /\ d = w * m
        BY <4>2 DEF Shared
      <4>. HIDE DEF m, d, w
      <4>. QED
        BY <4>1, <4>3
    <3>. HIDE DEF m
    <3>4. nb = Total(k, g, m)
      <4>1. nb * w = Total(k, g, d) /\ w \in Nat \ {0}
        BY <1>1, <2>1, <2>3 DEF Columns, Format
      <4> DEFINE q == k * g
                 z == q * m
      <4>. HIDE DEF d, w, k, g
      <4>2. q \in Nat /\ z \in Nat
        <5>1. q \in Nat
          BY <2>1
        <5>. HIDE DEF q
        <5>. QED
          BY <3>3, <5>1
      <4>3. nb * w = q * (m * w)
        BY <3>3, <4>1 DEF Total
      <4>4. q * (m * w) = z * w
        <5>. HIDE DEF q
        <5>. QED
          BY <3>3, <4>1, <4>2 DEF z
      <4>. HIDE DEF q, z
      <4>5. nb * w = z * w
        BY <4>3, <4>4
      <4>6. nb = z
        <5>1. nb < z => nb * w + w <= z * w /\ nb * w \in Nat
          BY <4>1, <4>2, Products
        <5>2. z < nb => z * w + w <= nb * w /\ z * w \in Nat
          BY <4>1, <4>2, Products
        <5>. QED
          BY <4>1, <4>2, <4>5, <5>1, <5>2
      <4>. QED
        BY <4>6 DEF q, z, Total
    <3>5. P = Swapped(Packed(HF, format), k, g, m * y)
      <4>1. Columns(HF, format, Total(k, g, m))
        BY <1>1, <3>4
      <4>2. Packed(Swapped(HF, k, g, m * w), format) = Swapped(Packed(HF, format), k, g, m * y)
        <5>. HIDE DEF k, g
        <5>. QED
          BY <2>1, <2>3, <3>2, <3>3, <4>1, PackedSwapped
      <4>. QED
        BY <2>1, <2>3, <3>3, <4>2
    <3>6. Packed(HF, format) \in Seq(Piece) /\ Len(Packed(HF, format)) = Total(k, g, m * y)
      <4>1. IsPacked(Packed(HF, format), HF, format, nb)
        BY <1>1, <2>3, PackedBytes
      <4>2. Packed(HF, format) \in Seq(Piece) /\ Len(Packed(HF, format)) = 0 + nb * y
        BY <3>2, <4>1 DEF IsPacked
      <4>3. y \in Nat /\ nb * y \in Nat
        BY <2>3 DEF Format
      <4>4. Total(k, g, m) * y = Total(k, g, m * y)
        <5> DEFINE q == k * g
        <5>1. q \in Nat
          BY <2>1
        <5>. HIDE DEF q, y, k, g
        <5>2. (q * m) * y = q * (m * y)
          BY <3>3, <4>3, <5>1
        <5>. QED
          BY <5>2 DEF Total, q
      <4>. HIDE DEF k, g, y
      <4>. QED
        BY <3>4, <4>2, <4>3, <4>4
    <3>7. h = m * y
      <4> DEFINE q == heads.v
                 e == m * y
      <4>1. e \in Nat /\ q \in Nat \ {0}
        <5>1. y \in Nat /\ m \in Nat
          BY <2>3, <3>3 DEF Format
        <5>2. q \in Nat \ {0}
          BY Numbers DEF PackedLayer
        <5>. HIDE DEF y
        <5>. QED
          BY <5>1, <5>2
      <4>2. Len(P) = q * e
        <5>1. Packed(HF, format) \in Seq(Piece) /\ Len(Packed(HF, format)) = Total(k, g, e)
          BY <3>6
        <5>2. P = Swapped(Packed(HF, format), k, g, e)
          BY <3>5
        <5>. HIDE DEF P, k, g, e
        <5>3. Len(P) = Len(Packed(HF, format))
          BY <5>1, <5>2, SwappedPlaces
        <5>4. Total(k, g, e) = q * e
          BY <2>1 DEF Total
        <5>. QED
          BY <5>1, <5>3, <5>4
      <4>. HIDE DEF q, e, P, h
      <4>3. q * h = q * e
        BY <2>2, <4>2 DEF q
      <4>4. h * q = e * q
        BY <2>2, <4>1, <4>3
      <4>5. h < e => h * q + q <= e * q /\ h * q \in Nat
        BY <2>2, <4>1, Products
      <4>6. e < h => e * q + q <= h * q /\ e * q \in Nat
        BY <2>2, <4>1, Products
      <4>. QED
        BY <2>2, <4>1, <4>4, <4>5, <4>6 DEF e
    <3>8. Swapped(Swapped(Packed(HF, format), k, g, h), g, k, h) = Packed(HF, format)
      <4> DEFINE T == Packed(HF, format)
      <4>1. T \in Seq(Piece) /\ Len(T) = (k * g) * h
        BY <3>6, <3>7 DEF Total
      <4>. HIDE DEF T, k, g, h
      <4>2. Swapped(Swapped(T, k, g, h), g, k, h) = T
        BY <2>1, <2>2, <4>1, SwappedTwice
      <4>. QED
        BY <4>2 DEF T
    <3>. QED
      BY <2>2, <3>5, <3>7, <3>8
  <2>. QED
    BY <2>4, <2>5
<1>. QED
  BY <1>2, <1>3

\* A rank decodes its share of a row that keeps its blocks.
LEMMA SharesKept ==
  ASSUME PackedLayer, KeepsBlocks, Width % tp = 0, NEW r \in Rank
  PROVE  Decoded(Share(Restored, r), format)
           = Narrow(HF, r * (Width \div tp), Width \div tp)
<1> DEFINE P == Packed(HF, format)
           w == format.weights
           y == format.bytes
           n == Width \div tp
           row == Share(P, r)
<1>1. PICK nb \in Nat \ {0} : Columns(HF, format, nb)
  BY PackedNumbers
<1>2. /\ Format(format) /\ HF \in Seq(Slot) /\ Len(HF) = Width /\ Width \in Nat \ {0}
      /\ Width = nb * w /\ IsPacked(P, HF, format, nb)
  BY <1>1, PackedNumbers, PackedBytes DEF Columns
<1>3. tp \in Nat \ {0} /\ Rank = 0 .. tp - 1 /\ w \in Nat \ {0} /\ y \in Nat \ {0}
  BY <1>2, Numbers DEF PackedLayer, Format
<1>4. Restored = P
  BY RestoredPacked
<1>5. CASE tp = 1
  <2>1. r = 0 /\ n = Width /\ r * n = 0
    <3>1. r = 0 /\ \A x \in Nat : x \div 1 = x /\ 0 * x = 0
      BY <1>3, <1>5
    <3>. QED
      BY <1>2, <1>5, <3>1
  <2>2. row = P
    BY <1>5 DEF Share
  <2>3. HasBlocks(P, HF, format, 0, nb)
    <3>1. ASSUME NEW b \in 0 .. nb - 1, NEW j \in 0 .. y - 1
          PROVE  P[ByteAt(b, format, j)] = [of |-> Block(HF, 0 + b, format), byte |-> j]
      <4>1. 0 + b = b
        OBVIOUS
      <4>2. P[ByteAt(b, format, j)] = [of |-> Block(HF, b, format), byte |-> j]
        BY <1>2 DEF IsPacked
      <4>. QED
        BY <4>1, <4>2
    <3>2. /\ P \in Seq(Piece) /\ Len(P) = format.prefix + nb * format.bytes
          /\ \A i \in 1 .. format.prefix : P[i] = [of |-> <<>>, byte |-> i - 1]
      BY <1>2, Zenon DEF IsPacked
    <3>. HIDE DEF P
    <3>. QED
      BY <3>1, <3>2, Zenon DEF HasBlocks
  <2>4. Decoded(P, format) = Narrow(HF, 0 * w, nb * w)
    <3>1. 0 \in Nat /\ nb \in Nat /\ 0 + nb <= nb
      OBVIOUS
    <3>. HIDE DEF P
    <3>. QED
      BY <1>1, <1>2, <2>3, <3>1, WholeColumns
  <2>5. 0 * w = 0
    BY <1>3
  <2>. HIDE DEF P, w, n, row
  <2>. QED
    BY <1>2, <1>4, <2>1, <2>2, <2>4, <2>5 DEF n, row
<1>6. CASE tp > 1
  <2>1. n % w = 0 /\ format.prefix = 0
    BY <1>6 DEF KeepsBlocks, Width
  <2>2. n \in Nat \ {0} /\ Width = tp * n
    <3>1. Shared(Width, tp, 1)
      BY <1>2, <1>3, Multiple
    <3>. QED
      BY <3>1 DEF Shared
  <2> DEFINE m == n \div w
             a == m * y
             c == r * m
  <2>3. m \in Nat \ {0} /\ n = m * w
    <3>. HIDE DEF n, w
    <3>1. Shared(n, w, 1)
      BY <1>3, <2>1, <2>2, Multiple
    <3>2. m \in Nat \ {0} /\ n = w * m
      BY <3>1 DEF Shared
    <3>. HIDE DEF m
    <3>. QED
      BY <1>3, <3>2
  <2>. HIDE DEF m
  <2>4. nb = tp * m
    <3> DEFINE z == tp * m
    <3>1. z \in Nat
      BY <1>3, <2>3
    <3>2. nb * w = z * w
      <4>. HIDE DEF w, n
      <4>1. tp * (m * w) = (tp * m) * w
        BY <1>3, <2>3
      <4>. QED
        BY <1>2, <2>2, <2>3, <4>1
    <3>. HIDE DEF z, w, n
    <3>3. nb < z => nb * w + w <= z * w /\ nb * w \in Nat
      BY <1>3, <3>1, Products
    <3>4. z < nb => z * w + w <= nb * w /\ z * w \in Nat
      BY <1>3, <3>1, Products
    <3>. QED
      BY <1>3, <3>1, <3>2, <3>3, <3>4 DEF z
  <2>5. c \in Nat /\ c + m <= nb
    BY <1>3, <2>3, <2>4, SharesFit
  <2>6. a \in Nat \ {0} /\ P \in Seq(Piece) /\ Len(P) = tp * a
    <3>1. a \in Nat \ {0}
      <4>. HIDE DEF y
      <4>. QED
        BY <1>3, <2>3
    <3>2. P \in Seq(Piece) /\ Len(P) = 0 + nb * y
      BY <1>2, <2>1 DEF IsPacked
    <3>3. nb * y = tp * a /\ nb * y \in Nat
      <4>. HIDE DEF y
      <4>1. (tp * m) * y = tp * (m * y) /\ (tp * m) * y \in Nat
        BY <1>3, <2>3
      <4>. QED
        BY <2>4, <4>1
    <3>. HIDE DEF a, y, P
    <3>. QED
      BY <3>1, <3>2, <3>3
  <2>7. row = Narrow(P, r * a, a)
    <3>1. Layer
      BY DEF PackedLayer
    <3>. HIDE DEF P, a
    <3>. QED
      BY <2>6, <3>1, SharesOfRows
  <2>8. /\ row \in Seq(Piece) /\ Len(row) = a
        /\ \A i \in 1 .. a : row[i] = P[r * a + i]
    <3> DEFINE z == r * a
    <3>1. z \in Nat /\ z + a <= Len(P) /\ a \in Nat
      <4>1. z \in Nat /\ z + a <= tp * a
        <5>. HIDE DEF a
        <5>. QED
          BY <1>3, <2>6, SharesFit
      <4>. QED
        BY <2>6, <4>1
    <3>2. row = Narrow(P, z, a) /\ P \in Seq(Piece)
      BY <2>6, <2>7
    <3>. HIDE DEF P, a, z, row
    <3>3. /\ Narrow(P, z, a) \in Seq(Piece) /\ Len(Narrow(P, z, a)) = a
          /\ \A i \in 1 .. a : Narrow(P, z, a)[i] = P[z + i]
      <4>. HIDE DEF w, y, n, c
      <4>1. z \in Nat /\ a \in Nat /\ z + a <= Len(P) /\ P \in Seq(Piece)
        BY <3>1, <3>2
      <4>2. Narrow(P, z, a) \in Seq(Piece)
        BY <4>1, NarrowRows
      <4>3. Len(Narrow(P, z, a)) = a
        BY <4>1, NarrowRows
      <4>4. \A i \in 1 .. a : Narrow(P, z, a)[i] = P[z + i]
        BY <4>1, NarrowRows
      <4>. QED
        BY <4>2, <4>3, <4>4
    <3>4. /\ row \in Seq(Piece) /\ Len(row) = a
          /\ \A i \in 1 .. a : row[i] = P[z + i]
      BY <3>2, <3>3
    <3>. QED
      BY <3>4 DEF z
  <2>9. ASSUME NEW b \in 0 .. m - 1, NEW j \in 0 .. y - 1
        PROVE  row[ByteAt(b, format, j)] = [of |-> Block(HF, c + b, format), byte |-> j]
    <3>1. c + b \in 0 .. nb - 1
      BY <2>3, <2>5
    <3>2. P[ByteAt(c + b, format, j)] = [of |-> Block(HF, c + b, format), byte |-> j]
      BY <1>2, <3>1 DEF IsPacked
    <3> DEFINE x == b * y
    <3>3. x \in Nat /\ x + y <= a
      <4>1. b \in Nat /\ b < m /\ y \in Nat /\ m \in Nat
        BY <1>3, <2>3
      <4>. HIDE DEF y
      <4>. QED
        BY <4>1, Products
    <3>4. ByteAt(b, format, j) = x + j + 1
      <4>1. ByteAt(b, format, j) = 0 + x + j + 1
        BY <2>1 DEF ByteAt
      <4>. HIDE DEF x
      <4>. QED
        BY <1>3, <3>3, <4>1
    <3>5. ByteAt(c + b, format, j) = r * a + (x + j + 1)
      <4>1. ByteAt(c + b, format, j) = 0 + (c + b) * y + j + 1
        BY <2>1 DEF ByteAt
      <4>2. (c + b) * y = r * a + x /\ r * a \in Nat
        <5>. HIDE DEF y
        <5>1. r \in Nat /\ b \in Nat /\ m \in Nat /\ y \in Nat
          BY <1>3, <2>3
        <5>. QED
          BY <5>1
      <4> DEFINE u == r * a
                 z == (c + b) * y
      <4>3. z = u + x /\ u \in Nat /\ ByteAt(c + b, format, j) = 0 + z + j + 1
        BY <4>1, <4>2
      <4>. HIDE DEF u, z, x
      <4>4. ByteAt(c + b, format, j) = u + (x + j + 1)
        BY <1>3, <3>3, <4>3
      <4>. QED
        BY <4>4 DEF u
    <3>6. x + j + 1 \in 1 .. a
      <4>. HIDE DEF x, a
      <4>. QED
        BY <1>3, <2>6, <3>3
    <3>. HIDE DEF x, a, P, row, c
    <3>. QED
      BY <2>8, <3>2, <3>4, <3>5, <3>6
  <2>10. HasBlocks(row, HF, format, c, m)
    <3>1. Len(row) = format.prefix + m * format.bytes
      <4>. HIDE DEF row
      <4>1. Len(row) = a /\ a \in Nat
        BY <2>6, <2>8
      <4>2. Len(row) = 0 + a
        <5>. HIDE DEF a
        <5>. QED
          BY <4>1
      <4>. QED
        BY <2>1, <4>2
    <3>2. 1 .. format.prefix = {}
      BY <2>1
    <3>. HIDE DEF row
    <3>. QED
      BY <2>8, <2>9, <3>1, <3>2 DEF HasBlocks
  <2>11. Decoded(row, format) = Narrow(HF, c * w, m * w)
    <3>. HIDE DEF row, c
    <3>. QED
      BY <1>1, <1>2, <2>3, <2>5, <2>10, WholeColumns
  <2>12. c * w = r * n
    <3>1. r \in Nat /\ m \in Nat /\ w \in Nat
      BY <1>3, <2>3
    <3>2. (r * m) * w = r * (m * w)
      <4>. HIDE DEF w
      <4>. QED
        BY <3>1
    <3>. HIDE DEF n
    <3>. QED
      BY <2>3, <3>2
  <2>. HIDE DEF P, row, c, w, n
  <2>. QED
    BY <1>4, <2>3, <2>11, <2>12 DEF row, n
<1>. QED
  BY <1>3, <1>5, <1>6
-----------------------------------------------------------------------------
(* Blocks that are cut.                                                    *)

\* Every rank decodes its own columns.
SharesRead ==
  \A r \in Rank :
    Decoded(Share(Restored, r), format) = Narrow(HF, r * (Width \div tp), Width \div tp)

\* A rank has l bytes of the row, from byte a on.
ShareFrom(r, a, l) ==
  /\ Share(Restored, r) \in Seq(Piece) /\ Len(Share(Restored, r)) = l
  /\ \A i \in 1 .. l : Share(Restored, r)[i] = Restored[a + i]

LEMMA ShareRow ==
  ASSUME PackedLayer, NEW r \in Rank, NEW q, q = Len(Restored) \div tp
  PROVE  /\ Restored \in Seq(Piece) /\ q \in Nat
         /\ tp = 1 \/ q = 0 =>
              Share(Restored, r) = Restored /\ ShareFrom(r, 0, Len(Restored))
         /\ tp # 1 /\ q # 0 => ShareFrom(r, r * q, q)
<1>1. Restored \in Seq(Piece)
  <2>1. \E nb \in Nat \ {0} : Columns(HF, format, nb)
    BY PackedNumbers
  <2>. QED
    BY <2>1, RestoredRow
<1>2. tp \in Nat \ {0} /\ Rank = 0 .. tp - 1
  BY Numbers DEF PackedLayer
<1> DEFINE l == Len(Restored)
<1>3. l \in Nat /\ q \in Nat /\ q * tp <= l
  <2>1. l \in Nat
    BY <1>1
  <2>2. \A a \in Nat, b \in Nat \ {0} : a \div b \in Nat /\ a = b * (a \div b) + (a % b) /\ a % b \in Nat
    OBVIOUS
  <2>. HIDE DEF l
  <2>3. q \in Nat /\ l = tp * q + (l % tp) /\ l % tp \in Nat
    BY <1>2, <2>1, <2>2 DEF l
  <2> DEFINE z == tp * q
  <2>4. z \in Nat /\ q * tp = z
    BY <1>2, <2>3
  <2>5. l = z + (l % tp)
    BY <2>3
  <2>. HIDE DEF z
  <2>. QED
    BY <2>1, <2>3, <2>4, <2>5
<1>4. ASSUME tp = 1 \/ q = 0
      PROVE  Share(Restored, r) = Restored /\ ShareFrom(r, 0, Len(Restored))
  <2>1. ~ (tp > 1 /\ q > 0)
    BY <1>2, <1>3, <1>4
  <2>2. Share(Restored, r) = Restored
    BY <2>1 DEF Share
  <2>3. \A i \in 1 .. Len(Restored) : Restored[i] = Restored[0 + i]
    OBVIOUS
  <2>. QED
    BY <1>1, <2>2, <2>3 DEF ShareFrom
<1>5. ASSUME tp # 1, q # 0
      PROVE  ShareFrom(r, r * q, q)
  <2>1. tp > 1 /\ q > 0
    BY <1>2, <1>3, <1>5
  <2>2. Share(Restored, r) = Narrow(Restored, r * q, q)
    BY <2>1 DEF Share
  <2> DEFINE z == r * q
  <2>3. z \in Nat /\ z + q <= Len(Restored)
    <3>1. z \in Nat /\ z + q <= tp * q
      BY <1>2, <1>3, SharesFit
    <3>2. tp * q = q * tp /\ tp * q \in Nat
      BY <1>2, <1>3
    <3>. HIDE DEF z
    <3>. QED
      BY <1>3, <3>1, <3>2
  <2>. HIDE DEF z
  <2>4. /\ Narrow(Restored, z, q) \in Seq(Piece) /\ Len(Narrow(Restored, z, q)) = q
        /\ \A i \in 1 .. q : Narrow(Restored, z, q)[i] = Restored[z + i]
    BY <1>1, <1>3, <2>3, NarrowRows
  <2>5. ShareFrom(r, z, q)
    BY <2>2, <2>4 DEF ShareFrom, z
  <2>. QED
    BY <2>5 DEF z
<1>. QED
  BY <1>1, <1>3, <1>4, <1>5

\* A byte of the row in the file is of the prefix or of a block.
InPrefix(i) == i <= format.prefix /\ FileTensor[i].of = <<>> /\ FileTensor[i].byte = i - 1
InBlock(i, b, j) ==
  /\ i = ByteAt(b, format, j)
  /\ FileTensor[i].of # <<>> /\ FileTensor[i].byte = j
  /\ FileTensor[i].of[1] = F[ColumnAt(b, format, 0)]
  /\ ColumnAt(b, format, 0) \in 1 .. Len(F)

LEMMA FilePieces ==
  ASSUME PackedLayer, NEW nb \in Nat \ {0}, Columns(HF, format, nb),
         NEW i \in 1 .. Len(FileTensor)
  PROVE  \/ InPrefix(i)
         \/ \E b \in 0 .. nb - 1, j \in 0 .. format.bytes - 1 : InBlock(i, b, j)
<1> DEFINE P == FileTensor
           y == format.bytes
<1>1. Format(format) /\ Columns(F, format, nb) /\ IsPacked(P, F, format, nb)
  BY PackedNumbers, FileRow
<1>2. format.prefix \in Nat /\ y \in Nat \ {0} /\ format.weights \in Nat \ {0}
  BY <1>1 DEF Format
<1>3. Len(P) = format.prefix + nb * format.bytes /\ Len(P) \in Nat
  BY <1>1, <1>2 DEF IsPacked
<1>. HIDE DEF P
<1>4. CASE i <= format.prefix
  <2>1. i \in 1 .. format.prefix
    BY <1>2, <1>3, <1>4 DEF P
  <2>2. P[i] = [of |-> <<>>, byte |-> i - 1]
    BY <1>1, <2>1 DEF IsPacked
  <2>3. P[i].of = <<>> /\ P[i].byte = i - 1
    BY <2>2
  <2>. QED
    BY <1>4, <2>3 DEF InPrefix, P
<1>5. CASE ~ (i <= format.prefix)
  <2>1. i \in format.prefix + 1 .. Len(P)
    BY <1>2, <1>3, <1>5 DEF P
  <2>2. PICK b \in 0 .. nb - 1, j \in 0 .. y - 1 : i = ByteAt(b, format, j)
    <3>. HIDE DEF y
    <3>. QED
      BY <1>1, <1>3, <2>1, BytePlaces DEF y
  <2>3. P[i] = [of |-> Block(F, b, format), byte |-> j]
    BY <1>1, <2>2 DEF IsPacked
  <2>4. P[i].of = Block(F, b, format) /\ P[i].byte = j
    BY <2>3
  <2>5. IsBlock(F, b, format)
    BY <1>1, Blocks
  <2>6. /\ Block(F, b, format) # <<>>
        /\ ColumnAt(b, format, 0) \in 1 .. Len(F)
        /\ Block(F, b, format)[1] = F[ColumnAt(b, format, 0)]
    <3>1. 0 \in 0 .. format.weights - 1 /\ 0 + 1 = 1
      BY <1>2
    <3>2. Block(F, b, format)[0 + 1] = F[ColumnAt(b, format, 0)]
          /\ ColumnAt(b, format, 0) \in 1 .. Len(F) /\ Len(Block(F, b, format)) = format.weights
      BY <2>5, <3>1 DEF IsBlock
    <3>3. Block(F, b, format) # <<>>
      BY <1>2, <3>2
    <3>. QED
      BY <3>1, <3>2, <3>3
  <2>7. InBlock(i, b, j)
    BY <2>2, <2>4, <2>6 DEF InBlock, P
  <2>. QED
    BY <2>7
<1>. QED
  BY <1>4, <1>5
\* What a rank that decodes its n columns has read.
ReadBy(r, n) ==
  /\ n \in Nat \ {0} /\ Width = tp * n
  /\ r * n \in Nat /\ r * n + n <= Width
  /\ \E m \in Nat \ {0}, X \in Seq(Slot) :
       /\ n = m * format.weights /\ Reads(Share(Restored, r), X, format, m)
       /\ \A i \in 1 .. n : X[i] = HF[r * n + i]

LEMMA ShareReads ==
  ASSUME PackedLayer, Width % tp = 0, SharesRead, NEW r \in Rank, NEW n, n = Width \div tp
  PROVE  ReadBy(r, n)
<1>1. /\ Format(format) /\ HF \in Seq(Slot) /\ Len(HF) = Width /\ Width \in Nat \ {0}
      /\ HF = Slots("v", heads.v, heads.vdim)
  BY PackedNumbers
<1>2. tp \in Nat \ {0} /\ Rank = 0 .. tp - 1
  BY Numbers DEF PackedLayer
<1>3. n \in Nat \ {0} /\ Width = tp * n
  <2>1. Shared(Width, tp, 1)
    BY <1>1, <1>2, Multiple
  <2>. QED
    BY <2>1 DEF Shared
<1> DEFINE z == r * n
           X == Narrow(HF, z, n)
           row == Share(Restored, r)
<1>4. z \in Nat /\ z + n <= Width
  <2>1. z \in Nat /\ z + n <= tp * n
    BY <1>2, <1>3, SharesFit
  <2>. QED
    BY <1>3, <2>1
<1>5. /\ X \in Seq(Slot) /\ Len(X) = n
      /\ \A i \in 1 .. n : X[i] = HF[z + i]
  <2>. HIDE DEF z
  <2>1. z \in Nat /\ n \in Nat /\ z + n <= Len(HF) /\ HF \in Seq(Slot)
    BY <1>1, <1>3, <1>4
  <2>2. Narrow(HF, z, n) \in Seq(Slot) /\ Len(Narrow(HF, z, n)) = n
    BY <2>1, NarrowRows
  <2>3. \A i \in 1 .. n : Narrow(HF, z, n)[i] = HF[z + i]
    BY <2>1, NarrowRows
  <2>. QED
    BY <2>2, <2>3
<1>6. \A i \in 1 .. Len(X) : X[i] # Garbage
  <2>1. ASSUME NEW i \in 1 .. n PROVE HF[z + i].part = "v"
    <3> DEFINE e == heads.v * heads.vdim
    <3>1. z + i \in 1 .. e
      <4>. HIDE DEF z
      <4>. QED
        BY <1>1, <1>3, <1>4 DEF Width
    <3>2. heads.v \in Nat /\ heads.vdim \in Nat \ {0}
      BY Numbers DEF PackedLayer
    <3>3. \A k \in 1 .. e : HF[k] = [part |-> "v", head |-> (k - 1) \div heads.vdim,
                                     at |-> (k - 1) % heads.vdim]
      <4>1. \A k \in 1 .. e : Slots("v", heads.v, heads.vdim)[k]
                               = [part |-> "v", head |-> (k - 1) \div heads.vdim,
                                  at |-> (k - 1) % heads.vdim]
        BY <3>2, SlotRows, Zenon
      <4>. QED
        BY <1>1, <4>1, Zenon
    <3>. HIDE DEF e, z
    <3> DEFINE j == z + i
    <3>4. j \in 1 .. e
      BY <3>1
    <3>. HIDE DEF j
    <3>5. HF[j] = [part |-> "v", head |-> (j - 1) \div heads.vdim, at |-> (j - 1) % heads.vdim]
      BY <3>3, <3>4
    <3>6. HF[j].part = "v"
      BY <3>5
    <3>. QED
      BY <3>6 DEF j
  <2>2. Garbage.part = "garbage"
    BY DEF Garbage
  <2>. HIDE DEF X, z
  <2> TAKE i \in 1 .. Len(X)
  <2>3. X[i].part = "v"
    BY <1>5, <2>1
  <2>. QED
    BY <2>2, <2>3
<1>7. Len(row) \in Nat
  <2> DEFINE q == Len(Restored) \div tp
  <2>1. /\ Restored \in Seq(Piece) /\ q \in Nat
        /\ tp = 1 \/ q = 0 => ShareFrom(r, 0, Len(Restored))
        /\ tp # 1 /\ q # 0 => ShareFrom(r, r * q, q)
    BY ShareRow
  <2>. HIDE DEF q
  <2>. QED
    BY <2>1 DEF ShareFrom
<1> DEFINE m == (Len(row) - format.prefix) \div format.bytes
<1>8. Reads(row, X, format, m)
  <2>1. X \in Seq(Slot) /\ X # <<>>
    BY <1>3, <1>5
  <2>2. Decoded(row, format) = X
    BY DEF SharesRead
  <2>. HIDE DEF X, row
  <2>. QED
    BY <1>1, <1>6, <1>7, <2>1, <2>2, ReadColumns DEF row
<1>9. m \in Nat /\ n = m * format.weights
  <2>. HIDE DEF m, X
  <2>. QED
    BY <1>5, <1>8 DEF Reads
<1>10. m # 0
  <2>1. format.weights \in Nat
    BY <1>1 DEF Format
  <2>. HIDE DEF m
  <2>. QED
    BY <1>3, <1>9, <2>1
<1>. HIDE DEF m, X, row
<1>. QED
  BY <1>3, <1>4, <1>5, <1>8, <1>9, <1>10 DEF row, ReadBy

\* Only one rank gets the prefix.
LEMMA PrefixOnce ==
  ASSUME PackedLayer, Width % tp = 0, SharesRead, tp # 1
  PROVE  format.prefix = 0
<1> SUFFICES ASSUME format.prefix # 0 PROVE FALSE
  OBVIOUS
<1>1. PICK nb \in Nat \ {0} : Columns(HF, format, nb)
  BY PackedNumbers
<1>2. tp \in Nat \ {0, 1} /\ Rank = 0 .. tp - 1 /\ 0 \in Rank /\ 1 \in Rank
  BY Numbers DEF PackedLayer
<1> DEFINE q == Len(Restored) \div tp
           n == Width \div tp
<1>3. /\ n \in Nat \ {0} /\ Width = tp * n /\ 1 * n + n <= Width
      /\ \E m \in Nat \ {0}, X \in Seq(Slot) : Reads(Share(Restored, 1), X, format, m)
  <2>1. ReadBy(1, n)
    BY <1>2, ShareReads
  <2>. QED
    BY <2>1 DEF ReadBy
<1>4. q = 0 => Share(Restored, 0) = Share(Restored, 1)
  BY <1>2, ShareRow
<1>5. q # 0
  <2> SUFFICES ASSUME q = 0 PROVE FALSE
    OBVIOUS
  <2>1. Narrow(HF, 0 * n, n) = Narrow(HF, 1 * n, n)
    BY <1>2, <1>4 DEF SharesRead
  <2>2. 0 * n = 0 /\ 1 * n = n /\ n + n <= Width /\ n \in Nat \ {0}
    BY <1>3
  <2>3. HF \in Seq(Slot) /\ Len(HF) = Width /\ HF = Slots("v", heads.v, heads.vdim)
    BY PackedNumbers
  <2>4. heads.v \in Nat /\ heads.vdim \in Nat \ {0} /\ Width \in Nat
    BY PackedNumbers, Numbers DEF PackedLayer
  <2>. HIDE DEF n
  <2>5. Narrow(HF, 0, n)[1] = HF[0 + 1] /\ Narrow(HF, n, n)[1] = HF[n + 1]
    <3>1. 1 \in 1 .. n /\ 0 \in Nat /\ n \in Nat /\ 0 + n <= Len(HF) /\ n + n <= Len(HF)
      BY <2>2, <2>3, <2>4
    <3>2. HF \in Seq(Slot) /\ n \in Nat
      BY <2>2, <2>3
    <3>3. ASSUME NEW a \in Nat, a + n <= Len(HF) PROVE Narrow(HF, a, n)[1] = HF[a + 1]
      <4>1. \A i \in 1 .. n : Narrow(HF, a, n)[i] = HF[a + i]
        BY <3>2, <3>3, NarrowRows
      <4>. QED
        BY <3>1, <4>1
    <3>. QED
      BY <3>1, <3>3
  <2>6. HF[1] = HF[n + 1]
    BY <2>1, <2>2, <2>5
  <2>7. 1 \in 1 .. heads.v * heads.vdim /\ n + 1 \in 1 .. heads.v * heads.vdim
    <3>1. 1 \in 1 .. Width /\ n + 1 \in 1 .. Width
      BY <2>2, <2>4
    <3>. QED
      BY <3>1 DEF Width
  <2>8. 1 = n + 1
    BY <2>3, <2>4, <2>6, <2>7, SlotsApart
  <2>. QED
    BY <2>2, <2>8
<1>6. q \in Nat \ {0} /\ ShareFrom(1, q, q) /\ q + q <= Len(Restored) /\ Restored \in Seq(Piece)
  <2>1. q \in Nat /\ Restored \in Seq(Piece) /\ ShareFrom(1, 1 * q, q)
    BY <1>2, <1>5, ShareRow
  <2>2. 1 * q = q
    BY <2>1
  <2>3. q + q <= Len(Restored)
    <3>1. \A a \in Nat, b \in Nat \ {0} : a = b * (a \div b) + (a % b) /\ a % b \in Nat
      OBVIOUS
    <3>2. Len(Restored) \in Nat
      BY <2>1
    <3>3. Len(Restored) = tp * q + (Len(Restored) % tp) /\ Len(Restored) % tp \in Nat
      BY <1>2, <3>1, <3>2
    <3>. HIDE DEF q
    <3>4. tp * q \in Nat /\ (tp = 2 => tp * q = q + q) /\ (2 < tp => 2 * q + q <= tp * q)
      BY <1>2, <2>1, Products
    <3>5. q + q <= tp * q
      BY <1>2, <2>1, <3>4
    <3>. QED
      BY <2>1, <3>2, <3>3, <3>4, <3>5
  <2>. HIDE DEF q
  <2>. QED
    BY <1>5, <2>1, <2>2, <2>3
<1>. HIDE DEF q
<1>7. Restored[q + 1].of = <<>> /\ Restored[q + 1].byte = 0
  <2>1. PICK m \in Nat \ {0}, X \in Seq(Slot) : Reads(Share(Restored, 1), X, format, m)
    BY <1>3
  <2>2. 1 \in 1 .. format.prefix /\ 1 \in 1 .. q
    <3>1. format.prefix \in Nat
      BY PackedNumbers DEF Format
    <3>. QED
      BY <1>6, <3>1
  <2>3. Share(Restored, 1)[1] = [of |-> <<>>, byte |-> 1 - 1]
    BY <2>1, <2>2 DEF Reads, PrefixRead
  <2>4. Restored[q + 1] = [of |-> <<>>, byte |-> 1 - 1]
    BY <1>6, <2>2, <2>3 DEF ShareFrom
  <2>. QED
    BY <2>4
<1>8. ASSUME NEW i \in 1 .. Len(FileTensor), FileTensor[i].of = <<>>, FileTensor[i].byte = 0
      PROVE  i = 1
  <2>1. \A b, j : ~ InBlock(i, b, j)
    BY <1>8 DEF InBlock
  <2>2. InPrefix(i)
    BY <1>1, <2>1, FilePieces
  <2>3. Len(FileTensor) \in Nat
    <3>1. FileTensor \in Seq(Piece)
      BY <1>1, RestoredRow
    <3>. QED
      BY <3>1
  <2>. QED
    BY <1>8, <2>2, <2>3 DEF InPrefix
<1>9. CASE ~ Moves
  <2>1. Restored = FileTensor
    BY <1>1, <1>9, RestoredRow
  <2>2. q + 1 \in 1 .. Len(FileTensor)
    BY <1>6, <2>1
  <2>. QED
    BY <1>6, <1>7, <1>8, <2>1, <2>2
<1>10. CASE Moves
  <2> DEFINE k == heads.k
             g == Group
             h == HeadBytes
  <2>1. /\ k \in Nat \ {0} /\ g \in Nat \ {0} /\ h \in Nat \ {0}
        /\ FileTensor \in Seq(Piece) /\ Len(Restored) = Len(FileTensor)
        /\ Restored = Swapped(FileTensor, g, k, h) /\ Len(FileTensor) = Total(g, k, h)
    BY <1>1, <1>10, RestoredRow, HeadsMove
  <2>. HIDE DEF k, g, h
  <2> DEFINE i == q + 1
  <2>2. i \in 1 .. Total(g, k, h) /\ i # 1 /\ i \in 1 .. Len(FileTensor)
    <3>1. i \in 1 .. Len(Restored) /\ i # 1
      BY <1>6
    <3>. QED
      BY <2>1, <3>1
  <2>. HIDE DEF i
  <2>3. Moved(i, g, k, h) \in 1 .. Len(FileTensor)
    BY <2>1, <2>2, MovedInside
  <2>4. Restored[i] = FileTensor[Moved(i, g, k, h)]
    BY <2>1, <2>2, SwappedPlaces
  <2>5. Moved(i, g, k, h) = 1
    BY <1>7, <1>8, <2>3, <2>4 DEF i
  <2>6. Moved(i, g, k, h) = 0 + 1 <=> i = 0 + 1
    <3>1. PICK j \in 0 .. h - 1 : j = 0
      BY <2>1
    <3>2. Moved(i, g, k, h) = j + 1 <=> i = j + 1
      BY <2>1, <2>2, FirstGroup
    <3>. QED
      BY <3>1, <3>2
  <2>. QED
    BY <2>2, <2>5, <2>6
<1>. QED
  BY <1>9, <1>10
\* The arithmetic of a head of g bytes that is no whole number of blocks: the
\* block it ends in belongs to the columns of the first head.
IsCut(v, g, p, nb, y, w, d, c, o) ==
  /\ v * g = p + nb * y /\ v * d = nb * w
  /\ g = p + c * y + o /\ ~ (d % w = 0 /\ p = 0)
InFirst(c, w, d) == c * w < d

LEMMA CutBlock ==
  ASSUME NEW v \in Nat \ {0, 1}, NEW g \in Nat \ {0}, NEW p \in Nat, NEW nb \in Nat,
         NEW y \in Nat \ {0}, NEW w \in Nat \ {0}, NEW d \in Nat, NEW c \in Nat, NEW o \in Nat,
         IsCut(v, g, p, nb, y, w, d, c, o)
  PROVE  InFirst(c, w, d)
<1>0. /\ v * g = p + nb * y /\ v * d = nb * w
      /\ g = p + c * y + o /\ ~ (d % w = 0 /\ p = 0)
  BY DEF IsCut
<1> DEFINE x == c * y
           z == (v * c) * y
           a == nb * y
           pp == v * p
           oo == v * o
<1>1. x \in Nat /\ z \in Nat /\ a \in Nat /\ pp \in Nat /\ oo \in Nat /\ v * x = z
  OBVIOUS
<1>2. pp + z + oo = p + a
  <2>1. v * (p + x + o) = v * p + v * x + v * o
    BY <1>1
  <2>2. v * g = v * (p + x + o)
    BY <1>0
  <2>3. v * g = p + a
    BY <1>0
  <2>. HIDE DEF x, a
  <2>. QED
    BY <1>1, <2>1, <2>2, <2>3
<1>3. pp >= p /\ (p # 0 => pp > p) /\ (o # 0 => oo > 0)
  <2>1. 1 * p + p <= v * p
    BY Products
  <2>2. o # 0 => oo > 0
    OBVIOUS
  <2>. QED
    BY <1>1, <2>1, <2>2
<1>4. z <= a /\ (z = a => p = 0 /\ o = 0)
  <2>. HIDE DEF z, a, pp, oo
  <2>. QED
    BY <1>1, <1>2, <1>3
<1> DEFINE vc == v * c
<1>5. vc \in Nat /\ z = vc * y
  OBVIOUS
<1>6. vc < nb \/ (vc = nb /\ p = 0)
  <2>. HIDE DEF vc
  <2>1. nb < vc => nb * y + y <= vc * y /\ nb * y \in Nat
    BY <1>5, Products
  <2>. HIDE DEF a, z
  <2>2. ~ (nb < vc)
    BY <1>1, <1>4, <1>5, <2>1 DEF a
  <2>3. vc = nb => z = a
    BY <1>5 DEF a
  <2>. QED
    BY <1>4, <1>5, <2>2, <2>3
<1> DEFINE cw == c * w
<1>7. cw \in Nat /\ v * cw = vc * w
  OBVIOUS
<1>8. CASE vc < nb
  <2>1. vc * w + w <= nb * w /\ vc * w \in Nat
    <3>. HIDE DEF vc
    <3>. QED
      BY <1>5, <1>8, Products
  <2>2. v * cw < v * d
    <3>. HIDE DEF cw, vc
    <3>1. nb * w \in Nat
      OBVIOUS
    <3>. QED
      BY <1>0, <1>7, <2>1, <3>1
  <2>. HIDE DEF cw
  <2>3. d <= cw => v * d <= v * cw
    <3>1. d < cw => d * v + v <= cw * v /\ d * v \in Nat
      BY <1>7, Products
    <3>2. d * v = v * d /\ cw * v = v * cw
      BY <1>7
    <3>. QED
      BY <1>7, <3>1, <3>2
  <2>. QED
    BY <1>7, <2>2, <2>3 DEF InFirst, cw
<1>9. CASE vc = nb /\ p = 0
  <2>1. v * cw = v * d
    BY <1>0, <1>7, <1>9
  <2>. HIDE DEF cw
  <2>2. cw = d
    <3>1. d < cw => d * v + v <= cw * v /\ d * v \in Nat
      BY <1>7, Products
    <3>2. cw < d => cw * v + v <= d * v /\ cw * v \in Nat
      BY <1>7, Products
    <3>3. d * v = v * d /\ cw * v = v * cw
      BY <1>7
    <3>. QED
      BY <1>7, <2>1, <3>1, <3>2, <3>3
  <2>3. (c * w + 0) % w = 0
    BY Division
  <2>4. d % w = 0
    BY <2>2, <2>3 DEF cw
  <2>. QED
    BY <1>0, <1>9, <2>4
<1>. QED
  BY <1>6, <1>8, <1>9

\* Heads that were moved as bytes and are all read were whole blocks.
LEMMA HeadsOfBlocks ==
  ASSUME PackedLayer, Width % tp = 0, SharesRead, Moves, heads.k # 1
  PROVE  heads.vdim % format.weights = 0 /\ format.prefix = 0
<1> SUFFICES ASSUME ~ (heads.vdim % format.weights = 0 /\ format.prefix = 0) PROVE FALSE
  OBVIOUS
<1> DEFINE k == heads.k
           v == heads.v
           d == heads.vdim
           g == HeadBytes
           p == format.prefix
           w == format.weights
           y == format.bytes
           n == Width \div tp
           row == Share(Restored, 0)
<1>1. PICK nb \in Nat \ {0} : Columns(HF, format, nb)
  BY PackedNumbers
<1>2. /\ p \in Nat /\ w \in Nat \ {0} /\ y \in Nat \ {0} /\ Format(format)
      /\ tp \in Nat \ {0} /\ 0 \in Rank /\ d \in Nat \ {0} /\ k \in Nat \ {0, 1}
      /\ v \in Nat \ {0, 1} /\ k < v /\ Group \in Nat \ {0, 1} /\ v = k * Group
  <2>1. Format(format) /\ tp \in Nat \ {0} /\ 0 \in Rank /\ d \in Nat \ {0} /\ k \in Nat \ {0, 1}
    BY PackedNumbers, Numbers DEF PackedLayer
  <2>2. Group \in Nat \ {0, 1} /\ v = k * Group /\ v \in Nat \ {0}
    BY HeadsMove, Numbers DEF PackedLayer
  <2>3. 1 * k + k <= Group * k
    <3>1. 1 < Group
      BY <2>2
    <3>. HIDE DEF k
    <3>. QED
      BY <2>1, <2>2, <3>1, Products
  <2>4. k < v
    <3>. HIDE DEF k, v
    <3>1. Group * k = v
      BY <2>1, <2>2
    <3>. QED
      BY <2>1, <2>2, <2>3, <3>1
  <2>. QED
    BY <2>1, <2>2, <2>4 DEF Format
<1>3. /\ g \in Nat \ {0} /\ FileTensor \in Seq(Piece) /\ Len(FileTensor) = v * g
      /\ Restored = Swapped(FileTensor, Group, k, g) /\ Len(FileTensor) = Total(Group, k, g)
      /\ Restored \in Seq(Piece) /\ Len(Restored) = Len(FileTensor)
  BY <1>1, RestoredRow
<1>4. /\ Len(FileTensor) = p + nb * y /\ v * d = nb * w /\ Len(HF) = v * d
      /\ HF = Slots("v", v, d)
      /\ F = Swapped(HF, k, Group, d) /\ Len(HF) = Total(k, Group, d) /\ HF \in Seq(Slot)
  <2>1. IsPacked(FileTensor, F, format, nb)
    BY <1>1, FileRow
  <2>2. Len(HF) = Width /\ HF \in Seq(Slot) /\ HF = Slots("v", v, d)
    BY PackedNumbers
  <2>3. Len(HF) = nb * w
    BY <1>1 DEF Columns
  <2>. QED
    BY <2>1, <2>2, <2>3, HeadsMove DEF IsPacked, Width
<1>5. /\ n \in Nat \ {0} /\ Width = tp * n
      /\ \E m \in Nat \ {0}, X \in Seq(Slot) :
           /\ n = m * w /\ Reads(row, X, format, m)
           /\ \A i \in 1 .. n : X[i] = HF[0 * n + i]
  <2>1. ReadBy(0, n)
    BY <1>2, ShareReads
  <2>. HIDE DEF n, row
  <2>. QED
    BY <2>1 DEF ReadBy, row
<1>6. PICK m \in Nat \ {0}, X \in Seq(Slot) :
        /\ n = m * w /\ Reads(row, X, format, m)
        /\ \A i \in 1 .. n : X[i] = HF[0 * n + i]
  BY <1>5
<1>7. /\ Len(row) \in Nat /\ Len(row) <= Len(Restored)
      /\ \A i \in 1 .. Len(row) : row[i] = Restored[i]
  <2> DEFINE q == Len(Restored) \div tp
  <2>1. /\ q \in Nat /\ (tp = 1 \/ q = 0 => ShareFrom(0, 0, Len(Restored)))
        /\ (tp # 1 /\ q # 0 => ShareFrom(0, 0 * q, q))
    BY <1>2, ShareRow
  <2>2. 0 * q = 0
    BY <2>1
  <2>3. q <= Len(Restored)
    <3>1. Len(Restored) \in Nat
      BY <1>3
    <3>2. \A a \in Nat, b \in Nat \ {0} : a \div b <= a
      <4> TAKE a \in Nat, b \in Nat \ {0}
      <4> DEFINE e == a \div b
      <4>1. e \in Nat /\ a = b * e + (a % b) /\ a % b \in Nat
        OBVIOUS
      <4>2. b * e = e * b /\ b * e \in Nat
        BY <4>1
      <4>3. e <= e * b
        <5>. HIDE DEF e
        <5>. QED
          BY <4>1
      <4>. HIDE DEF e
      <4>. QED
        BY <4>1, <4>2, <4>3 DEF e
    <3>. QED
      BY <1>2, <3>1, <3>2
  <2>4. PICK l \in Nat : ShareFrom(0, 0, l) /\ l <= Len(Restored)
    <3>1. Len(Restored) \in Nat
      BY <1>3
    <3>. HIDE DEF q
    <3>. QED
      BY <2>1, <2>2, <2>3, <3>1
  <2>5. Len(row) = l /\ \A i \in 1 .. l : row[i] = Restored[0 + i]
    BY <2>4 DEF ShareFrom
  <2>. HIDE DEF row
  <2>. QED
    BY <2>4, <2>5
\* Byte g of the restored row, the first of the second head, is that of head k.
<1>8. /\ g + 1 \in 1 .. Len(Restored) /\ k * g + 1 \in 1 .. Len(FileTensor)
      /\ Restored[g + 1] = FileTensor[k * g + 1] /\ k * g # g
  <2>1. k * g \in Nat /\ k * g + g <= v * g /\ 1 * g + g <= k * g
    <3>. HIDE DEF g, k, v
    <3>1. 1 < k
      BY <1>2
    <3>. QED
      BY <1>2, <1>3, <3>1, Products
  <2>2. Moved(Place(0, Group, 1, g, 0), Group, k, g) = Place(1, k, 0, g, 0)
    <3>1. PICK x \in 0 .. k - 1, z \in 0 .. Group - 1, j \in 0 .. g - 1 : x = 0 /\ z = 1 /\ j = 0
      <4>1. 0 \in 0 .. k - 1 /\ 1 \in 0 .. Group - 1 /\ 0 \in 0 .. g - 1
        BY <1>2, <1>3
      <4>. QED
        BY <4>1
    <3>. HIDE DEF g, k
    <3>2. Exchanged(x, Group, z, k, g, j)
      BY <1>2, <1>3, MovedPlace
    <3>. QED
      BY <3>1, <3>2 DEF Exchanged
  <2>3. Place(0, Group, 1, g, 0) = g + 1 /\ Place(1, k, 0, g, 0) = k * g + 1
    <3>1. 0 * Group + 1 = 1 /\ 1 * k + 0 = k
      BY <1>2
    <3>2. Place(0, Group, 1, g, 0) = 1 * g + 0 + 1 /\ Place(1, k, 0, g, 0) = k * g + 0 + 1
      BY <3>1 DEF Place
    <3>. HIDE DEF g, k
    <3>. QED
      BY <1>3, <2>1, <3>2
  <2> DEFINE kg == k * g
             vg == v * g
  <2>4. kg \in Nat /\ kg + g <= vg /\ g + g <= kg /\ Len(FileTensor) = vg
    <3>1. 1 * g + g = g + g
      BY <1>3
    <3>. QED
      BY <1>3, <2>1, <3>1
  <2>. HIDE DEF g, k, kg, vg
  <2>5. g + 1 \in 1 .. Len(FileTensor) /\ kg + 1 \in 1 .. Len(FileTensor) /\ kg # g
    BY <1>3, <2>4
  <2>6. Restored[g + 1] = FileTensor[Moved(g + 1, Group, k, g)]
    BY <1>3, <2>5, SwappedPlaces
  <2>. QED
    BY <1>3, <2>2, <2>3, <2>5, <2>6 DEF kg
<1> DEFINE u == k * g + 1
<1>9. /\ u \in 1 .. Len(FileTensor) /\ u - 1 # g /\ u \in Nat
      /\ Restored[g + 1] = FileTensor[u] /\ g + 1 \in 1 .. Len(Restored)
  <2> DEFINE kg == k * g
  <2>1. kg \in Nat
    BY <1>2, <1>3
  <2>2. u = kg + 1 /\ kg # g
    BY <1>8
  <2>. HIDE DEF kg, u, g
  <2>3. u - 1 # g /\ u \in Nat
    BY <2>1, <2>2
  <2>. QED
    BY <1>8, <2>3 DEF u
<1>10. \/ InPrefix(u)
       \/ \E b \in 0 .. nb - 1, j \in 0 .. y - 1 : InBlock(u, b, j)
  <2>. HIDE DEF u
  <2>. QED
    BY <1>1, <1>9, FilePieces
<1>. HIDE DEF u
<1>11. PrefixRead(row, format) /\ m \in Nat \ {0} /\ p + m * y <= Len(row)
  BY <1>6 DEF Reads
<1>12. CASE g < p
  <2>1. g + 1 \in 1 .. p
    <3>. HIDE DEF g, p
    <3>. QED
      BY <1>2, <1>3, <1>12
  <2>2. g + 1 <= Len(row) /\ row[g + 1] = [of |-> <<>>, byte |-> (g + 1) - 1]
    BY <1>11, <2>1 DEF PrefixRead
  <2>3. FileTensor[u] = [of |-> <<>>, byte |-> (g + 1) - 1]
    <3>. HIDE DEF g, row
    <3>1. g + 1 \in 1 .. Len(row)
      BY <1>3, <1>7, <2>2
    <3>. QED
      BY <1>7, <1>9, <2>2, <3>1
  <2>4. FileTensor[u].of = <<>> /\ FileTensor[u].byte = g
    <3>1. (g + 1) - 1 = g
      BY <1>3
    <3>. QED
      BY <2>3, <3>1
  <2>5. InPrefix(u)
    BY <1>10, <2>4 DEF InBlock
  <2>. QED
    BY <1>9, <2>4, <2>5 DEF InPrefix
<1>13. CASE ~ (g < p)
  <2> DEFINE e == g - p
             c == e \div y
             o == e % y
  <2>1. e \in Nat /\ c \in Nat /\ o \in 0 .. y - 1 /\ e = c * y + o
    <3>1. e \in Nat
      <4>. HIDE DEF g, p
      <4>. QED
        BY <1>2, <1>3, <1>13
    <3>2. \A a \in Nat, b \in Nat \ {0} :
            a \div b \in Nat /\ a % b \in 0 .. b - 1 /\ a = (a \div b) * b + (a % b)
      OBVIOUS
    <3>. HIDE DEF e, y
    <3>. QED
      BY <1>2, <3>1, <3>2
  <2>2. g = p + c * y + o /\ c * y \in Nat
    <3> DEFINE x == c * y
    <3>1. x \in Nat
      <4>1. c \in Nat /\ y \in Nat
        BY <1>2, <2>1
      <4>. HIDE DEF c, y
      <4>. QED
        BY <4>1
    <3>2. e = x + o
      BY <2>1
    <3>. HIDE DEF x, c, o, g, p
    <3>3. g = p + x + o
      <4>1. p \in Nat /\ g \in Nat /\ g - p = x + o /\ o \in Nat
        BY <1>2, <1>3, <2>1, <3>2
      <4>. QED
        BY <3>1, <4>1
    <3>. QED
      BY <3>1, <3>3 DEF x
  <2>. HIDE DEF e, c, o
  <2>3. c * w < d
    <3>1. ~ (d % w = 0 /\ p = 0)
      OBVIOUS
    <3>. HIDE DEF v, g, p, y, w, d
    <3>2. v * g = p + nb * y
      BY <1>3, <1>4
    <3>3. o \in Nat /\ nb \in Nat /\ c \in Nat
      <4>1. c \in Nat /\ o \in 0 .. y - 1 /\ y \in Nat /\ nb \in Nat
        BY <1>2, <2>1
      <4>. QED
        BY <4>1
    <3>4. IsCut(v, g, p, nb, y, w, d, c, o)
      BY <1>4, <2>2, <3>1, <3>2 DEF IsCut
    <3>5. v \in Nat \ {0, 1} /\ g \in Nat \ {0} /\ p \in Nat /\ y \in Nat \ {0}
          /\ w \in Nat \ {0} /\ d \in Nat
      BY <1>2, <1>3
    <3>6. InFirst(c, w, d)
      BY <3>3, <3>4, <3>5, CutBlock
    <3>. QED
      BY <3>6 DEF InFirst
  <2>4. d <= n
    <3>1. v % tp = 0
      BY HeadsDivide DEF PackedLayer, Moves, LinearAttention
    <3>2. Shared(v, tp, d)
      BY <1>2, <3>1, Multiple
    <3>3. n = (v \div tp) * d /\ v \div tp \in Nat \ {0}
      BY <3>2 DEF Shared, Width
    <3> DEFINE a == v \div tp
    <3>. HIDE DEF a, n, d
    <3>4. 1 < a => 1 * d + d <= a * d
      BY <1>2, <3>3, Products DEF a
    <3>. QED
      BY <1>2, <3>3, <3>4 DEF a
  <2>5. c * w \in Nat /\ c < m
    <3>1. c * w < m * w
      <4> DEFINE cw == c * w
                 mw == m * w
      <4>1. cw \in Nat /\ mw \in Nat /\ n = mw
        <5>1. c \in Nat /\ m \in Nat /\ w \in Nat /\ n = m * w
          BY <1>2, <1>6, <1>11, <2>1
        <5>. HIDE DEF w, n
        <5>. QED
          BY <5>1
      <4>. HIDE DEF cw, mw, n, d
      <4>. QED
        BY <1>2, <2>3, <2>4, <4>1 DEF cw, mw
    <3>. HIDE DEF w
    <3>2. c * w \in Nat /\ m * w \in Nat
      BY <1>2, <1>11, <2>1
    <3>3. m < c => m * w + w <= c * w
      BY <1>2, <1>11, <2>1, Products
    <3>4. m = c => m * w = c * w
      OBVIOUS
    <3> DEFINE cw == c * w
               mw == m * w
    <3>. HIDE DEF cw, mw
    <3>5. cw \in Nat /\ mw \in Nat /\ cw < mw /\ (m < c => mw + w <= cw) /\ (m = c => mw = cw)
      BY <3>1, <3>2, <3>3, <3>4 DEF cw, mw
    <3>6. ~ (m < c) /\ m # c
      BY <1>2, <3>5
    <3>. QED
      BY <1>11, <2>1, <3>2, <3>6
  \* Block c is read, and holds column c * w.
  <2> DEFINE B == row[ByteAt(c, format, 0)].of
  <2>6. /\ B # <<>> /\ row[ByteAt(c, format, o)] = [of |-> B, byte |-> o]
        /\ X[ColumnAt(c, format, 0)] = B[0 + 1]
    <3>1. c \in 0 .. m - 1 /\ 0 \in 0 .. w - 1
      BY <1>2, <1>11, <2>1, <2>5
    <3>2. BlockRead(row, c, format) /\ X[ColumnAt(c, format, 0)] = B[0 + 1]
      BY <1>6, <3>1 DEF Reads
    <3>. HIDE DEF row
    <3>. QED
      BY <2>1, <3>2 DEF BlockRead
  <2>7. ColumnAt(c, format, 0) = c * w + 1 /\ ByteAt(c, format, o) = g + 1
    <3> DEFINE cw == c * w
               cy == c * y
    <3>1. /\ cw \in Nat /\ cy \in Nat /\ g = p + cy + o
          /\ ColumnAt(c, format, 0) = cw + 0 + 1 /\ ByteAt(c, format, o) = p + cy + o + 1
      BY <2>2, <2>5 DEF ColumnAt, ByteAt
    <3>. HIDE DEF cw, cy, g, p
    <3>2. ColumnAt(c, format, 0) = cw + 1 /\ ByteAt(c, format, o) = g + 1
      BY <1>2, <2>1, <3>1
    <3>. QED
      BY <3>2 DEF cw
  <2>8. B[1] = HF[c * w + 1]
    <3> DEFINE i == c * w + 1
    <3>1. i \in 1 .. n
      <4> DEFINE cw == c * w
      <4>1. cw \in Nat /\ cw < d
        BY <2>3, <2>5
      <4>. HIDE DEF cw, n, d
      <4>2. cw + 1 \in 1 .. n
        BY <1>2, <1>5, <2>4, <4>1
      <4>. QED
        BY <4>2 DEF cw
    <3>2. X[i] = HF[0 * n + i]
      BY <1>6, <3>1
    <3>3. 0 * n + i = i
      <4>. HIDE DEF i, n
      <4>. QED
        BY <1>5, <3>1
    <3>. HIDE DEF B, i
    <3>. QED
      BY <2>6, <2>7, <3>2, <3>3 DEF i
  <2>9. FileTensor[u] = [of |-> B, byte |-> o]
    <3>1. g + 1 \in 1 .. Len(row)
      <4> DEFINE cy == c * y
                 my == m * y
      <4>1. cy \in Nat /\ my \in Nat /\ cy + y <= my
        <5>. HIDE DEF y
        <5>. QED
          BY <1>2, <1>11, <2>1, <2>5, Products
      <4>2. g = p + cy + o /\ p + my <= Len(row) /\ o < y /\ o \in Nat
        BY <1>2, <1>11, <2>1, <2>2
      <4>. HIDE DEF cy, my, g, p, y, row
      <4>3. p \in Nat /\ y \in Nat /\ Len(row) \in Nat
        BY <1>2, <1>7
      <4>. QED
        BY <4>1, <4>2, <4>3
    <3>. HIDE DEF row, B, g
    <3>. QED
      BY <1>7, <1>9, <2>6, <2>7, <3>1
  <2>10. FileTensor[u].of = B /\ FileTensor[u].byte = o
    <3>. HIDE DEF B
    <3>. QED
      BY <2>9
  <2>11. PICK b \in 0 .. nb - 1, j \in 0 .. y - 1 : InBlock(u, b, j)
    <3>1. ~ InPrefix(u)
      BY <2>6, <2>10 DEF InPrefix
    <3>. QED
      BY <1>10, <3>1
  <2>12. j = o /\ HF[c * w + 1] = F[ColumnAt(b, format, 0)]
    <3>. HIDE DEF B
    <3>. QED
      BY <2>8, <2>10, <2>11 DEF InBlock
  \* The same column, so the same block.
  <2>13. ColumnAt(b, format, 0) = c * w + 1
    <3> DEFINE i == ColumnAt(b, format, 0)
               z == c * w
               t == Moved(i, k, Group, d)
    <3>1. z \in 0 .. d - 1
      <4>. HIDE DEF z, d
      <4>. QED
        BY <1>2, <2>3, <2>5 DEF z
    <3>2. i \in 1 .. Len(HF)
      <4>1. i \in 1 .. Len(F)
        BY <2>11 DEF InBlock
      <4>2. Len(F) = Len(HF)
        <5>. HIDE DEF k, d
        <5>1. Len(HF) = (k * Group) * d
          BY <1>4 DEF Total
        <5>. QED
          BY <1>2, <1>4, <5>1, SwappedRows
      <4>. QED
        BY <4>1, <4>2
    <3>. HIDE DEF i, z, k, d
    <3>3. F[i] = HF[t]
      BY <1>4, <3>2, SwappedPlaces
    <3>4. t \in 1 .. Len(HF)
      BY <1>2, <1>4, <3>2, MovedInside
    <3>5. z + 1 \in 1 .. Len(HF)
      <4>1. Len(HF) = v * d /\ (1 < v => 1 * d + d <= v * d) /\ v * d \in Nat
        BY <1>2, <1>4, Products
      <4> DEFINE vd == v * d
      <4>2. Len(HF) = vd /\ vd \in Nat /\ (1 < v => 1 * d + d <= vd)
        BY <4>1
      <4>. HIDE DEF vd, v
      <4>. QED
        BY <1>2, <3>1, <4>2
    <3>6. HF[z + 1] = HF[t]
      BY <2>12, <3>3 DEF i, z
    <3>7. z + 1 = t
      <4>. HIDE DEF t
      <4>1. t \in 1 .. v * d /\ z + 1 \in 1 .. v * d
        BY <1>4, <3>4, <3>5
      <4>. HIDE DEF v
      <4>. QED
        BY <1>2, <1>4, <3>6, <4>1, SlotsApart
    <3>8. t = z + 1 <=> i = z + 1
      <4>1. /\ k \in Nat \ {0} /\ Group \in Nat \ {0} /\ d \in Nat \ {0}
            /\ i \in 1 .. Total(k, Group, d)
        BY <1>2, <1>4, <3>2
      <4>. HIDE DEF w, v, n, g
      <4>. QED
        BY <3>1, <4>1, FirstGroup
    <3>. QED
      BY <3>7, <3>8 DEF i, z
  <2>14. b = c
    <3> DEFINE bw == b * w
               cw == c * w
    <3>1. bw \in Nat /\ cw \in Nat /\ (b < c => bw + w <= cw) /\ (c < b => cw + w <= bw)
      <4>. HIDE DEF w
      <4>. QED
        BY <1>2, <2>1, Products
    <3>2. bw + 0 + 1 = cw + 1
      BY <2>13 DEF ColumnAt
    <3>. HIDE DEF bw, cw
    <3>. QED
      BY <1>2, <2>1, <3>1, <3>2
  <2>15. u = g + 1
    BY <2>7, <2>11, <2>12, <2>14 DEF InBlock
  <2>. HIDE DEF g
  <2>. QED
    BY <1>3, <1>9, <2>15
<1>. QED
  BY <1>12, <1>13

-----------------------------------------------------------------------------
(* When a rank decodes its own columns.                                    *)

\* The columns divide over the ranks.
LEMMA WidthDivides ==
  ASSUME Layer, param \in RowParallel
  PROVE  Width % tp = 0
<1>1. CASE param = "down_proj"
  BY <1>1 DEF Layer, Divides, Width
<1>2. CASE param = "out_proj"
  <2> DEFINE v == heads.v
             d == heads.vdim
             q == (v \div tp) * d
  <2>1. v % tp = 0 /\ v \in Nat \ {0} /\ d \in Nat \ {0} /\ tp \in Nat \ {0}
    BY <1>2, HeadsDivide, Numbers DEF LinearAttention
  <2>. HIDE DEF v, d
  <2>2. Shared(v, tp, d)
    BY <2>1, Multiple
  <2>3. q \in Nat \ {0} /\ v * d = tp * q
    BY <2>2 DEF Shared
  <2>. HIDE DEF q
  <2>4. (q * tp + 0) % tp = 0
    BY <2>1, <2>3, Division
  <2>5. v * d = q * tp + 0
    BY <2>1, <2>3
  <2>. QED
    BY <2>4, <2>5 DEF Width, v, d
<1>. QED
  BY <1>1, <1>2 DEF RowParallel

\* What rank r has of the columns of its share.
Columnwise(r) == IF format = Dense THEN Share(Restored, r) ELSE Decoded(Share(Restored, r), format)

LEMMA KeptOrCut ==
  ASSUME Layer, param \in RowParallel, Width % format.weights = 0,
         Reshapes(param, FileTensor, heads)
  PROVE  (\A r \in Rank : Columnwise(r) = Narrow(HFOrder(param, heads), r * (Width \div tp),
                                                 Width \div tp))
           <=> KeepsBlocks
<1> DEFINE n == Width \div tp
<1>1. Width % tp = 0
  BY WidthDivides
<1>2. CASE format = Dense
  <2> DEFINE H == HFOrder(param, heads)
  <2>1. Restored = H /\ H \in Seq(Slot) /\ Len(H) = Width /\ Width \in Nat \ {0}
    <3>1. Restored = H /\ H \in Seq(Slot)
      BY <1>2, RestoredIsHF, HFRows
    <3>2. H = VSlots(param, heads) /\ HeadDim(param, heads) = heads.vdim
      BY DEF HFOrder, HeadDim, RowParallel
    <3>3. heads.v \in Nat \ {0} /\ heads.vdim \in Nat \ {0}
      BY Numbers
    <3>4. Len(H) = heads.v * heads.vdim
      BY <3>2, HFRows
    <3>. QED
      BY <3>1, <3>3, <3>4 DEF Width
  <2>2. tp \in Nat \ {0} /\ n \in Nat \ {0} /\ Width = tp * n
    <3>1. tp \in Nat \ {0}
      BY Numbers
    <3>2. Shared(Width, tp, 1)
      BY <1>1, <2>1, <3>1, Multiple
    <3>. QED
      BY <3>1, <3>2 DEF Shared
  <2>. HIDE DEF n, H
  <2>3. ASSUME NEW r \in Rank PROVE Columnwise(r) = Narrow(H, r * n, n)
    <3>1. Share(H, r) = Narrow(H, r * n, n)
      BY <2>1, <2>2, SharesOfRows
    <3>. QED
      BY <1>2, <2>1, <3>1 DEF Columnwise
  <2>4. KeepsBlocks
    <3>1. format.weights = 1 /\ format.prefix = 0
      BY <1>2 DEF Dense
    <3>2. \A x \in Nat : x % 1 = 0
      OBVIOUS
    <3>3. n % 1 = 0 /\ heads.vdim % 1 = 0
      BY <2>2, <3>2, Numbers
    <3>. QED
      BY <3>1, <3>3 DEF KeepsBlocks, n, Width
  <2>. QED
    BY <2>3, <2>4 DEF n, H
<1>3. CASE format # Dense
  <2>1. PackedLayer
    BY <1>3 DEF PackedLayer
  <2>2. /\ \A r \in Rank : Columnwise(r) = Decoded(Share(Restored, r), format)
        /\ HFOrder(param, heads) = HF
    BY <1>3, <2>1, PackedNumbers DEF Columnwise
  <2>3. (\A r \in Rank : Columnwise(r) = Narrow(HFOrder(param, heads), r * n, n)) <=> SharesRead
    BY <2>2 DEF SharesRead
  <2>4. KeepsBlocks => SharesRead
    BY <1>1, <2>1, SharesKept DEF SharesRead
  <2>5. ASSUME SharesRead PROVE KeepsBlocks
    <3>1. tp # 1 => format.prefix = 0
      BY <1>1, <2>1, <2>5, PrefixOnce
    <3>2. n % format.weights = 0
      <4>1. 0 \in Rank
        BY Numbers
      <4>2. ReadBy(0, n)
        BY <1>1, <2>1, <2>5, <4>1, ShareReads
      <4>3. PICK m \in Nat \ {0} : n = m * format.weights
        <5>. HIDE DEF n
        <5>. QED
          BY <4>2, Zenon DEF ReadBy
      <4>4. format.weights \in Nat \ {0}
        BY <2>1, PackedNumbers DEF Format
      <4> DEFINE w == format.weights
      <4>. HIDE DEF w, n
      <4>5. (m * w + 0) % w = 0
        BY <4>4, Division DEF w
      <4>6. n = m * w + 0
        BY <4>3, <4>4 DEF w
      <4>. QED
        BY <4>5, <4>6 DEF w
    <3>3. ASSUME param = "out_proj", heads.k \notin {1, heads.v}
          PROVE  heads.vdim % format.weights = 0 /\ format.prefix = 0
      <4>1. Moves /\ heads.k # 1
        BY <3>3 DEF Moves
      <4>. QED
        BY <1>1, <2>1, <2>5, <4>1, HeadsOfBlocks
    <3>4. tp > 1 => tp # 1
      BY Numbers
    <3>5. (heads.v * heads.vdim) \div tp = n
      BY DEF Width
    <3>. HIDE DEF n
    <3>. QED
      BY <3>1, <3>2, <3>3, <3>4, <3>5, Zenon DEF KeepsBlocks
  <2>. QED
    BY <2>3, <2>4, <2>5
<1>. QED
  BY <1>2, <1>3

\* A rank that goes on has a row that reshape accepted.
Shaped ==
  /\ param \in RowParallel => Width % format.weights = 0
  /\ \A r \in Rank :
       /\ stage[r] = "mapped" => Reshapes(param, FileTensor, heads)
       /\ \A id \in ShardIds(param) : held[r][id] # <<>> => stage[r] = "mapped"

LEMMA InitShaped == Init => Shaped
<1> SUFFICES ASSUME Init PROVE Shaped
  OBVIOUS
<1>1. Layer
  BY InitFollowing
<1>2. ASSUME param \in RowParallel PROVE Width % format.weights = 0
  <2>1. CASE format = Dense
    <3>1. format.weights = 1
      BY <2>1 DEF Dense
    <3>2. Width \in Nat
      BY <1>1, Numbers DEF Width
    <3>3. \A x \in Nat : x % 1 = 0
      OBVIOUS
    <3>. QED
      BY <3>1, <3>2, <3>3
  <2>2. CASE format # Dense
    BY <1>2, <2>2 DEF Init, Width
  <2>. QED
    BY <2>1, <2>2
<1>3. \A r \in Rank : stage[r] = "file" /\ \A id \in ShardIds(param) : held[r][id] = <<>>
  BY DEF Init
<1>. QED
  BY <1>2, <1>3 DEF Shaped

LEMMA NextShaped == Layer /\ Following /\ Shaped /\ [Next]_vars => Shaped'
<1> SUFFICES ASSUME Layer, Following, Shaped, [Next]_vars PROVE Shaped'
  OBVIOUS
<1>1. UNCHANGED layer
  BY DEF Next, Load, TransformWeight, LoadColumn, LoadRow, LoadMerged, LoadQKV, LoadEmbedding,
         LoadOwn, Store, vars
<1>2. FileTensor' = FileTensor
  BY <1>1, SameLayer
<1>3. /\ param' = param /\ heads' = heads /\ format' = format
      /\ Rank' = Rank /\ Width' = Width /\ ShardIds(param)' = ShardIds(param)
  BY <1>1 DEF layer, Rank, Width
<1>4. Reshapes(param, FileTensor, heads)' <=> Reshapes(param, FileTensor, heads)
  BY <1>2, <1>3 DEF Reshapes, GroupWidth
<1>5. ASSUME NEW r \in Rank, TransformWeight(r) PROVE Shaped'
  <2>1. /\ stage[r] = "file" /\ UNCHANGED held /\ tensor[r] = FileTensor
        /\ stage' \in {[stage EXCEPT ![r] = "mapped"], [stage EXCEPT ![r] = "raised"]}
        /\ stage' = [stage EXCEPT ![r] = "mapped"] => Reshapes(param, tensor[r], heads)
    <3>1. stage[r] = "file" /\ UNCHANGED held /\ tensor[r] = FileTensor
      BY <1>5 DEF TransformWeight, Following
    <3>2. CASE Reshapes(param, tensor[r], heads)
      BY <1>5, <3>1, <3>2 DEF TransformWeight
    <3>3. CASE ~ Reshapes(param, tensor[r], heads)
      <4>1. stage' = [stage EXCEPT ![r] = "raised"]
        BY <1>5, <3>3 DEF TransformWeight
      <4>2. stage'[r] = "raised"
        BY <4>1 DEF Following
      <4>3. [stage EXCEPT ![r] = "mapped"][r] = "mapped"
        BY DEF Following
      <4>. QED
        BY <3>1, <4>1, <4>2, <4>3
    <3>. QED
      BY <3>2, <3>3
  <2>2. ASSUME NEW x \in Rank
        PROVE  /\ stage'[x] = "mapped" => Reshapes(param, FileTensor, heads)
               /\ \A id \in ShardIds(param) : held'[x][id] # <<>> => stage'[x] = "mapped"
    <3>1. CASE x = r
      <4>1. stage'[r] = "mapped" => stage' = [stage EXCEPT ![r] = "mapped"]
        BY <2>1 DEF Following
      <4>2. \A id \in ShardIds(param) : held[r][id] = <<>>
        BY <2>1 DEF Shaped
      <4>. QED
        BY <2>1, <3>1, <4>1, <4>2
    <3>2. CASE x # r
      <4>1. stage'[x] = stage[x] /\ held'[x] = held[x]
        BY <2>1, <3>2 DEF Following
      <4>. QED
        BY <4>1 DEF Shaped
    <3>. QED
      BY <3>1, <3>2
  <2>. QED
    BY <1>3, <1>4, <2>2 DEF Shaped
<1>6. ASSUME NEW r \in Rank, NEW id \in ShardIds(param), NEW kept, Store(r, id, kept) PROVE Shaped'
  <2>1. stage[r] = "mapped" /\ UNCHANGED stage /\ held' = [held EXCEPT ![r][id] = kept]
    BY <1>6 DEF Store
  <2>2. ASSUME NEW x \in Rank, NEW z \in ShardIds(param), held'[x][z] # <<>>
        PROVE  stage'[x] = "mapped"
    <3>1. CASE x = r
      BY <2>1, <3>1
    <3>2. CASE x # r
      <4>1. held'[x] = held[x]
        BY <2>1, <3>2 DEF Following
      <4>. QED
        BY <2>1, <2>2, <4>1 DEF Shaped
    <3>. QED
      BY <3>1, <3>2
  <2>. QED
    BY <1>3, <1>4, <2>1, <2>2 DEF Shaped
<1>7. ASSUME NEW r \in Rank, LoadColumn(r) \/ LoadRow(r) \/ LoadEmbedding(r) \/ LoadOwn(r)
      PROVE  Shaped'
  <2>1. "all" \in ShardIds(param)
    BY <1>7 DEF LoadColumn, LoadRow, LoadEmbedding, LoadOwn, ShardIds, RowParallel
  <2>2. \E kept : Store(r, "all", kept)
    BY <1>7 DEF LoadColumn, LoadRow, LoadEmbedding, LoadOwn
  <2>. QED
    BY <1>6, <2>1, <2>2
<1>8. ASSUME NEW r \in Rank, NEW id \in ShardIds(param), LoadMerged(r, id) \/ LoadQKV(r, id)
      PROVE  Shaped'
  BY <1>6, <1>8 DEF LoadMerged, LoadQKV
<1>9. CASE UNCHANGED vars
  BY <1>3, <1>4, <1>9 DEF vars, Shaped
<1>. QED
  BY <1>5, <1>7, <1>8, <1>9 DEF Next, Load

\* The features a rank gets are its share in the HF order exactly when no block
\* is cut, for every format and every number of heads and ranks: the slice of
\* load_row_parallel_weight and the move of _undo_v_head_tiling need whole
\* blocks, and no other condition helps or hurts.
THEOREM OwnColumnsAlways == Spec => []OwnColumns
<1>1. Layer /\ Following /\ Shaped => OwnColumns
  <2> SUFFICES ASSUME Layer, Following, Shaped, param \in RowParallel, Loaded("all")
               PROVE  (\A r \in Rank : InOrder(r)) <=> KeepsBlocks
    BY DEF OwnColumns
  <2>1. "all" \in ShardIds(param)
    BY DEF ShardIds, RowParallel
  <2>2. 0 \in Rank
    BY Numbers
  <2>3. Width % format.weights = 0 /\ Reshapes(param, FileTensor, heads)
    BY <2>1, <2>2 DEF Shaped, Loaded
  <2>4. ASSUME NEW r \in Rank PROVE held[r]["all"] = Share(Restored, r)
    <3>1. held[r]["all"] = Kept(r, "all")
      BY <2>1 DEF Following, Loaded
    <3>. QED
      BY <3>1 DEF Kept, RowParallel
  <2>5. ASSUME NEW r \in Rank
        PROVE  InOrder(r) <=> Columnwise(r) = Narrow(HFOrder(param, heads), r * (Width \div tp),
                                                     Width \div tp)
    BY <2>4 DEF InOrder, Columnwise, Width
  <2>. QED
    BY <2>3, <2>5, KeptOrCut
<1>2. Spec => []Shaped
  <2>1. Init => Layer /\ Following /\ Shaped
    BY InitFollowing, InitShaped
  <2>2. Layer /\ Following /\ Shaped /\ [Next]_vars => (Layer /\ Following /\ Shaped)'
    BY NextFollowing, NextShaped
  <2>. QED
    BY <2>1, <2>2, PTL DEF Spec
<1>. QED
  BY <1>1, <1>2, FollowingAlways, PTL
===============================================================================
