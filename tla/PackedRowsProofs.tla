--------------------------- MODULE PackedRowsProofs ---------------------------
(***************************************************************************)
(* The V-head permutation of the adapter is the inverse of the             *)
(* converter's, and the slices of the ranks make up the tensors of the     *)
(* checkpoint, for every number of heads, every size of a head, every      *)
(* vocabulary and every number of ranks.                                   *)
(***************************************************************************)
EXTENDS PackedRows, SequenceTheorems, TLAPS

\* Products grow with their factors.
LEMMA Products ==
  ASSUME NEW a \in Nat, NEW b \in Nat, NEW m \in Nat, a < b
  PROVE  /\ a * m \in Nat /\ b * m \in Nat
         /\ a * m + m <= b * m
  OBVIOUS

\* Quotient and remainder are the only pair of their kind.
LEMMA Division ==
  ASSUME NEW q \in Nat, NEW a \in Nat, NEW m \in Nat \ {0}, a < m
  PROVE  /\ (q * m + a) \div m = q
         /\ (q * m + a) % m = a
  OBVIOUS

\* A number below q * m is a quotient below q and a remainder below m.
LEMMA Remainder ==
  ASSUME NEW q \in Nat \ {0}, NEW m \in Nat \ {0}, NEW n \in Nat, n < q * m
  PROVE  /\ n \div m \in 0 .. q - 1
         /\ n % m \in 0 .. m - 1
         /\ n = (n \div m) * m + (n % m)
<1>1. n % m \in 0 .. m - 1 /\ n \div m \in Nat
  OBVIOUS
<1>2. n = (n \div m) * m + (n % m)
  OBVIOUS
<1>3. n \div m < q
  <2>1. CASE q = n \div m
    BY <2>1, <1>1, <1>2
  <2>2. CASE q < n \div m
    BY <2>2, <1>1, <1>2, Products
  <2>3. QED
    BY <2>1, <2>2, <1>1
<1>4. QED
  BY <1>1, <1>2, <1>3

\* A pair below (a, b) is a number below a * b.
LEMMA Pairing ==
  ASSUME NEW a \in Nat \ {0}, NEW b \in Nat \ {0},
         NEW x \in 0 .. a - 1, NEW y \in 0 .. b - 1
  PROVE  x * b + y \in Nat /\ x * b + y < a * b
<1>1. x < a
  OBVIOUS
<1>2. QED
  BY <1>1, Products

\* Two swaps with the sizes exchanged give the sequence back: reading the
\* group (x, y) of the second finds the group (y, x) of the first.
LEMMA SwappedTwice ==
  ASSUME NEW S, NEW s \in Seq(S), NEW a \in Nat \ {0}, NEW b \in Nat \ {0},
         NEW d \in Nat \ {0}, Len(s) = (a * b) * d
  PROVE  Swapped(Swapped(s, a, b, d), b, a, d) = s
<1> DEFINE n == Len(s)
           t == Swapped(s, a, b, d)
           u == Swapped(t, b, a, d)
           At(i, x, y) == LET g == (i - 1) \div d
                          IN  ((g % x) * y + (g \div x)) * d + ((i - 1) % d) + 1
<1>0. n \in Nat /\ DOMAIN s = 1 .. n /\ a * b \in Nat \ {0}
  BY Products
<1>1. t = [i \in 1 .. n |-> s[At(i, a, b)]]
  BY DEF Swapped
<1>2. Len(t) = n /\ DOMAIN t = 1 .. n
  BY <1>0, <1>1
<1>3. u = [i \in 1 .. n |-> t[At(i, b, a)]]
  BY <1>2 DEF Swapped
<1>4. ASSUME NEW i \in 1 .. n
      PROVE  u[i] = s[i]
  <2> DEFINE g == (i - 1) \div d
             j == (i - 1) % d
             x == g \div b
             y == g % b
             k == At(i, b, a)
  <2>1. g \in 0 .. (a * b) - 1 /\ j \in 0 .. d - 1 /\ i - 1 = g * d + j
    <3>1. i - 1 \in Nat /\ i - 1 < (a * b) * d
      BY <1>0
    <3>2. a * b \in Nat \ {0}
      BY <1>0
    <3> HIDE DEF n
    <3>3. QED
      BY <3>1, <3>2, Remainder
  <2>2. x \in 0 .. a - 1 /\ y \in 0 .. b - 1 /\ g = x * b + y
    <3>1. g \in Nat /\ g < a * b
      BY <2>1, <1>0
    <3> HIDE DEF g
    <3>2. QED
      BY <3>1, Remainder
  <2>3. y * a + x \in Nat /\ y * a + x < b * a
    BY <2>2, Pairing
  <2>4. k = (y * a + x) * d + j + 1
    OBVIOUS
  <2>5. k \in 1 .. n
    <3>1. (y * a + x) * d + j \in Nat /\ (y * a + x) * d + j < (b * a) * d
      <4>1. y * a + x \in 0 .. (b * a) - 1
        BY <2>3
      <4>2. QED
        BY <4>1, <2>1, <1>0, Pairing
    <3>2. (b * a) * d = n
      OBVIOUS
    <3>3. QED
      BY <3>1, <3>2, <2>4
  <2>6. (k - 1) \div d = y * a + x /\ (k - 1) % d = j
    <3> DEFINE q == y * a + x
    <3>1. k - 1 = q * d + j
      BY <2>4, <2>3, <2>1
    <3>2. q \in Nat /\ j \in Nat /\ j < d
      BY <2>3, <2>1
    <3> HIDE DEF q, x, y, j, k
    <3>3. (k - 1) \div d = q /\ (k - 1) % d = j
      <4>1. (q * d + j) \div d = q /\ (q * d + j) % d = j
        BY <3>2, Division
      <4>2. QED
        BY <4>1, <3>1
    <3>4. QED
      BY <3>3 DEF q
  <2>7. (y * a + x) % a = x /\ (y * a + x) \div a = y
    <3>1. x \in Nat /\ y \in Nat /\ x < a
      BY <2>2
    <3> HIDE DEF x, y
    <3>2. QED
      BY <3>1, Division
  <2>8. At(k, a, b) = (x * b + y) * d + j + 1
    BY <2>6, <2>7
  <2>9. At(k, a, b) = i
    <3>1. (x * b + y) * d + j + 1 = g * d + j + 1
      BY <2>2
    <3>2. g * d + j + 1 = i
      BY <2>1
    <3>3. QED
      BY <3>1, <3>2, <2>8
  <2>10. u[i] = t[k] /\ t[k] = s[At(k, a, b)]
    BY <1>3, <1>1, <2>5
  <2>11. QED
    BY <2>9, <2>10
<1>5. u = s
  BY <1>0, <1>3, <1>4
<1>6. QED
  BY <1>5

\* _undo_v_head_tiling inverts the converter's _reorder_v_heads: whatever the
\* numbers of heads and the width of a head, rows and bytes come back in the HF
\* order.  (Applied forward again it does so only for as many K heads as V
\* heads per K head.)
THEOREM UndoneInvertsTiled ==
  ASSUME NEW h \in Heads, h.v % h.k = 0, NEW d \in Nat \ {0},
         NEW S, NEW s \in Seq(S), Len(s) = h.v * d
  PROVE  Undone(Tiled(s, h, d), h, d) = s
<1>1. h.k \in Nat \ {0} /\ h.v \in Nat \ {0}
  BY HeadsAssumption
<1>2. VPerK(h) \in Nat \ {0} /\ h.v = h.k * VPerK(h)
  BY <1>1 DEF VPerK
<1>3. Len(s) = (h.k * VPerK(h)) * d
  BY <1>2
<1>4. QED
  <2> DEFINE v == VPerK(h)
             n == h.k
  <2>1. v \in Nat \ {0} /\ Len(s) = (n * v) * d /\ n \in Nat \ {0}
    BY <1>1, <1>2, <1>3
  <2>2. Undone(Tiled(s, h, d), h, d) = Swapped(Swapped(s, n, v, d), v, n, d)
    BY DEF Undone, Tiled
  <2> HIDE DEF v, n
  <2>3. Swapped(Swapped(s, n, v, d), v, n, d) = s
    BY <2>1, SwappedTwice
  <2>4. QED
    BY <2>2, <2>3

-----------------------------------------------------------------------------
(* What a rank keeps is a function of the layer alone: neither its own     *)
(* pace nor another rank changes it.                                       *)
FileTensor ==
  IF format = Dense THEN FileOrder(param, heads) ELSE Packed(FileOrder(param, heads), format)
Restored == Untiled(param, FileTensor, heads)
Arriving(id) ==
  CASE param = "qkv_proj" ->
         Slots(id, IF id = "q" THEN heads.v ELSE heads.k, heads.kdim)
    [] param = "in_proj_qkv" ->
         LET n == heads.k * heads.kdim
         IN  CASE id = "q" -> Narrow(Restored, 0, n)
               [] id = "k" -> Narrow(Restored, n, n)
               [] id = "v" -> Narrow(Restored, 2 * n, heads.v * heads.vdim)
    [] OTHER -> Restored
Kept(r, id) ==
  CASE param \in {"in_proj_z", "in_proj_b", "in_proj_a"} \cup RowParallel -> Share(Restored, r)
    [] param = "in_proj_qkv"  -> MergedShare(Arriving(id), id, r)
    [] param = "qkv_proj"     -> QKVShare(Arriving(id), id, r)
    [] param = "embed_tokens" -> VocabShare(Restored, r)
    [] OTHER                  -> Restored

Layer ==
  /\ param \in Params /\ heads \in Heads /\ tp \in Sizes
  /\ vocab \in IF param = "embed_tokens" THEN VocabSizes ELSE {0}
  /\ Divides
  /\ format \in Formats \cup {Dense} /\ (format = Dense \/ param \in RowParallel)
Following ==
  /\ stage \in [Rank -> {"file", "mapped", "raised"}]
  /\ DOMAIN tensor = Rank /\ DOMAIN held = Rank
  /\ \A r \in Rank :
       /\ DOMAIN held[r] = ShardIds(param)
       /\ stage[r] = "file" => tensor[r] = FileTensor
       /\ stage[r] = "mapped" => tensor[r] = Restored
       /\ \A id \in ShardIds(param) : held[r][id] # <<>> => held[r][id] = Kept(r, id)

\* No action changes the layer, nor therefore what the ranks keep of it.
LEMMA SameLayer ==
  ASSUME UNCHANGED layer
  PROVE  /\ FileTensor' = FileTensor /\ Restored' = Restored
         /\ \A r, id : Kept(r, id)' = Kept(r, id)
         /\ Layer' <=> Layer
<1>1. UNCHANGED <<param, heads, format, tp, vocab>>
  BY DEF layer
<1>2. \A p, h : FileOrder(p, h)' = FileOrder(p, h)
  BY <1>1 DEF FileOrder, HFOrder
<1>3. FileTensor' = FileTensor
  BY <1>1, <1>2 DEF FileTensor
<1>4. \A p, s, h : Untiled(p, s, h)' = Untiled(p, s, h)
  BY <1>1 DEF Untiled, GroupWidth
<1>5. Restored' = Restored
  BY <1>1, <1>3, <1>4 DEF Restored
<1>6. \A id : Arriving(id)' = Arriving(id)
  BY <1>1, <1>5 DEF Arriving
<1>7. \A id : ShardSize(id)' = ShardSize(id)
  BY <1>1 DEF ShardSize, KVReplicas
<1>8. \A s, r, id : MergedShare(s, id, r)' = MergedShare(s, id, r)
  BY <1>7 DEF MergedShare
<1>9. \A s, r, id : QKVShare(s, id, r)' = QKVShare(s, id, r)
  BY <1>1, <1>7 DEF QKVShare, EffectiveRank, KVReplicas
<1>10. \A s, r : VocabShare(s, r)' = VocabShare(s, r)
  BY <1>1 DEF VocabShare, PerRank, VocabStart, VocabEnd
<1>11. \A s, r : Share(s, r)' = Share(s, r)
  BY <1>1 DEF Share
<1>12. \A r, id : Kept(r, id)' = Kept(r, id)
  BY <1>1, <1>5, <1>6, <1>8, <1>9, <1>10, <1>11 DEF Kept
<1>13. Layer' <=> Layer
  BY <1>1 DEF Layer, Divides
<1>. QED
  BY <1>3, <1>5, <1>12, <1>13

\* At first every rank has the tensor of the file and holds nothing.
LEMMA InitFollowing == Init => Layer /\ Following
<1> SUFFICES ASSUME Init PROVE Layer /\ Following
  OBVIOUS
<1>1. Layer
  BY DEF Init, Layer
<1>2. \A r \in Rank : tensor[r] = FileTensor /\ DOMAIN held[r] = ShardIds(param)
  BY DEF Init, FileTensor
<1>3. \A r \in Rank, id \in ShardIds(param) : held[r][id] = <<>>
  BY DEF Init
<1>4. /\ stage \in [Rank -> {"file", "mapped", "raised"}]
      /\ \A r \in Rank : stage[r] = "file"
      /\ DOMAIN tensor = Rank /\ DOMAIN held = Rank
  BY DEF Init
<1>. QED
  BY <1>1, <1>2, <1>3, <1>4 DEF Following

\* A step of one rank changes its own tensor and parameter as Kept says.
LEMMA NextFollowing == Layer /\ Following /\ [Next]_vars => (Layer /\ Following)'
<1> SUFFICES ASSUME Layer, Following, [Next]_vars PROVE (Layer /\ Following)'
  OBVIOUS
<1>1. UNCHANGED layer
  BY DEF Next, Load, TransformWeight, LoadColumn, LoadRow, LoadMerged, LoadQKV, LoadEmbedding,
         LoadOwn, Store, vars
<1>2. /\ Layer' /\ FileTensor' = FileTensor /\ Restored' = Restored
      /\ \A r, id : Kept(r, id)' = Kept(r, id)
  BY <1>1, SameLayer
<1>3. param' = param /\ Rank' = Rank
  BY <1>1 DEF layer, Rank
<1>4. ASSUME NEW r \in Rank, TransformWeight(r) PROVE Following'
  <2>1. UNCHANGED held
    BY <1>4 DEF TransformWeight
  <2>2. CASE /\ stage' = [stage EXCEPT ![r] = "mapped"]
             /\ tensor' = [tensor EXCEPT ![r] = Untiled(param, @, heads)]
    <3>1. tensor[r] = FileTensor
      BY <1>4 DEF TransformWeight, Following
    <3>2. tensor'[r] = Restored
      BY <2>2, <3>1 DEF Following, Restored
    <3>. QED
      BY <1>2, <1>3, <2>1, <2>2, <3>2 DEF Following
  <2>3. CASE stage' = [stage EXCEPT ![r] = "raised"] /\ UNCHANGED tensor
    BY <1>2, <1>3, <2>1, <2>3 DEF Following
  <2>. QED
    BY <1>4, <2>2, <2>3 DEF TransformWeight
<1>5. ASSUME NEW r \in Rank, NEW id \in ShardIds(param), Store(r, id, Kept(r, id))
      PROVE  Following'
  <2>1. held' = [held EXCEPT ![r][id] = Kept(r, id)] /\ UNCHANGED <<stage, tensor>>
    BY <1>5 DEF Store
  <2>2. \A x \in Rank : DOMAIN held'[x] = ShardIds(param)
    BY <2>1 DEF Following
  <2>3. \A x \in Rank, y \in ShardIds(param) :
          held'[x][y] = IF x = r /\ y = id THEN Kept(r, id) ELSE held[x][y]
    BY <2>1 DEF Following
  <2>. QED
    BY <1>2, <1>3, <2>1, <2>2, <2>3 DEF Following
<1>6. ASSUME NEW r \in Rank, LoadColumn(r) \/ LoadRow(r) PROVE Following'
  <2>1. /\ param \in {"in_proj_z", "in_proj_b", "in_proj_a"} \cup RowParallel
        /\ Store(r, "all", Share(tensor[r], r))
    BY <1>6 DEF LoadColumn, LoadRow
  <2>2. tensor[r] = Restored
    BY <2>1 DEF Store, Following
  <2>3. Kept(r, "all") = Share(tensor[r], r)
    BY <2>1, <2>2 DEF Kept, RowParallel
  <2>4. "all" \in ShardIds(param)
    BY <2>1 DEF ShardIds, RowParallel
  <2>. QED
    BY <1>5, <2>1, <2>3, <2>4
<1>7. ASSUME NEW r \in Rank, LoadEmbedding(r) \/ LoadOwn(r) PROVE Following'
  <2>1. /\ param \in {"embed_tokens", "conv1d", "dt_bias", "A_log"}
        /\ Store(r, "all", IF param = "embed_tokens" THEN VocabShare(tensor[r], r) ELSE tensor[r])
    BY <1>7 DEF LoadEmbedding, LoadOwn
  <2>2. tensor[r] = Restored
    BY <2>1 DEF Store, Following
  <2>3. Kept(r, "all") = IF param = "embed_tokens" THEN VocabShare(tensor[r], r) ELSE tensor[r]
    BY <2>1, <2>2 DEF Kept, RowParallel
  <2>4. "all" \in ShardIds(param)
    BY <2>1 DEF ShardIds
  <2>. QED
    BY <1>5, <2>1, <2>3, <2>4
<1>8. ASSUME NEW r \in Rank, NEW id \in ShardIds(param), LoadMerged(r, id) \/ LoadQKV(r, id)
      PROVE  Following'
  <2>1. tensor[r] = Restored /\ param \in {"in_proj_qkv", "qkv_proj"}
    BY <1>8 DEF LoadMerged, LoadQKV, Store, Following
  <2>2. Source(r, id) = Arriving(id)
    BY <2>1 DEF Source, Arriving
  <2>3. Store(r, id, Kept(r, id))
    BY <1>8, <2>1, <2>2 DEF LoadMerged, LoadQKV, Kept, RowParallel
  <2>. QED
    BY <1>5, <2>3
<1>9. CASE UNCHANGED vars
  BY <1>2, <1>3, <1>9 DEF vars, Following
<1>10. Following'
  BY <1>4, <1>6, <1>7, <1>8, <1>9 DEF Next, Load
<1>. QED
  BY <1>2, <1>10

\* Whatever the order in which the ranks load and whatever they load first.
LEMMA FollowingAlways == Spec => [](Layer /\ Following)
<1>. QED
  BY InitFollowing, NextFollowing, PTL DEF Spec

-----------------------------------------------------------------------------
(* The rows a rank finds in the file, in the order of the HF checkpoint.   *)

\* The numbers of a layer.
LEMMA Numbers ==
  ASSUME Layer
  PROVE  /\ heads.k \in Nat \ {0} /\ heads.v \in Nat \ {0}
         /\ heads.kdim \in Nat \ {0} /\ heads.vdim \in Nat \ {0}
         /\ tp \in Nat \ {0} /\ Rank = 0 .. tp - 1
  BY HeadsAssumption, SizesAssumption DEF Layer, Rank

\* Swapping groups loses no row and takes none from elsewhere.
LEMMA SwappedRows ==
  ASSUME NEW S, NEW s \in Seq(S), NEW a \in Nat \ {0}, NEW b \in Nat \ {0},
         NEW d \in Nat \ {0}, Len(s) = (a * b) * d
  PROVE  Swapped(s, a, b, d) \in Seq(S) /\ Len(Swapped(s, a, b, d)) = Len(s)
<1> DEFINE n == Len(s)
           At(i) == LET g == (i - 1) \div d
                    IN  ((g % a) * b + (g \div a)) * d + ((i - 1) % d) + 1
<1>0. n \in Nat /\ DOMAIN s = 1 .. n /\ a * b \in Nat \ {0} /\ a * b = b * a
  BY Products
<1>1. ASSUME NEW i \in 1 .. n PROVE At(i) \in 1 .. n
  <2> DEFINE g == (i - 1) \div d
             j == (i - 1) % d
             x == g \div a
             y == g % a
  <2>1. g \in 0 .. (a * b) - 1 /\ j \in 0 .. d - 1
    <3>1. i - 1 \in Nat /\ i - 1 < (a * b) * d
      BY <1>0
    <3>2. a * b \in Nat \ {0}
      BY <1>0
    <3> HIDE DEF n
    <3>3. QED
      BY <3>1, <3>2, Remainder
  <2>2. x \in 0 .. b - 1 /\ y \in 0 .. a - 1
    <3>1. g \in Nat /\ g < b * a
      BY <2>1, <1>0
    <3> HIDE DEF g
    <3>2. QED
      BY <3>1, Remainder
  <2>3. y * b + x \in 0 .. (a * b) - 1
    <3>1. y * b + x \in Nat /\ y * b + x < a * b
      BY <2>2, Pairing
    <3>2. a * b \in Nat
      BY <1>0
    <3>. HIDE DEF x, y
    <3>. QED
      BY <3>1, <3>2
  <2>. DEFINE z == y * b + x
  <2>4. z * d + j \in Nat /\ z * d + j < (a * b) * d
    <3>1. z \in 0 .. (a * b) - 1 /\ a * b \in Nat \ {0} /\ j \in 0 .. d - 1
      BY <1>0, <2>1, <2>3
    <3>. HIDE DEF z, j
    <3>. QED
      BY <3>1, Pairing
  <2>5. At(i) = z * d + j + 1
    OBVIOUS
  <2>. HIDE DEF At, z, j
  <2>. QED
    BY <2>4, <2>5
<1>2. Swapped(s, a, b, d) = [i \in 1 .. n |-> s[At(i)]]
  BY DEF Swapped
<1>. HIDE DEF At
<1>3. \A i \in 1 .. n : s[At(i)] \in S
  BY <1>0, <1>1
<1>. QED
  BY <1>0, <1>2, <1>3

\* A tensor that is not packed is a sequence of slots.
LEMMA SlotRows ==
  ASSUME NEW part \in {"q", "k", "v", "token"}, NEW n \in Nat, NEW d \in Nat \ {0}
  PROVE  /\ Slots(part, n, d) \in Seq(Slot) /\ Len(Slots(part, n, d)) = n * d
         /\ n * d \in Nat
         /\ \A i \in 1 .. n * d :
              Slots(part, n, d)[i] = [part |-> part, head |-> (i - 1) \div d, at |-> (i - 1) % d]
<1> DEFINE m == n * d
           row(i) == [part |-> part, head |-> (i - 1) \div d, at |-> (i - 1) % d]
<1>1. m \in Nat
  OBVIOUS
<1>2. Slots(part, n, d) = [i \in 1 .. m |-> row(i)]
  BY DEF Slots
<1>3. \A i \in 1 .. m : row(i) \in Slot
  BY DEF Slot
<1>. HIDE DEF m, row
<1>4. Slots(part, n, d) \in Seq(Slot) /\ Len(Slots(part, n, d)) = m
  BY <1>1, <1>2, <1>3
<1>. QED
  BY <1>1, <1>2, <1>4 DEF m, row

\* n heads of d rows each.
IsHeads(s, n, d) == s \in Seq(Slot) /\ Len(s) = n * d

LEMMA SlotHeads ==
  ASSUME NEW part \in {"q", "k", "v", "token"}, NEW n \in Nat, NEW d \in Nat \ {0}
  PROVE  IsHeads(Slots(part, n, d), n, d)
<1>1. /\ Slots(part, n, d) \in Seq(Slot) /\ Len(Slots(part, n, d)) = n * d
      /\ n * d \in Nat
      /\ \A i \in 1 .. n * d :
           Slots(part, n, d)[i] = [part |-> part, head |-> (i - 1) \div d, at |-> (i - 1) % d]
  BY SlotRows, Zenon
<1>. QED
  BY <1>1, Zenon DEF IsHeads

\* The numbers of rows of the checkpoint's tensors.
LEMMA HFRows ==
  ASSUME Layer
  PROVE  /\ HFOrder(param, heads) \in Seq(Slot)
         /\ VSlots(param, heads) \in Seq(Slot) /\ HeadDim(param, heads) \in Nat \ {0}
         /\ Len(VSlots(param, heads)) = heads.v * HeadDim(param, heads)
         /\ QK(heads) \in Seq(Slot) /\ Len(QK(heads)) = QKRows(heads)
         /\ param = "embed_tokens" => vocab \in Nat \ {0}
<1>1. HeadDim(param, heads) \in Nat \ {0}
  BY Numbers DEF HeadDim
<1>2. VSlots(param, heads) \in Seq(Slot)
      /\ Len(VSlots(param, heads)) = heads.v * HeadDim(param, heads)
  <2> DEFINE d == HeadDim(param, heads)
  <2>1. heads.v \in Nat /\ d \in Nat \ {0}
    BY <1>1, Numbers
  <2>2. IsHeads(Slots("v", heads.v, d), heads.v, d)
    <3>. HIDE DEF d
    <3>. QED
      BY <2>1, SlotHeads
  <2>. QED
    BY <2>2, Zenon DEF IsHeads, VSlots
<1>3. QK(heads) \in Seq(Slot) /\ Len(QK(heads)) = QKRows(heads)
  <2> DEFINE q == Slots("q", heads.k, heads.kdim)
             k == Slots("k", heads.k, heads.kdim)
  <2>1. /\ q \in Seq(Slot) /\ Len(q) = heads.k * heads.kdim
        /\ k \in Seq(Slot) /\ Len(k) = heads.k * heads.kdim
    <3>1. heads.k \in Nat /\ heads.kdim \in Nat \ {0}
      BY Numbers
    <3>2. IsHeads(q, heads.k, heads.kdim) /\ IsHeads(k, heads.k, heads.kdim)
      BY <3>1, SlotHeads
    <3>. QED
      BY <3>2, Zenon DEF IsHeads
  <2>. HIDE DEF q, k
  <2>2. q \o k \in Seq(Slot) /\ Len(q \o k) = heads.k * heads.kdim + heads.k * heads.kdim
    BY <2>1
  <2>3. heads.k * heads.kdim + heads.k * heads.kdim = QKRows(heads)
    BY Numbers DEF QKRows
  <2>. QED
    BY <2>2, <2>3 DEF QK, q, k
<1>4. param = "embed_tokens" => vocab \in Nat \ {0} /\ Slots("token", vocab, 1) \in Seq(Slot)
  <2> HAVE param = "embed_tokens"
  <2>1. vocab \in Nat \ {0}
    BY SizesAssumption DEF Layer
  <2>. QED
    BY <2>1, SlotRows
<1>5. QK(heads) \o VSlots(param, heads) \in Seq(Slot)
  BY <1>2, <1>3
<1>6. HFOrder(param, heads) \in Seq(Slot)
  BY <1>2, <1>4, <1>5 DEF HFOrder
<1>. QED
  BY <1>1, <1>2, <1>3, <1>4, <1>6

\* The rows after and before a place in two sequences that were joined.
LEMMA SplitJoined ==
  ASSUME NEW S, NEW s \in Seq(S), NEW t \in Seq(S)
  PROVE  /\ SubSeq(s \o t, 1, Len(s)) = s
         /\ SubSeq(s \o t, Len(s) + 1, Len(s \o t)) = t
<1> DEFINE u == s \o t
<1>1. /\ u \in Seq(S) /\ Len(u) = Len(s) + Len(t)
      /\ \A i \in 1 .. Len(s) : u[i] = s[i]
      /\ \A i \in 1 .. Len(t) : u[Len(s) + i] = t[i]
  OBVIOUS
<1>. HIDE DEF u
<1>2. SubSeq(u, 1, Len(s)) = s
  <2>1. Len(s) \in Nat /\ \A i \in 1 .. Len(s) : u[i] \in S
    BY <1>1
  <2>2. /\ SubSeq(u, 1, Len(s)) \in Seq(S) /\ Len(SubSeq(u, 1, Len(s))) = Len(s)
        /\ \A i \in 1 .. Len(s) : SubSeq(u, 1, Len(s))[i] = s[i]
    BY <1>1, <2>1, SubSeqProperties
  <2>. QED
    BY <2>2
<1>3. SubSeq(u, Len(s) + 1, Len(u)) = t
  <2>1. Len(s) \in Nat /\ Len(t) \in Nat /\ Len(u) \in Nat
        /\ \A i \in Len(s) + 1 .. Len(u) : u[i] \in S
    BY <1>1
  <2>2. /\ SubSeq(u, Len(s) + 1, Len(u)) \in Seq(S)
        /\ Len(SubSeq(u, Len(s) + 1, Len(u))) = Len(t)
        /\ \A i \in 1 .. Len(t) : SubSeq(u, Len(s) + 1, Len(u))[i] = t[i]
    BY <1>1, <2>1, SubSeqProperties
  <2>. QED
    BY <2>2, SeqEqual
<1>. QED
  BY <1>2, <1>3 DEF u

\* The adapter gives every dense tensor back in the order of the HF checkpoint.
LEMMA RestoredIsHF ==
  ASSUME Layer, format = Dense
  PROVE  Restored = HFOrder(param, heads)
<1> DEFINE V == VSlots(param, heads)
           d == HeadDim(param, heads)
           T == Tiled(V, heads, d)
<1>1. Restored = Untiled(param, FileOrder(param, heads), heads)
  BY DEF Restored, FileTensor
<1>2. CASE param \notin LinearAttention
  BY <1>1, <1>2 DEF Untiled, FileOrder, LinearAttention
<1>3. CASE param \in LinearAttention /\ heads.k = heads.v
  <2>1. FileOrder(param, heads) = HFOrder(param, heads)
    <3>1. CASE param \in {"in_proj_qkv", "conv1d"}
      BY <1>3, <3>1 DEF FileOrder, HFOrder
    <3>2. CASE param \notin {"in_proj_qkv", "conv1d"}
      BY <1>3, <3>2 DEF FileOrder, HFOrder, LinearAttention
    <3>. QED
      BY <3>1, <3>2
  <2>. QED
    BY <1>1, <1>3, <2>1 DEF Untiled
<1>4. CASE param \in LinearAttention /\ heads.k # heads.v
  <2>1. heads.v % heads.k = 0 /\ heads \in Heads
    BY <1>4 DEF Layer, Divides, LinearAttention
  <2>2. d \in Nat \ {0} /\ V \in Seq(Slot) /\ Len(V) = heads.v * d
    BY HFRows
  <2>3. Undone(T, heads, d) = V
    BY <2>1, <2>2, UndoneInvertsTiled
  <2>4. CASE param \in {"in_proj_qkv", "conv1d"}
    <3> DEFINE Q == QK(heads)
    <3>1. FileOrder(param, heads) = Q \o T /\ HFOrder(param, heads) = Q \o V
      <4>1. FileOrder(param, heads) = Q \o T
        BY <1>4, <2>4 DEF FileOrder
      <4>2. HFOrder(param, heads) = Q \o V
        BY <2>4 DEF HFOrder
      <4>. QED
        BY <4>1, <4>2
    <3>2. T \in Seq(Slot)
      <4>1. heads.k \in Nat \ {0} /\ VPerK(heads) \in Nat \ {0} /\ heads.v = heads.k * VPerK(heads)
        BY <2>1, Numbers DEF VPerK
      <4>2. Len(V) = (heads.k * VPerK(heads)) * d
        BY <2>2, <4>1
      <4>. HIDE DEF V, d
      <4>3. Swapped(V, heads.k, VPerK(heads), d) \in Seq(Slot)
        BY <2>2, <4>1, <4>2, SwappedRows
      <4>. QED
        BY <4>3 DEF Tiled
    <3>3. Q \in Seq(Slot) /\ Len(Q) = QKRows(heads)
      BY HFRows
    <3>. HIDE DEF Q, T
    <3>4. SubSeq(Q \o T, 1, QKRows(heads)) = Q
          /\ SubSeq(Q \o T, QKRows(heads) + 1, Len(Q \o T)) = T
      BY <3>2, <3>3, SplitJoined
    <3>5. Untiled(param, Q \o T, heads) = Q \o Undone(T, heads, d)
      BY <1>4, <2>4, <3>4 DEF Untiled
    <3>. QED
      BY <1>1, <2>3, <3>1, <3>5
  <2>5. CASE param \notin {"in_proj_qkv", "conv1d"}
    <3>1. FileOrder(param, heads) = T /\ HFOrder(param, heads) = V
      BY <1>4, <2>5 DEF FileOrder, HFOrder, LinearAttention
    <3>2. param = "out_proj" => GroupWidth(T, heads) = d
      BY DEF GroupWidth, HeadDim
    <3>3. Untiled(param, T, heads) = Undone(T, heads, d)
      BY <1>4, <2>5, <3>2 DEF Untiled, LinearAttention
    <3>. QED
      BY <1>1, <2>3, <3>1, <3>3
  <2>. QED
    BY <2>4, <2>5
<1>. QED
  BY <1>2, <1>3, <1>4

-----------------------------------------------------------------------------
(* The slices.                                                             *)

\* What narrow takes of a sequence that reaches so far.
LEMMA NarrowRows ==
  ASSUME NEW S, NEW s \in Seq(S), NEW a \in Nat, NEW n \in Nat, a + n <= Len(s)
  PROVE  /\ Narrow(s, a, n) \in Seq(S) /\ Len(Narrow(s, a, n)) = n
         /\ \A i \in 1 .. n : Narrow(s, a, n)[i] = s[a + i]
<1>1. \A i \in a + 1 .. a + n : s[i] \in S
  OBVIOUS
<1>2. /\ SubSeq(s, a + 1, a + n) \in Seq(S) /\ Len(SubSeq(s, a + 1, a + n)) = n
      /\ \A i \in 1 .. n : SubSeq(s, a + 1, a + n)[i] = s[a + i]
  BY <1>1, SubSeqProperties
<1>. QED
  BY <1>2 DEF Narrow

\* The share of every rank lies in the tensor.
LEMMA SharesFit ==
  ASSUME NEW t \in Nat \ {0}, NEW n \in Nat, NEW r \in 0 .. t - 1
  PROVE  r * n \in Nat /\ r * n + n <= t * n
  BY Products

\* Equal shares in the order of the ranks make the sequence up.
LEMMA JoinedShares ==
  ASSUME Layer, NEW S, NEW s \in Seq(S), NEW n \in Nat \ {0}, Len(s) = tp * n,
         NEW id, \A r \in Rank : held[r][id] = Narrow(s, r * n, n)
  PROVE  Even(id) /\ Joined(id) = s
<1>1. tp \in Nat \ {0} /\ Rank = 0 .. tp - 1 /\ 0 \in Rank
  BY Numbers
<1>2. ASSUME NEW r \in Rank
      PROVE  Len(held[r][id]) = n /\ \A i \in 1 .. n : held[r][id][i] = s[r * n + i]
  <2> DEFINE a == r * n
  <2>1. a \in Nat /\ a + n <= tp * n
    BY <1>1, SharesFit
  <2>2. held[r][id] = Narrow(s, a, n)
    OBVIOUS
  <2>3. a + n <= Len(s) /\ n \in Nat /\ s \in Seq(S)
    BY <2>1
  <2>. HIDE DEF a
  <2>4. /\ Narrow(s, a, n) \in Seq(S) /\ Len(Narrow(s, a, n)) = n
        /\ \A i \in 1 .. n : Narrow(s, a, n)[i] = s[a + i]
    BY <2>1, <2>3, NarrowRows, Zenon
  <2>. QED
    BY <2>2, <2>4 DEF a
<1>3. Even(id)
  BY <1>1, <1>2 DEF Even
<1>4. Joined(id) = [i \in 1 .. tp * n |-> held[(i - 1) \div n][id][((i - 1) % n) + 1]]
  BY <1>1, <1>2 DEF Joined
<1>5. ASSUME NEW i \in 1 .. tp * n
      PROVE  held[(i - 1) \div n][id][((i - 1) % n) + 1] = s[i]
  <2> DEFINE r == (i - 1) \div n
             j == (i - 1) % n
  <2>1. r \in 0 .. tp - 1 /\ j \in 0 .. n - 1 /\ i - 1 = r * n + j
    <3>1. i - 1 \in Nat /\ i - 1 < tp * n
      OBVIOUS
    <3>. QED
      BY <1>1, <3>1, Remainder
  <2>. HIDE DEF r, j
  <2>2. r \in Rank /\ j + 1 \in 1 .. n /\ r * n + (j + 1) = i
    BY <1>1, <2>1
  <2>3. held[r][id][j + 1] = s[r * n + (j + 1)]
    BY <1>2, <2>2
  <2>. QED
    BY <2>2, <2>3 DEF r, j
<1>6. Joined(id) = s
  <2>1. tp * n \in Nat /\ DOMAIN s = 1 .. tp * n /\ s = [i \in 1 .. tp * n |-> s[i]]
    BY <1>1
  <2>. QED
    BY <1>4, <1>5, <2>1
<1>. QED
  BY <1>3, <1>6

\* Dividing a product by a divisor of one factor.
Shared(a, t, d) ==
  /\ a \div t \in Nat \ {0} /\ a = t * (a \div t)
  /\ (a \div t) * d \in Nat \ {0} /\ a * d = t * ((a \div t) * d)
  /\ (a * d) \div t = (a \div t) * d

LEMMA Multiple ==
  ASSUME NEW a \in Nat \ {0}, NEW t \in Nat \ {0}, NEW d \in Nat \ {0}, a % t = 0
  PROVE  Shared(a, t, d)
<1> DEFINE q == a \div t
<1>1. q \in Nat \ {0} /\ a = q * t
  OBVIOUS
<1>. HIDE DEF q
<1>2. q * d \in Nat \ {0} /\ a * d = t * (q * d) /\ a = t * q
  BY <1>1
<1>3. (a * d) \div t = q * d
  <2> DEFINE m == q * d
  <2>1. m \in Nat /\ a * d = m * t + 0
    BY <1>2
  <2>. HIDE DEF m
  <2>2. (m * t + 0) \div t = m
    BY <2>1, Division
  <2>. QED
    BY <2>1, <2>2 DEF m
<1>. QED
  BY <1>1, <1>2, <1>3 DEF q, Shared

\* A rank's slice of an even share; the only rank of one keeps everything.
LEMMA OnlyShare ==
  ASSUME Layer, NEW S, NEW s \in Seq(S), NEW n \in Nat \ {0}, Len(s) = tp * n, NEW r \in Rank
  PROVE  /\ tp = 1 <=> ~ (n < Len(s))
         /\ tp = 1 => Narrow(s, r * n, n) = s
<1>1. tp \in Nat \ {0} /\ Rank = 0 .. tp - 1
  BY Numbers
<1>2. tp = 1 => ~ (n < Len(s))
  OBVIOUS
<1>3. tp # 1 => n < Len(s)
  BY <1>1
<1>4. tp = 1 => Narrow(s, r * n, n) = s
  <2> SUFFICES ASSUME tp = 1 PROVE Narrow(s, r * n, n) = s
    OBVIOUS
  <2>1. r = 0 /\ r * n + 1 = 1 /\ r * n + n = Len(s)
    BY <1>1
  <2>. QED
    BY <2>1, SubSeqFull DEF Narrow
<1>. QED
  BY <1>2, <1>3, <1>4

\* load_column_parallel_weight takes the r-th of tp equal shares.
LEMMA SharesOfRows ==
  ASSUME Layer, NEW S, NEW s \in Seq(S), NEW n \in Nat \ {0}, Len(s) = tp * n, NEW r \in Rank
  PROVE  Share(s, r) = Narrow(s, r * n, n)
<1>1. Len(s) \div tp = n
  <2>1. tp * n = n * tp + 0 /\ tp \in Nat \ {0}
    BY Numbers
  <2>2. (n * tp + 0) \div tp = n
    BY <2>1, Division
  <2>. QED
    BY <2>1, <2>2
<1>2. tp \in Nat \ {0}
  BY Numbers
<1>3. CASE tp = 1
  BY <1>1, <1>3, OnlyShare DEF Share
<1>4. CASE tp > 1
  BY <1>1, <1>4 DEF Share
<1>. QED
  BY <1>2, <1>3, <1>4

\* How a layer of the linear attention divides over the ranks.
LEMMA HeadsDivide ==
  ASSUME Layer, param \in LinearAttention
  PROVE  /\ heads.k % tp = 0 /\ heads.v % heads.k = 0 /\ heads.v % tp = 0
         /\ heads.v = heads.k * VPerK(heads) /\ VPerK(heads) \in Nat \ {0}
<1>1. heads.k % tp = 0 /\ heads.v % heads.k = 0
  BY DEF Layer, Divides, LinearAttention
<1> DEFINE k == heads.k
           g == VPerK(heads)
<1>2. k \in Nat \ {0} /\ tp \in Nat \ {0} /\ heads.v \in Nat \ {0}
  BY Numbers
<1>3. g \in Nat \ {0} /\ heads.v = k * g
  <2>1. Shared(heads.v, k, 1)
    BY <1>1, <1>2, Multiple
  <2>. QED
    BY <2>1 DEF Shared, VPerK
<1>4. k % tp = 0
  BY <1>1
<1>. HIDE DEF k, g
<1> DEFINE m == (k \div tp) * g
<1>5. m \in Nat \ {0} /\ k * g = tp * m
  <2>1. Shared(k, tp, g)
    BY <1>2, <1>3, <1>4, Multiple
  <2>. QED
    BY <2>1 DEF Shared
<1>. HIDE DEF m
<1>6. (m * tp + 0) % tp = 0
  <2>1. m \in Nat /\ tp \in Nat \ {0} /\ 0 \in Nat /\ 0 < tp
    BY <1>2, <1>5
  <2>. QED
    BY <2>1, Division, Zenon
<1>7. heads.v % tp = 0
  <2>1. heads.v = m * tp + 0
    BY <1>2, <1>3, <1>5
  <2>. QED
    BY <1>6, <2>1
<1>. QED
  BY <1>1, <1>3, <1>7 DEF k, g

\* The parts of in_proj_qkv, in the order of the checkpoint.
Part(id) ==
  LET n == heads.k * heads.kdim
  IN  CASE id = "q" -> Narrow(HFOrder(param, heads), 0, n)
        [] id = "k" -> Narrow(HFOrder(param, heads), n, n)
        [] id = "v" -> Narrow(HFOrder(param, heads), 2 * n, heads.v * heads.vdim)

\* The three parts that vLLM splits in_proj_qkv into make it up.
LEMMA PartsOfQKV ==
  ASSUME Layer, param = "in_proj_qkv"
  PROVE  /\ Part("q") \in Seq(Slot) /\ Len(Part("q")) = heads.k * heads.kdim
         /\ Part("k") \in Seq(Slot) /\ Len(Part("k")) = heads.k * heads.kdim
         /\ Part("v") \in Seq(Slot) /\ Len(Part("v")) = heads.v * heads.vdim
         /\ Part("q") \o Part("k") \o Part("v") = HFOrder(param, heads)
<1> DEFINE H == HFOrder(param, heads)
           n == heads.k * heads.kdim
           w == heads.v * heads.vdim
<1>1. n \in Nat \ {0} /\ w \in Nat \ {0} /\ QKRows(heads) = 2 * n
  <2>1. n \in Nat \ {0}
    BY Numbers
  <2>2. w \in Nat \ {0}
    BY Numbers
  <2>3. heads.kdim * heads.k = n
    BY Numbers
  <2>4. QKRows(heads) = n * 2
    BY <2>3 DEF QKRows
  <2>. HIDE DEF n, w
  <2>. QED
    BY <2>1, <2>2, <2>4
<1>2. H \in Seq(Slot) /\ Len(H) = 2 * n + w
  <2>1. H = QK(heads) \o VSlots(param, heads)
    BY DEF HFOrder
  <2>2. Len(VSlots(param, heads)) = w
    BY HFRows DEF HeadDim
  <2>. HIDE DEF H, n, w
  <2>3. /\ QK(heads) \in Seq(Slot) /\ VSlots(param, heads) \in Seq(Slot)
        /\ Len(QK(heads)) = 2 * n
    BY <1>1, HFRows
  <2>. QED
    BY <2>1, <2>2, <2>3
<1>3. /\ Part("q") = Narrow(H, 0, n) /\ Part("k") = Narrow(H, n, n)
      /\ Part("v") = Narrow(H, 2 * n, w)
  BY DEF Part
<1>. HIDE DEF H, n, w
<1>4. /\ Narrow(H, 0, n) \in Seq(Slot) /\ Len(Narrow(H, 0, n)) = n
      /\ Narrow(H, n, n) \in Seq(Slot) /\ Len(Narrow(H, n, n)) = n
      /\ Narrow(H, 2 * n, w) \in Seq(Slot) /\ Len(Narrow(H, 2 * n, w)) = w
  BY <1>1, <1>2, NarrowRows
<1>5. /\ Narrow(H, 0, n) = SubSeq(H, 1, n) /\ Narrow(H, n, n) = SubSeq(H, n + 1, 2 * n)
      /\ Narrow(H, 2 * n, w) = SubSeq(H, 2 * n + 1, Len(H))
  BY <1>1, <1>2 DEF Narrow
<1>6. SubSeq(H, 1, n) \o SubSeq(H, n + 1, 2 * n) = SubSeq(H, 1, 2 * n)
  <2>1. 1 \in 1 .. Len(H) + 1 /\ n \in 1 - 1 .. Len(H) /\ 2 * n \in n .. Len(H)
    BY <1>1, <1>2
  <2>. QED
    BY <1>2, <2>1, ConcatAdjacentSubSeq
<1>7. SubSeq(H, 1, 2 * n) \o SubSeq(H, 2 * n + 1, Len(H)) = SubSeq(H, 1, Len(H))
  <2>1. /\ 1 \in 1 .. Len(H) + 1 /\ 2 * n \in 1 - 1 .. Len(H)
        /\ Len(H) \in 2 * n .. Len(H)
    BY <1>1, <1>2
  <2>. QED
    BY <1>2, <2>1, ConcatAdjacentSubSeq
<1>8. SubSeq(H, 1, Len(H)) = H
  BY <1>2, SubSeqFull
<1>. QED
  BY <1>3, <1>4, <1>5, <1>6, <1>7, <1>8 DEF n, w, H

\* What a rank of a linear attention keeps of each tensor: its share.
LEMMA LinearShares ==
  ASSUME Layer, NEW id \in ShardIds(param),
         param \in {"in_proj_z", "in_proj_b", "in_proj_a", "in_proj_qkv"},
         NEW s, s = IF param = "in_proj_qkv" THEN Part(id) ELSE HFOrder(param, heads)
  PROVE  /\ s \in Seq(Slot)
         /\ \E n \in Nat \ {0} :
              Len(s) = tp * n /\ \A r \in Rank : Kept(r, id) = Narrow(s, r * n, n)
<1>1. format = Dense /\ Restored = HFOrder(param, heads)
  BY RestoredIsHF DEF Layer, RowParallel
<1>2. heads.k % tp = 0 /\ heads.v % tp = 0
  BY HeadsDivide DEF LinearAttention
<1>3. /\ heads.k \in Nat \ {0} /\ heads.v \in Nat \ {0} /\ tp \in Nat \ {0}
      /\ heads.kdim \in Nat \ {0} /\ heads.vdim \in Nat \ {0}
  BY Numbers
<1>4. CASE param # "in_proj_qkv"
  <2> DEFINE d == HeadDim(param, heads)
             n == (heads.v \div tp) * d
  <2>1. s \in Seq(Slot) /\ Len(s) = heads.v * d /\ d \in Nat \ {0}
    BY <1>4, HFRows DEF HFOrder
  <2>2. n \in Nat \ {0} /\ heads.v * d = tp * n
    <3>1. Shared(heads.v, tp, d)
      BY <1>2, <1>3, <2>1, Multiple
    <3>. QED
      BY <3>1 DEF Shared
  <2>3. \A r \in Rank : Kept(r, id) = Share(s, r)
    BY <1>1, <1>4 DEF Kept
  <2>. HIDE DEF n, d
  <2>4. \A r \in Rank : Share(s, r) = Narrow(s, r * n, n)
    BY <2>1, <2>2, SharesOfRows
  <2>5. \A r \in Rank : Kept(r, id) = Narrow(s, r * n, n)
    BY <2>3, <2>4
  <2>6. Len(s) = tp * n
    BY <2>1, <2>2
  <2>. QED
    BY <2>1, <2>2, <2>5, <2>6, Zenon
<1>5. CASE param = "in_proj_qkv"
  <2> DEFINE n == ShardSize(id)
  <2>1. id \in {"q", "k", "v"} /\ s = Part(id)
    BY <1>5 DEF ShardIds
  <2>2. n \in Nat \ {0} /\ s \in Seq(Slot) /\ Len(s) = tp * n
    <3>1. CASE id = "v"
      <4>1. Len(s) = heads.v * heads.vdim /\ s \in Seq(Slot)
        BY <1>5, <2>1, <3>1, PartsOfQKV
      <4>2. n = (heads.v * heads.vdim) \div tp
        BY <1>5, <3>1 DEF ShardSize
      <4>3. Shared(heads.v, tp, heads.vdim)
        BY <1>2, <1>3, Multiple
      <4>. HIDE DEF n
      <4>. QED
        BY <4>1, <4>2, <4>3 DEF Shared
    <3>2. CASE id # "v"
      <4>1. Len(s) = heads.k * heads.kdim /\ s \in Seq(Slot)
        BY <1>5, <2>1, <3>2, PartsOfQKV
      <4>2. n = (heads.k * heads.kdim) \div tp
        BY <1>5, <3>2 DEF ShardSize
      <4>3. Shared(heads.k, tp, heads.kdim)
        BY <1>2, <1>3, Multiple
      <4>. HIDE DEF n
      <4>. QED
        BY <4>1, <4>2, <4>3 DEF Shared
    <3>. QED
      BY <3>1, <3>2
  <2>3. Arriving(id) = s
    BY <1>1, <1>5, <2>1 DEF Arriving, Part
  <2>4. \A r \in Rank : Kept(r, id) = IF n > 0 /\ n < Len(s) THEN Narrow(s, r * n, n) ELSE s
    BY <1>5, <2>3 DEF Kept, MergedShare, RowParallel
  <2>. HIDE DEF n
  <2>5. \A r \in Rank : Kept(r, id) = Narrow(s, r * n, n)
    <3> TAKE r \in Rank
    <3>1. (tp = 1 <=> ~ (n < Len(s))) /\ (tp = 1 => Narrow(s, r * n, n) = s)
      BY <2>2, OnlyShare
    <3>. QED
      BY <1>3, <2>2, <2>4, <3>1
  <2>. QED
    BY <2>2, <2>5, Zenon
<1>. QED
  BY <1>4, <1>5

\* Once all ranks have loaded them, their shares make the tensor up.
LEMMA LinearJoined ==
  ASSUME Layer, Following, NEW id \in ShardIds(param), Loaded(id),
         param \in {"in_proj_z", "in_proj_b", "in_proj_a", "in_proj_qkv"},
         NEW s, s = IF param = "in_proj_qkv" THEN Part(id) ELSE HFOrder(param, heads)
  PROVE  Even(id) /\ Joined(id) = s
<1>1. s \in Seq(Slot)
  BY LinearShares
<1>2. PICK n \in Nat \ {0} :
        Len(s) = tp * n /\ \A r \in Rank : Kept(r, id) = Narrow(s, r * n, n)
  BY LinearShares
<1>3. \A r \in Rank : held[r][id] = Kept(r, id)
  BY DEF Following, Loaded
<1>4. \A r \in Rank : held[r][id] = Narrow(s, r * n, n)
  BY <1>2, <1>3, Zenon
<1>. QED
  BY <1>1, <1>2, <1>4, JoinedShares

\* The ranks together hold the rows of the HF checkpoint, in its order.
THEOREM RanksJoinToHFAlways == Spec => []RanksJoinToHF
<1>1. Layer /\ Following => RanksJoinToHF
  <2> SUFFICES ASSUME Layer, Following, param \in LinearAttention \ {"out_proj"},
                      \A id \in ShardIds(param) : Loaded(id)
               PROVE  /\ \A id \in ShardIds(param) : Even(id)
                      /\ HFOrder(param, heads) =
                           IF param = "in_proj_qkv" THEN Joined("q") \o Joined("k") \o Joined("v")
                           ELSE IF param \in {"conv1d", "dt_bias", "A_log"} THEN held[0]["all"]
                           ELSE Joined("all")
    BY DEF RanksJoinToHF
  <2>1. CASE param = "in_proj_qkv"
    <3>1. \A id \in {"q", "k", "v"} : Even(id) /\ Joined(id) = Part(id)
      BY <2>1, LinearJoined DEF ShardIds
    <3>2. Part("q") \o Part("k") \o Part("v") = HFOrder(param, heads)
      BY <2>1, PartsOfQKV
    <3>. QED
      BY <2>1, <3>1, <3>2 DEF ShardIds
  <2>2. CASE param \in {"in_proj_z", "in_proj_b", "in_proj_a"}
    <3>1. Even("all") /\ Joined("all") = HFOrder(param, heads)
      BY <2>2, LinearJoined DEF ShardIds
    <3>. QED
      BY <2>2, <3>1 DEF ShardIds
  <2>3. CASE param \in {"conv1d", "dt_bias", "A_log"}
    <3>1. Restored = HFOrder(param, heads)
      BY <2>3, RestoredIsHF DEF Layer, RowParallel
    <3>2. \A r \in Rank : held[r]["all"] = Kept(r, "all")
      BY <2>3 DEF Following, Loaded, ShardIds
    <3>3. \A r \in Rank : Kept(r, "all") = Restored
      BY <2>3 DEF Kept, RowParallel
    <3>4. 0 \in Rank
      BY Numbers
    <3>. QED
      BY <2>3, <3>1, <3>2, <3>3, <3>4 DEF ShardIds, Even
  <2>. QED
    BY <2>1, <2>2, <2>3 DEF LinearAttention
<1>. QED
  BY <1>1, FollowingAlways, PTL

-----------------------------------------------------------------------------
(* The rows of the vocabulary.                                             *)

\* A sequence that is filled up with one value.
LEMMA Filled ==
  ASSUME NEW S, NEW own \in Seq(S), NEW z \in S, NEW m \in Nat, NEW i \in 1 .. Len(own) + m,
         NEW row, row = own \o [j \in 1 .. m |-> z]
  PROVE  /\ row \in Seq(S) /\ Len(row) = Len(own) + m
         /\ row[i] = IF i <= Len(own) THEN own[i] ELSE z
<1> DEFINE pad == [j \in 1 .. m |-> z]
<1>1. pad \in Seq(S) /\ Len(pad) = m /\ \A j \in 1 .. m : pad[j] = z
  OBVIOUS
<1>2. row = own \o pad
  OBVIOUS
<1>. HIDE DEF pad
<1>3. row \in Seq(S) /\ Len(row) = Len(own) + Len(pad)
  BY <1>1, <1>2, ConcatProperties
<1>4. \A j \in 1 .. Len(own) + Len(pad) :
        row[j] = IF j <= Len(own) THEN own[j] ELSE pad[j - Len(own)]
  BY <1>1, <1>2, ConcatProperties
<1>5. row[i] = IF i <= Len(own) THEN own[i] ELSE pad[i - Len(own)]
  BY <1>1, <1>4
<1>6. ~ (i <= Len(own)) => i - Len(own) \in 1 .. m
  OBVIOUS
<1>. QED
  BY <1>1, <1>3, <1>5, <1>6

\* The range of a rank, and which places of its parameter have a token.
LEMMA RowsOfAVocabulary ==
  ASSUME Layer, param = "embed_tokens", NEW r \in Rank
  PROVE  /\ PerRank \in Nat /\ VocabStart(r) \in Nat /\ r * PerRank \in Nat
         /\ VocabEnd(r) - VocabStart(r) \in Nat
         /\ VocabEnd(r) - VocabStart(r) <= PerRank
         /\ VocabStart(r) + (VocabEnd(r) - VocabStart(r)) <= vocab
         /\ \A i \in 1 .. PerRank :
              IF r * PerRank + i <= vocab
              THEN i <= VocabEnd(r) - VocabStart(r) /\ VocabStart(r) = r * PerRank
              ELSE ~ (i <= VocabEnd(r) - VocabStart(r))
<1>1. vocab \in Nat \ {0} /\ r \in Nat /\ tp \in Nat \ {0} /\ PadTo \in Nat \ {0}
  BY HFRows, Numbers, SizesAssumption
<1> DEFINE p == PerRank
           a == r * p
           b == (r + 1) * p
<1>2. p \in Nat
  <2> DEFINE c == (vocab + PadTo - 1) \div PadTo
  <2>1. c \in Nat
    BY <1>1
  <2>. HIDE DEF c
  <2>2. c * PadTo \in Nat
    BY <1>1, <2>1
  <2>3. p = (c * PadTo) \div tp
    BY DEF PerRank, c
  <2>. HIDE DEF p
  <2> DEFINE m == c * PadTo
  <2>. HIDE DEF m
  <2>4. m \in Nat /\ p = m \div tp
    BY <2>2, <2>3 DEF m
  <2>. QED
    BY <1>1, <2>4
<1>. HIDE DEF p
<1>3. a \in Nat /\ b = a + p
  BY <1>1, <1>2
<1>4. /\ VocabStart(r) = IF a < vocab THEN a ELSE vocab
      /\ VocabEnd(r) = IF b < vocab THEN b ELSE vocab
  BY DEF VocabStart, VocabEnd, p
<1>. HIDE DEF a, b
<1>5. /\ VocabStart(r) \in Nat /\ VocabEnd(r) - VocabStart(r) \in Nat
      /\ VocabEnd(r) - VocabStart(r) <= p
      /\ VocabStart(r) + (VocabEnd(r) - VocabStart(r)) <= vocab
  BY <1>1, <1>2, <1>3, <1>4
<1>6. ASSUME NEW i \in 1 .. p
      PROVE  IF a + i <= vocab THEN i <= VocabEnd(r) - VocabStart(r) /\ VocabStart(r) = a
                               ELSE ~ (i <= VocabEnd(r) - VocabStart(r))
  BY <1>1, <1>2, <1>3, <1>4
<1>. QED
  BY <1>2, <1>3, <1>5, <1>6 DEF p, a

\* Every rank has the rows of its own tokens where its lookups read them.
THEOREM TokenAtItsRowAlways == Spec => []TokenAtItsRow
<1>1. Layer /\ Following => TokenAtItsRow
  <2> SUFFICES ASSUME Layer, Following, param = "embed_tokens", NEW r \in Rank,
                      held[r]["all"] # <<>>, NEW i \in 1 .. PerRank
               PROVE  held[r]["all"][i] =
                        IF r * PerRank + i <= vocab
                        THEN [part |-> "token", head |-> r * PerRank + i - 1, at |-> 0] ELSE Zero
    BY DEF TokenAtItsRow
  <2> DEFINE s == Slots("token", vocab, 1)
             p == PerRank
             a == VocabStart(r)
             n == VocabEnd(r) - VocabStart(r)
             row == held[r]["all"]
             start == r * p
  <2>1. Restored = s
    BY RestoredIsHF DEF Layer, RowParallel, HFOrder
  <2>2. row = Kept(r, "all")
    BY DEF Following, ShardIds
  <2>3. Kept(r, "all") = VocabShare(s, r)
    BY <2>1 DEF Kept, RowParallel
  <2>4. row = Narrow(s, a, n) \o [j \in 1 .. p - Len(Narrow(s, a, n)) |-> Zero]
    BY <2>2, <2>3 DEF VocabShare
  <2>5. vocab \in Nat \ {0}
    BY HFRows
  <2>6. s \in Seq(Slot) /\ Len(s) = vocab /\ \A j \in 1 .. vocab :
          s[j] = [part |-> "token", head |-> j - 1, at |-> 0]
    <3>1. vocab \in Nat /\ 1 \in Nat \ {0} /\ vocab * 1 = vocab
      BY <2>5
    <3>2. /\ s \in Seq(Slot) /\ Len(s) = vocab * 1
          /\ \A j \in 1 .. vocab * 1 :
               s[j] = [part |-> "token", head |-> (j - 1) \div 1, at |-> (j - 1) % 1]
      BY <3>1, SlotRows
    <3>3. \A j \in 1 .. vocab : (j - 1) \div 1 = j - 1 /\ (j - 1) % 1 = 0
      BY <2>5
    <3>. QED
      BY <3>1, <3>2, <3>3
  <2>7. /\ p \in Nat /\ a \in Nat /\ n \in Nat /\ n <= p /\ a + n <= vocab /\ start \in Nat
        /\ IF start + i <= vocab THEN i <= n /\ a = start ELSE ~ (i <= n)
    BY RowsOfAVocabulary
  <2>. HIDE DEF s, p, a, n, row, start
  <2> DEFINE own == Narrow(s, a, n)
  <2>8. own \in Seq(Slot) /\ Len(own) = n /\ \A j \in 1 .. n : own[j] = s[a + j]
    <3>1. s \in Seq(Slot) /\ a \in Nat /\ n \in Nat /\ a + n <= Len(s)
      BY <2>6, <2>7
    <3>. QED
      BY <3>1, NarrowRows
  <2>9. row[i] = IF i <= n THEN own[i] ELSE Zero
    <3>1. p - n \in Nat /\ i \in 1 .. Len(own) + (p - n)
      BY <2>7, <2>8 DEF p
    <3>2. Zero \in Slot
      BY DEF Zero, Slot
    <3>3. row = own \o [j \in 1 .. p - n |-> Zero]
      BY <2>4, <2>8
    <3>. HIDE DEF own
    <3>4. row[i] = IF i <= Len(own) THEN own[i] ELSE Zero
      BY <2>8, <3>1, <3>2, <3>3, Filled
    <3>. QED
      BY <2>8, <3>4
  <2>. HIDE DEF own
  <2>10. CASE start + i <= vocab
    <3>1. i \in 1 .. n /\ a = start
      BY <2>7, <2>10 DEF p
    <3>2. row[i] = own[i] /\ own[i] = s[start + i]
      BY <2>8, <2>9, <3>1
    <3> DEFINE j == start + i
    <3>3. j \in 1 .. vocab
      BY <2>5, <2>7, <2>10 DEF p
    <3>. HIDE DEF j
    <3>4. s[j] = [part |-> "token", head |-> j - 1, at |-> 0]
      BY <2>6, <3>3
    <3>5. row[i] = [part |-> "token", head |-> j - 1, at |-> 0]
      BY <3>2, <3>4, Zenon DEF j
    <3>6. row[i] = [part |-> "token", head |-> start + i - 1, at |-> 0]
      <4>1. start + i - 1 = j - 1
        BY <2>7 DEF j
      <4>. QED
        BY <3>5, <4>1, Zenon
    <3>. QED
      BY <2>10, <3>6 DEF row, start, p
  <2>11. CASE ~ (start + i <= vocab)
    <3>1. row[i] = Zero
      BY <2>7, <2>9, <2>11
    <3>. QED
      BY <2>11, <3>1 DEF row, start, p
  <2>. QED
    BY <2>10, <2>11
<1>. QED
  BY <1>1, FollowingAlways, PTL

-----------------------------------------------------------------------------
(* Query heads and their keys.                                             *)

\* A group of query heads of a rank is a group of all heads: as many K heads
\* as there are ranks, or more of them.
SameGroup(r, w, q, g, j) ==
  /\ w \in Nat \ {0} /\ w \div q = g /\ j \div g \in 0 .. q - 1
  /\ (r * w + j) \div g = r * q + (j \div g)

LEMMA GroupsOfFewRanks ==
  ASSUME NEW q \in Nat \ {0}, NEW g \in Nat \ {0}, NEW r \in Nat,
         NEW w, w = q * g, NEW j \in 0 .. w - 1
  PROVE  SameGroup(r, w, q, g, j)
<1>1. w \in Nat \ {0} /\ w = g * q + 0
  OBVIOUS
<1>2. (g * q + 0) \div q = g
  BY Division
<1>3. w \div q = g
  BY <1>1, <1>2
<1> DEFINE x == j \div g
           y == j % g
<1>4. x \in 0 .. q - 1 /\ y \in 0 .. g - 1 /\ j = x * g + y
  <2>1. j \in Nat /\ j < q * g
    BY <1>1
  <2>. QED
    BY <2>1, Remainder
<1>. HIDE DEF x, y
<1>5. r * w + j = (r * q + x) * g + y
  <2>1. r * w = (r * q) * g
    OBVIOUS
  <2> DEFINE b == r * q
  <2>2. b \in Nat
    OBVIOUS
  <2>3. r * w = b * g
    BY <2>1
  <2>. HIDE DEF b
  <2>4. b * g + (x * g + y) = (b + x) * g + y
    BY <1>4, <2>2
  <2>. QED
    BY <1>4, <2>3, <2>4 DEF b
<1>6. (r * w + j) \div g = r * q + x
  <2> DEFINE b == r * q + x
  <2>1. b \in Nat /\ y \in Nat /\ y < g
    BY <1>4
  <2>2. r * w + j = b * g + y
    BY <1>5
  <2>. HIDE DEF b
  <2>3. (b * g + y) \div g = b
    BY <2>1, Division
  <2>. QED
    BY <2>2, <2>3 DEF b
<1>. QED
  BY <1>1, <1>3, <1>4, <1>6 DEF x, SameGroup

\* The same where a K head is on several ranks.
LEMMA GroupsOfManyRanks ==
  ASSUME NEW R \in Nat \ {0}, NEW w \in Nat \ {0}, NEW k \in Nat \ {0},
         NEW r \in 0 .. k * R - 1, NEW j \in 0 .. w - 1
  PROVE  /\ R * w \in Nat \ {0} /\ r \div R \in 0 .. k - 1
         /\ (r * w + j) \div (R * w) = r \div R
<1>1. R * w \in Nat \ {0}
  OBVIOUS
<1> DEFINE x == r \div R
           y == r % R
<1>2. x \in 0 .. k - 1 /\ y \in 0 .. R - 1 /\ r = x * R + y
  <2>1. r \in Nat /\ r < k * R
    OBVIOUS
  <2>. QED
    BY <2>1, Remainder
<1>. HIDE DEF x, y
<1>3. y * w + j \in Nat /\ y * w + j < R * w
  BY <1>2, Pairing
<1>4. r * w + j = x * (R * w) + (y * w + j)
  BY <1>2
<1>5. (r * w + j) \div (R * w) = x
  <2> DEFINE m == R * w
             a == y * w + j
  <2>1. m \in Nat \ {0} /\ a \in Nat /\ a < m /\ x \in Nat
    BY <1>1, <1>2, <1>3
  <2>2. r * w + j = x * m + a
    BY <1>4
  <2>. HIDE DEF m, a
  <2>3. (x * m + a) \div m = x
    BY <2>1, Division
  <2>. QED
    BY <2>2, <2>3 DEF m
<1>. QED
  BY <1>1, <1>2, <1>5 DEF x

\* The rows a rank keeps of a tensor of whole heads: m of them, from head b * m.
HeadsFrom(own, b, m, d) ==
  /\ Len(own) = m * d /\ Len(own) \div d = m
  /\ \A x \in 0 .. m - 1 : own[x * d + 1].head = b * m + x

LEMMA HeadsOfShare ==
  ASSUME NEW part \in {"q", "k", "v"}, NEW n \in Nat, NEW d \in Nat \ {0},
         NEW b \in Nat, NEW m \in Nat \ {0}, b * m + m <= n,
         NEW own, own = Narrow(Slots(part, n, d), b * (m * d), m * d)
  PROVE  HeadsFrom(own, b, m, d)
<1> DEFINE s == Slots(part, n, d)
           w == m * d
           a == b * w
           e == n * d
<1>1. /\ s \in Seq(Slot) /\ Len(s) = e /\ e \in Nat
      /\ \A i \in 1 .. e : s[i] = [part |-> part, head |-> (i - 1) \div d, at |-> (i - 1) % d]
  <2>1. part \in {"q", "k", "v", "token"}
    OBVIOUS
  <2>2. /\ Slots(part, n, d) \in Seq(Slot) /\ Len(Slots(part, n, d)) = n * d
        /\ n * d \in Nat
        /\ \A i \in 1 .. n * d :
             Slots(part, n, d)[i] = [part |-> part, head |-> (i - 1) \div d, at |-> (i - 1) % d]
    BY <2>1, SlotRows, Zenon
  <2>. QED
    BY <2>2, Zenon
<1>2. w \in Nat \ {0} /\ a \in Nat /\ a = (b * m) * d
  OBVIOUS
<1>3. a + w <= e
  <2> DEFINE c == b * m + m
  <2>1. c \in Nat /\ c <= n /\ a + w = c * d
    <3>1. c \in Nat /\ c <= n
      OBVIOUS
    <3> DEFINE z == b * m
    <3>2. z \in Nat /\ c = z + m /\ a = z * d
      BY <1>2
    <3>. HIDE DEF z, c, a
    <3>3. z * d + m * d = c * d
      BY <3>2
    <3>. QED
      BY <3>1, <3>2, <3>3
  <2>. HIDE DEF c
  <2>2. c * d <= n * d
    <3>1. CASE c = n
      BY <3>1
    <3>2. CASE c < n
      BY <2>1, <3>2, Products
    <3>. QED
      BY <2>1, <3>1, <3>2
  <2>. QED
    BY <2>1, <2>2
<1>4. own = Narrow(s, a, w)
  OBVIOUS
<1>5. /\ Narrow(s, a, w) \in Seq(Slot) /\ Len(Narrow(s, a, w)) = w
       /\ \A y \in 1 .. w : Narrow(s, a, w)[y] = s[a + y]
  <2>1. s \in Seq(Slot) /\ a \in Nat /\ w \in Nat /\ a + w <= Len(s)
    BY <1>1, <1>2, <1>3, Zenon
  <2>. HIDE DEF s, a, w
  <2>. QED
    BY <2>1, NarrowRows
<1>6. Len(own) \div d = m
  <2>1. (m * d + 0) \div d = m /\ m * d + 0 = m * d
    BY Division
  <2>2. Len(own) = m * d
    BY <1>4, <1>5, Zenon
  <2>. QED
    BY <2>1, <2>2
<1>7. ASSUME NEW x \in 0 .. m - 1
      PROVE  own[x * d + 1].head = b * m + x
  <2> DEFINE i == x * d + 1
             h == b * m + x
  <2>1. x * d + d <= w /\ x * d \in Nat
    BY Products
  <2>2. i \in 1 .. w /\ a + i = h * d + 1 /\ h \in Nat
    <3>1. i \in 1 .. w
      BY <1>2, <2>1
    <3> DEFINE z == b * m
    <3>2. z \in Nat /\ a = z * d /\ h = z + x
      BY <1>2
    <3>. HIDE DEF z, a, h, w
    <3>3. z * d + x * d = h * d
      BY <3>2
    <3>4. a + i = h * d + 1 /\ h \in Nat
      BY <2>1, <3>2, <3>3
    <3>. QED
      BY <3>1, <3>4
  <2>. HIDE DEF s, a, w, e, i, h
  <2>3. own[i] = s[a + i] /\ a + i \in 1 .. e
    <3>1. own[i] = s[a + i]
      BY <1>4, <1>5, <2>2
    <3>2. a + i \in 1 .. e
      <4>1. e \in Nat
        BY <1>1, Zenon
      <4>. QED
        BY <1>2, <1>3, <2>2, <4>1
    <3>. QED
      BY <3>1, <3>2
  <2>4. s[a + i].head = (h * d + 1 - 1) \div d
    BY <1>1, <2>2, <2>3
  <2>5. (h * d + 0) \div d = h
    BY <2>2, Division
  <2>6. h * d + 1 - 1 = h * d + 0
    BY <2>2
  <2>. QED
    BY <2>3, <2>4, <2>5, <2>6 DEF i, h
<1>. QED
  BY <1>4, <1>5, <1>6, <1>7, Zenon DEF HeadsFrom

\* How many K heads a rank has, and which.
KPerRank == (heads.k * KVReplicas) \div tp
FirstK(r) == (r \div KVReplicas) * KPerRank

\* The K heads of a rank are those of the groups of its query heads.
LEMMA KHeads ==
  ASSUME Layer, param = "qkv_proj", NEW r \in Rank, NEW j \in 0 .. (heads.v \div tp) - 1
  PROVE  /\ heads.v % tp = 0 /\ r \div KVReplicas \in Nat
         /\ KPerRank \in Nat \ {0} /\ FirstK(r) + KPerRank <= heads.k
         /\ j \div ((heads.v \div tp) \div KPerRank) \in 0 .. KPerRank - 1
         /\ (r * (heads.v \div tp) + j) \div VPerK(heads)
              = FirstK(r) + (j \div ((heads.v \div tp) \div KPerRank))
<1> DEFINE k == heads.k
           v == heads.v
           w == v \div tp
           g == VPerK(heads)
<1>1. /\ k \in Nat \ {0} /\ v \in Nat \ {0} /\ tp \in Nat \ {0} /\ r \in 0 .. tp - 1
  BY Numbers
<1>2. v % tp = 0 /\ v % k = 0 /\ (k % tp = 0 \/ tp % k = 0)
  BY DEF Layer, Divides
<1>3. KVReplicas = (IF tp >= k THEN tp \div k ELSE 1) /\ KPerRank = (k * KVReplicas) \div tp
  BY DEF KVReplicas, KPerRank
<1>4. g = v \div k
  BY DEF VPerK
<1>. HIDE DEF k, v, g
<1>5. w \in Nat \ {0} /\ v = tp * w /\ g \in Nat \ {0} /\ v = k * g
  <2>1. Shared(v, tp, 1) /\ Shared(v, k, 1)
    BY <1>1, <1>2, Multiple
  <2>. QED
    BY <1>4, <2>1 DEF Shared
<1>. HIDE DEF w
<1>6. CASE tp < k
  <2> DEFINE q == k \div tp
  <2>1. KVReplicas = 1 /\ KPerRank = q
    BY <1>1, <1>3, <1>6
  <2>2. k % tp = 0
    BY <1>1, <1>2, <1>6
  <2>3. q \in Nat \ {0} /\ k = tp * q
    <3>1. Shared(k, tp, 1)
      BY <1>1, <2>2, Multiple
    <3>. QED
      BY <3>1 DEF Shared
  <2>. HIDE DEF q
  <2>4. w = q * g
    <3> DEFINE z == q * g
    <3>1. z \in Nat /\ tp * w = tp * z
      BY <1>1, <1>5, <2>3
    <3>. HIDE DEF z
    <3>2. w = z
      BY <1>1, <1>5, <3>1
    <3>. QED
      BY <3>2 DEF z
  <2>5. /\ w \div q = g /\ j \div g \in 0 .. q - 1
        /\ (r * w + j) \div g = r * q + (j \div g)
    <3>1. j \in 0 .. w - 1 /\ r \in Nat
      BY <1>1 DEF w, v
    <3>2. SameGroup(r, w, q, g, j)
      BY <1>5, <2>3, <2>4, <3>1, GroupsOfFewRanks
    <3>. QED
      BY <3>2 DEF SameGroup
  <2>6. r \div KVReplicas = r /\ FirstK(r) = r * q
    BY <1>1, <2>1 DEF FirstK
  <2>7. r * q + q <= k
    BY <1>1, <2>3, Products
  <2>. QED
    BY <1>1, <1>2, <2>1, <2>3, <2>5, <2>6, <2>7 DEF k, v, w, g
<1>7. CASE k <= tp
  <2> DEFINE R == tp \div k
  <2>1. KVReplicas = R
    BY <1>1, <1>3, <1>7
  <2>2. R \in Nat \ {0} /\ tp = k * R
    <3>1. CASE tp % k = 0
      <4>1. Shared(tp, k, 1)
        BY <1>1, <3>1, Multiple
      <4>. QED
        BY <4>1 DEF Shared
    <3>2. CASE k % tp = 0
      <4>1. k = tp
        BY <1>1, <1>7, <3>2
      <4>2. (1 * k + 0) \div k = 1
        BY <1>1, Division
      <4>. QED
        BY <1>1, <4>1, <4>2
    <3>. QED
      BY <1>2, <3>1, <3>2
  <2>. HIDE DEF R
  <2>3. KPerRank = 1
    <3>1. (1 * tp + 0) \div tp = 1
      BY <1>1, Division
    <3>2. 1 * tp + 0 = k * R
      BY <1>1, <2>2
    <3>. QED
      BY <1>3, <2>1, <3>1, <3>2
  <2>4. g = R * w
    <3> DEFINE z == R * w
    <3>1. z \in Nat /\ k * g = k * z
      BY <1>1, <1>5, <2>2
    <3>. HIDE DEF z
    <3>2. g = z
      BY <1>1, <1>5, <3>1
    <3>. QED
      BY <3>2 DEF z
  <2>5. r \div R \in 0 .. k - 1 /\ (r * w + j) \div g = r \div R
    <3>1. j \in 0 .. w - 1 /\ r \in 0 .. k * R - 1
      BY <1>1, <2>2 DEF w, v
    <3>. QED
      BY <1>1, <1>5, <2>2, <2>4, <3>1, GroupsOfManyRanks
  <2>6. w \div 1 = w /\ j \div w = 0 /\ (r \div R) * 1 = r \div R
    <3>1. (0 * w + j) \div w = 0
      BY <1>5, Division DEF w, v
    <3>2. 0 * w + j = j /\ w \div 1 = w
      BY <1>5
    <3>3. (r \div R) * 1 = r \div R
      BY <2>5
    <3>. QED
      BY <3>1, <3>2, <3>3
  <2>7. FirstK(r) = r \div R
    BY <2>1, <2>3, <2>6 DEF FirstK
  <2>. QED
    BY <1>1, <1>2, <2>1, <2>3, <2>5, <2>6, <2>7 DEF k, v, w, g
<1>. QED
  BY <1>1, <1>6, <1>7

\* What a rank holds of Q, K and V heads.
LEMMA HeadsHeld ==
  ASSUME Layer, Following, param = "qkv_proj", NEW r \in Rank
  PROVE  /\ held[r]["q"] # <<>> =>
              held[r]["q"] = Narrow(Slots("q", heads.v, heads.kdim),
                                    r * ((heads.v \div tp) * heads.kdim),
                                    (heads.v \div tp) * heads.kdim)
         /\ \A id \in {"k", "v"} : held[r][id] # <<>> =>
              held[r][id] = Narrow(Slots(id, heads.k, heads.kdim),
                                   (r \div KVReplicas) * (KPerRank * heads.kdim),
                                   KPerRank * heads.kdim)
<1> DEFINE d == heads.kdim
           k == heads.k
           v == heads.v
           w == (v \div tp) * d
           m == KPerRank * d
           e == r \div KVReplicas
<1>1. /\ k \in Nat \ {0} /\ v \in Nat \ {0} /\ tp \in Nat \ {0} /\ r \in 0 .. tp - 1
      /\ d \in Nat \ {0}
  BY Numbers
<1>2. \A id \in {"q", "k", "v"} : held[r][id] # <<>> =>
        held[r][id] = QKVShare(Slots(id, IF id = "q" THEN v ELSE k, d), id, r)
  BY DEF Following, ShardIds, Kept, Arriving, RowParallel
<1>3. Shared(v, tp, d) /\ w \in Nat \ {0} /\ v * d = tp * w
  <2>1. v % tp = 0
    BY DEF Layer, Divides
  <2>2. Shared(v, tp, d)
    BY <1>1, <2>1, Multiple
  <2>. QED
    BY <2>2 DEF Shared
<1>4. held[r]["q"] # <<>> => held[r]["q"] = Narrow(Slots("q", v, d), r * w, w)
  <2> SUFFICES ASSUME held[r]["q"] # <<>>
               PROVE  held[r]["q"] = Narrow(Slots("q", v, d), r * w, w)
    OBVIOUS
  <2> DEFINE s == Slots("q", v, d)
  <2>1. s \in Seq(Slot) /\ Len(s) = v * d
    BY <1>1, SlotRows
  <2>2. ShardSize("q") = w /\ EffectiveRank("q", r) = r
    BY DEF ShardSize, EffectiveRank
  <2>3. held[r]["q"] = QKVShare(s, "q", r)
    BY <1>2
  <2>. HIDE DEF s, w, k, v, d
  <2>4. held[r]["q"] = IF w > 0 /\ w < Len(s) THEN Narrow(s, r * w, w) ELSE s
    BY <2>2, <2>3 DEF QKVShare
  <2>5. (tp = 1 <=> ~ (w < Len(s))) /\ (tp = 1 => Narrow(s, r * w, w) = s)
    BY <1>3, <2>1, OnlyShare
  <2>6. held[r]["q"] = Narrow(s, r * w, w)
    BY <1>3, <2>4, <2>5
  <2>. QED
    BY <2>6 DEF s
<1>5. ASSUME NEW id \in {"k", "v"}, held[r][id] # <<>>
      PROVE  held[r][id] = Narrow(Slots(id, k, d), e * m, m)
  <2> DEFINE s == Slots(id, k, d)
  <2>1. s \in Seq(Slot) /\ Len(s) = k * d
    <3>1. id \in {"q", "k", "v", "token"} /\ k \in Nat
      BY <1>1, <1>5
    <3>2. IsHeads(Slots(id, k, d), k, d)
      BY <1>1, <3>1, SlotHeads
    <3>. QED
      BY <3>2 DEF IsHeads
  <2>2. ShardSize(id) = m /\ EffectiveRank(id, r) = e
    BY DEF ShardSize, EffectiveRank, KPerRank
  <2>3. held[r][id] = QKVShare(s, id, r)
    BY <1>2, <1>5
  <2>4. /\ KPerRank \in Nat \ {0} /\ e \in Nat /\ e * KPerRank + KPerRank <= k
    <3>1. 0 \in 0 .. (v \div tp) - 1
      BY <1>1, <1>3 DEF Shared
    <3>. QED
      BY <3>1, KHeads DEF FirstK
  <2>. HIDE DEF s, w, v, e
  <2>5. held[r][id] = IF m > 0 /\ m < Len(s) THEN Narrow(s, e * m, m) ELSE s
    BY <2>2, <2>3 DEF QKVShare
  <2>6. ~ (m < k * d) => e * m = 0 /\ m = k * d
    <3> SUFFICES ASSUME ~ (m < k * d) PROVE e * m = 0 /\ m = k * d
      OBVIOUS
    <3> DEFINE c == KPerRank
    <3>. HIDE DEF k, d, c
    <3>1. c \in Nat \ {0} /\ e \in Nat /\ e * c + c <= k /\ ~ (c * d < k * d)
      BY <2>4 DEF c
    <3>2. c <= k
      <4>1. e * c \in Nat
        BY <3>1
      <4>. QED
        BY <1>1, <3>1, <4>1
    <3>3. ~ (c < k)
      <4>1. c < k => c * d + d <= k * d /\ c * d \in Nat /\ k * d \in Nat
        BY <1>1, <3>1, Products
      <4>. QED
        BY <1>1, <3>1, <4>1
    <3>4. c = k
      BY <1>1, <3>1, <3>2, <3>3
    <3>5. e = 0
      <4>1. e # 0 => e * c + c > k
        <5> HAVE e # 0
        <5>1. 0 * c + c <= e * c
          BY <3>1, Products
        <5>. QED
          BY <1>1, <3>1, <3>4, <5>1
      <4>. QED
        BY <1>1, <3>1, <4>1
    <3>. QED
      BY <1>1, <3>4, <3>5 DEF c
  <2>7. m \in Nat \ {0}
    BY <1>1, <2>4
  <2>. HIDE DEF m, k, d
  <2>8. ~ (m < Len(s)) => Narrow(s, e * m, m) = s
    <3> SUFFICES ASSUME ~ (m < Len(s)) PROVE Narrow(s, e * m, m) = s
      OBVIOUS
    <3>1. e * m = 0 /\ m = Len(s)
      BY <2>1, <2>6
    <3>2. e * m + 1 = 1 /\ e * m + m = Len(s)
      BY <2>7, <3>1
    <3>. QED
      BY <2>1, <3>2, SubSeqFull DEF Narrow
  <2>9. held[r][id] = Narrow(s, e * m, m)
    BY <2>5, <2>7, <2>8
  <2>. QED
    BY <2>9 DEF s
<1>. QED
  BY <1>4, <1>5

\* On every rank a query head finds the K and the V head of its group.
THEOREM QueryMeetsItsKeyAlways == Spec => []QueryMeetsItsKey
<1>1. Layer /\ Following => QueryMeetsItsKey
  <2> SUFFICES ASSUME Layer, Following, param = "qkv_proj", NEW r \in Rank,
                      held[r]["q"] # <<>>, NEW id \in {"k", "v"}, held[r][id] # <<>>,
                      NEW j \in 0 .. (Len(held[r]["q"]) \div heads.kdim) - 1
               PROVE  LET d == heads.kdim
                          queries == Len(held[r]["q"]) \div d
                          group == queries \div (Len(held[r][id]) \div d)
                      IN  held[r][id][(j \div group) * d + 1].head
                            = held[r]["q"][j * d + 1].head \div VPerK(heads)
    BY DEF QueryMeetsItsKey
  <2> DEFINE d == heads.kdim
             w == heads.v \div tp
             m == KPerRank
             e == r \div KVReplicas
             Q == held[r]["q"]
             K == held[r][id]
             x == j \div (w \div m)
  <2>1. /\ heads.k \in Nat \ {0} /\ heads.v \in Nat \ {0} /\ d \in Nat \ {0}
        /\ tp \in Nat \ {0} /\ r \in 0 .. tp - 1
    BY Numbers
  <2>2. /\ Q = Narrow(Slots("q", heads.v, d), r * (w * d), w * d)
        /\ K = Narrow(Slots(id, heads.k, d), e * (m * d), m * d)
    BY HeadsHeld
  <2>3. w \in Nat \ {0} /\ r * w + w <= heads.v
    <3>1. heads.v % tp = 0
      BY DEF Layer, Divides
    <3>2. Shared(heads.v, tp, 1)
      BY <2>1, <3>1, Multiple
    <3>3. w \in Nat \ {0} /\ heads.v = tp * w
      BY <3>2 DEF Shared
    <3>. HIDE DEF w
    <3>. QED
      BY <2>1, <3>3, SharesFit
  <2>4. Len(Q) \div d = w /\ \A y \in 0 .. w - 1 : Q[y * d + 1].head = r * w + y
    <3>. HIDE DEF d, w, Q
    <3>1. heads.v \in Nat /\ r \in Nat
      BY <2>1
    <3>2. HeadsFrom(Q, r, w, d)
      BY <2>1, <2>2, <2>3, <3>1, HeadsOfShare
    <3>. QED
      BY <3>2 DEF HeadsFrom
  <2>5. j \in 0 .. w - 1
    BY <2>4
  <2>6. /\ e \in Nat /\ m \in Nat \ {0} /\ e * m + m <= heads.k
        /\ x \in 0 .. m - 1 /\ (r * w + j) \div VPerK(heads) = e * m + x
    BY <2>5, KHeads DEF FirstK
  <2>7. Len(K) \div d = m /\ \A y \in 0 .. m - 1 : K[y * d + 1].head = e * m + y
    <3>. HIDE DEF d, m, e, K, x
    <3>1. heads.k \in Nat /\ id \in {"q", "k", "v"}
      BY <2>1
    <3>2. HeadsFrom(K, e, m, d)
      BY <2>1, <2>2, <2>6, <3>1, HeadsOfShare
    <3>. QED
      BY <3>2 DEF HeadsFrom
  <2>8. K[x * d + 1].head = e * m + x /\ Q[j * d + 1].head = r * w + j
    <3>. HIDE DEF d, w, m, e, Q, K, x
    <3>. QED
      BY <2>4, <2>5, <2>6, <2>7
  <2>9. x = j \div ((Len(Q) \div d) \div (Len(K) \div d))
    BY <2>4, <2>7
  <2>. HIDE DEF d, w, m, e, Q, K, x
  <2>10. K[(j \div ((Len(Q) \div d) \div (Len(K) \div d))) * d + 1].head
           = Q[j * d + 1].head \div VPerK(heads)
    BY <2>6, <2>8, <2>9
  <2>. QED
    BY <2>10 DEF d, Q, K
<1>. QED
  BY <1>1, FollowingAlways, PTL

-----------------------------------------------------------------------------
(* What the ranks hold are rows.                                           *)

\* Whatever a rank keeps of a tensor that is not packed, and whenever.
LEMMA KeptRows ==
  ASSUME Layer, Following, format = Dense, NEW r \in Rank, NEW id \in ShardIds(param),
         held[r][id] # <<>>
  PROVE  held[r][id] \in Seq(Slot)
<1>1. Restored \in Seq(Slot)
  BY RestoredIsHF, HFRows
<1>2. held[r][id] = Kept(r, id)
  BY DEF Following
<1>3. r \in 0 .. tp - 1 /\ tp \in Nat \ {0}
  BY Numbers
<1>4. CASE param \in {"in_proj_z", "in_proj_b", "in_proj_a", "in_proj_qkv"}
  <2> DEFINE s == IF param = "in_proj_qkv" THEN Part(id) ELSE HFOrder(param, heads)
  <2>1. s \in Seq(Slot)
    BY <1>4, LinearShares
  <2>2. PICK n \in Nat \ {0} : Len(s) = tp * n /\ \A x \in Rank : Kept(x, id) = Narrow(s, x * n, n)
    BY <1>4, LinearShares
  <2>. HIDE DEF s
  <2>3. Kept(r, id) = Narrow(s, r * n, n)
    BY <2>2, Zenon
  <2> DEFINE a == r * n
  <2>4. a \in Nat /\ a + n <= Len(s)
    BY <1>3, <2>2, SharesFit
  <2>5. Kept(r, id) = Narrow(s, a, n)
    BY <2>3
  <2>. HIDE DEF a
  <2>. QED
    BY <1>2, <2>1, <2>4, <2>5, NarrowRows
<1>5. CASE param \in RowParallel
  <2> DEFINE s == Restored
             n == Len(s) \div tp
             a == r * n
  <2>1. Kept(r, id) = IF tp > 1 /\ n > 0 THEN Narrow(s, a, n) ELSE s
    BY <1>5 DEF Kept, Share, RowParallel
  <2>2. Len(s) \in Nat
    BY <1>1
  <2>3. n \in Nat /\ tp * n <= Len(s)
    <3>1. n \in Nat /\ Len(s) = n * tp + (Len(s) % tp) /\ Len(s) % tp \in Nat
      BY <1>3, <2>2
    <3>. HIDE DEF n, s
    <3> DEFINE z == n * tp
    <3>2. z \in Nat /\ tp * n = z
      BY <1>3, <3>1
    <3>. QED
      BY <2>2, <3>1, <3>2
  <2>. HIDE DEF n, s
  <2>4. a \in Nat /\ a + n <= tp * n /\ tp * n \in Nat
    BY <1>3, <2>3, SharesFit
  <2>. HIDE DEF a
  <2>5. Narrow(s, a, n) \in Seq(Slot)
    <3>1. a + n <= Len(s) /\ s \in Seq(Slot)
      BY <1>1, <2>2, <2>3, <2>4 DEF s
    <3>. QED
      BY <2>3, <2>4, <3>1, NarrowRows
  <2>. QED
    BY <1>1, <1>2, <2>1, <2>5 DEF s
<1>6. CASE param = "qkv_proj"
  <2> DEFINE s == Slots(id, IF id = "q" THEN heads.v ELSE heads.k, heads.kdim)
  <2>1. id \in {"q", "k", "v"} /\ Arriving(id) = s
    BY <1>6 DEF ShardIds, Arriving
  <2>2. s \in Seq(Slot)
    BY <2>1, Numbers, SlotRows
  <2>3. held[r][id] \in {s} \cup {Narrow(s, EffectiveRank(id, r) * ShardSize(id), ShardSize(id))}
    BY <1>2, <1>6, <2>1 DEF Kept, QKVShare, RowParallel
  <2>4. CASE id = "q"
    <3> DEFINE n == (heads.v \div tp) * heads.kdim
               a == r * n
    <3>1. held[r][id] = Narrow(s, a, n)
      BY <1>6, <2>4, HeadsHeld
    <3>2. n \in Nat \ {0} /\ Len(s) = tp * n
      <4>1. heads.v % tp = 0 /\ heads.v \in Nat \ {0} /\ heads.kdim \in Nat \ {0}
        BY <1>6, Numbers DEF Layer, Divides
      <4>2. Shared(heads.v, tp, heads.kdim)
        BY <1>3, <4>1, Multiple
      <4>3. Len(s) = heads.v * heads.kdim
        <5>1. s = Slots("q", heads.v, heads.kdim)
          BY <2>4
        <5>2. IsHeads(Slots("q", heads.v, heads.kdim), heads.v, heads.kdim)
          BY <4>1, SlotHeads
        <5>. QED
          BY <5>1, <5>2 DEF IsHeads
      <4>. QED
        BY <4>2, <4>3 DEF Shared
    <3>. HIDE DEF n, s
    <3>3. a \in Nat /\ a + n <= tp * n
      BY <1>3, <3>2, SharesFit
    <3>. HIDE DEF a
    <3>. QED
      BY <2>2, <3>1, <3>2, <3>3, NarrowRows
  <2>5. CASE id \in {"k", "v"}
    <3> DEFINE e == r \div KVReplicas
               n == KPerRank * heads.kdim
               a == e * n
    <3>1. held[r][id] = Narrow(s, a, n)
      BY <1>6, <2>5, HeadsHeld
    <3>2. /\ KPerRank \in Nat \ {0} /\ e \in Nat /\ e * KPerRank + KPerRank <= heads.k
      <4>1. heads.v % tp = 0 /\ heads.v \in Nat \ {0}
        BY <1>6, Numbers DEF Layer, Divides
      <4>2. Shared(heads.v, tp, 1)
        BY <1>3, <4>1, Multiple
      <4>3. 0 \in 0 .. (heads.v \div tp) - 1
        BY <4>2 DEF Shared
      <4>. QED
        BY <1>6, <4>3, KHeads DEF FirstK
    <3>3. heads.kdim \in Nat \ {0} /\ heads.k \in Nat
      BY Numbers
    <3>4. Len(s) = heads.k * heads.kdim
      <4>1. id \in {"q", "k", "v", "token"} /\ s = Slots(id, heads.k, heads.kdim)
        BY <2>5
      <4>2. IsHeads(Slots(id, heads.k, heads.kdim), heads.k, heads.kdim)
        BY <3>3, <4>1, SlotHeads
      <4>. QED
        BY <4>1, <4>2 DEF IsHeads
    <3>5. n \in Nat /\ a \in Nat /\ a + n <= Len(s)
      <4> DEFINE m == KPerRank
                 d == heads.kdim
                 c == e * m
                 b == c + m
      <4>1. c \in Nat /\ b \in Nat /\ b <= heads.k
        BY <3>2
      <4>2. a = c * d /\ c * d \in Nat /\ n \in Nat
        <5>. HIDE DEF m, d, e
        <5>. QED
          BY <3>2, <3>3 DEF m, d
      <4>3. a + n = b * d
        BY <3>2, <3>3, <4>1
      <4>4. b * d <= heads.k * d
        <5>. HIDE DEF b, d
        <5>1. CASE b = heads.k
          BY <3>3, <5>1 DEF d
        <5>2. CASE b < heads.k
          <6>1. b * d + d <= heads.k * d /\ b * d \in Nat /\ heads.k * d \in Nat
            BY <3>3, <4>1, <5>2, Products DEF d
          <6>. QED
            BY <3>3, <6>1 DEF d
        <5>. QED
          BY <3>3, <4>1, <5>1, <5>2
      <4>. HIDE DEF m, c, b, n, a, s, e
      <4>. QED
        BY <3>4, <4>2, <4>3, <4>4
    <3>. HIDE DEF a, n, s
    <3>. QED
      BY <2>2, <3>1, <3>5, NarrowRows
  <2>. QED
    BY <2>1, <2>4, <2>5
<1>7. CASE param = "embed_tokens"
  <2> DEFINE s == Restored
             n == VocabEnd(r) - VocabStart(r)
             own == Narrow(s, VocabStart(r), n)
             z == [i \in 1 .. PerRank - n |-> Zero]
  <2>1. Len(s) = vocab
    <3>1. s = Slots("token", vocab, 1) /\ vocab \in Nat
      BY <1>7, RestoredIsHF, HFRows DEF HFOrder
    <3>. QED
      BY <3>1, SlotRows
  <2>2. /\ PerRank \in Nat /\ VocabStart(r) \in Nat /\ n \in Nat /\ n <= PerRank
        /\ VocabStart(r) + n <= Len(s)
    BY <1>7, <2>1, RowsOfAVocabulary
  <2>3. own \in Seq(Slot) /\ Len(own) = n
    <3>. HIDE DEF s, n
    <3>. QED
      BY <1>1, <2>2, NarrowRows DEF s
  <2>4. z \in Seq(Slot)
    <3>1. Zero \in Slot /\ PerRank - n \in Nat
      BY <2>2 DEF Zero, Slot
    <3>. QED
      BY <3>1
  <2>5. Kept(r, id) = own \o z
    BY <1>7, <2>3 DEF Kept, VocabShare, RowParallel
  <2>. HIDE DEF own, z
  <2>. QED
    BY <1>2, <2>3, <2>4, <2>5, ConcatProperties
<1>8. CASE param \in {"conv1d", "dt_bias", "A_log"}
  BY <1>1, <1>2, <1>8 DEF Kept, RowParallel
<1>. QED
  BY <1>4, <1>5, <1>6, <1>7, <1>8 DEF Layer, Params, LinearAttention, RowParallel

\* What a rank holds are slots of the tensors it loads, or zero rows.
THEOREM RowsTypeCorrect == Spec => []TypeOK
<1>1. Layer /\ Following => TypeOK
  <2> SUFFICES ASSUME Layer, Following PROVE TypeOK
    OBVIOUS
  <2>1. ASSUME format = Dense, NEW r \in Rank, NEW id \in ShardIds(param)
        PROVE  Range(held[r][id]) \subseteq Slot
    <3>1. held[r][id] \in Seq(Slot)
      BY <2>1, KeptRows, EmptySeq
    <3>. QED
      BY <3>1 DEF Range
  <2>2. vocab \in VocabSizes \cup {0}
    BY DEF Layer
  <2>. QED
    BY <2>1, <2>2 DEF TypeOK, Layer, Following
<1>. QED
  BY <1>1, FollowingAlways, PTL
===============================================================================
