----------------------------- MODULE PackedRows -----------------------------
(***************************************************************************)
(* What the ranks of a tensor-parallel model keep of the checkpoint's      *)
(* tensors: the V-head order that GGUFWeightsAdapter restores              *)
(* (weights_adapter/default.py) and the slices the loaders of              *)
(* quantization/params.py take of packed rows.                             *)
(*                                                                         *)
(* Every rank reads the file for itself and at its own pace.  A tensor is  *)
(* the sequence of its rows, or, for out_proj and down_proj, the sequence  *)
(* of the bytes of one row, along the axis that is permuted and sliced.    *)
(* Nothing raises when a slice cuts a block or a permutation takes heads   *)
(* apart: every shape stays right.                                         *)
(***************************************************************************)
EXTENDS Integers, Sequences, FiniteSets, SequencesExt

CONSTANTS
  Heads,     \* layers: [k, v : numbers of K and V heads, kdim, vdim]
  Formats,   \* of a row: [weights, bytes : of a block, prefix : bytes of a row]
  Sizes,     \* tensor-parallel sizes
  VocabSizes, PadTo   \* rows of an embedding; vLLM pads them to a multiple

ASSUME HeadsAssumption ==
  Heads \subseteq [k : Nat \ {0}, v : Nat \ {0}, kdim : Nat \ {0}, vdim : Nat \ {0}]
ASSUME FormatsAssumption ==
  Formats \subseteq [weights : Nat \ {0}, bytes : Nat \ {0}, prefix : Nat]
ASSUME SizesAssumption ==
  Sizes \subseteq Nat \ {0} /\ PadTo \in Nat \ {0} /\ VocabSizes \subseteq Nat \ {0}

\* The format of weights that are not packed.
Dense == [weights |-> 1, bytes |-> 1, prefix |-> 0]

\* The parameters of _QWEN35MOE_V_REORDER, and three of ordinary layers.
LinearAttention ==
  {"in_proj_qkv", "in_proj_z", "in_proj_b", "in_proj_a", "out_proj", "dt_bias",
   "A_log", "conv1d"}
Params == LinearAttention \cup {"qkv_proj", "down_proj", "embed_tokens"}
RowParallel == {"out_proj", "down_proj"}

VARIABLES
  param, heads, format, tp, vocab,   \* the layer, fixed
  tensor,   \* per rank: the tensor between file and parameter
  stage,    \* per rank: "file", "mapped", "raised"
  held      \* per rank: what its parameter keeps, per shard id

layer == <<param, heads, format, tp, vocab>>
vars == <<layer, tensor, stage, held>>

Rank == 0 .. tp - 1

-----------------------------------------------------------------------------
(* The tensors.  A row, or a column, is named by what it computes; V heads *)
(* are named in the order of the HF checkpoint, grouped by their K head.   *)
Slots(part, n, dim) ==
  [i \in 1 .. n * dim |-> [part |-> part, head |-> (i - 1) \div dim,
                           at |-> (i - 1) % dim]]

VPerK(h) == h.v \div h.k

\* (a, b, d) to (b, a, d): a reshape, a swap of two axes and a reshape back.
Swapped(s, a, b, d) ==
  [i \in 1 .. Len(s) |->
     LET g == (i - 1) \div d
     IN  s[((g % a) * b + (g \div a)) * d + ((i - 1) % d) + 1]]

\* conversion/qwen.py::_reorder_v_heads of llama.cpp, grouped to tiled
Tiled(s, h, d) == Swapped(s, h.k, VPerK(h), d)

HeadDim(p, h) ==
  IF p \in {"in_proj_b", "in_proj_a", "dt_bias", "A_log"} THEN 1 ELSE h.vdim

QK(h) == Slots("q", h.k, h.kdim) \o Slots("k", h.k, h.kdim)

VSlots(p, h) == Slots("v", h.v, HeadDim(p, h))

\* The rows, or columns, of the HF checkpoint.
HFOrder(p, h) ==
  CASE p \in {"in_proj_qkv", "conv1d"} -> QK(h) \o VSlots(p, h)
    [] p = "embed_tokens"              -> Slots("token", vocab, 1)
    [] OTHER                           -> VSlots(p, h)

\* The same in the order of the GGUF file.
FileOrder(p, h) ==
  LET v == IF h.k = h.v THEN VSlots(p, h) ELSE Tiled(VSlots(p, h), h, HeadDim(p, h))
  IN  CASE p \in {"in_proj_qkv", "conv1d"} -> QK(h) \o v
        [] p \in LinearAttention \ {"in_proj_qkv", "conv1d"} -> v
        [] OTHER                           -> HFOrder(p, h)

\* A packed row: its prefix, then blocks; a byte knows the columns of its block.
Packed(columns, f) ==
  [i \in 1 .. f.prefix |-> [of |-> <<>>, byte |-> i - 1]]
  \o [i \in 1 .. (Len(columns) \div f.weights) * f.bytes |->
        LET b == (i - 1) \div f.bytes
        IN  [of   |-> SubSeq(columns, b * f.weights + 1, (b + 1) * f.weights),
             byte |-> (i - 1) % f.bytes]]

Garbage == [part |-> "garbage", head |-> 0, at |-> 0]

\* What a decoder makes of the bytes of a row: the columns of the blocks it finds
\* whole, after the whole prefix.
Whole(row, first, f) ==
  /\ row[first + 1].of # <<>>
  /\ \A i \in 1 .. f.bytes : row[first + i] = [of |-> row[first + 1].of, byte |-> i - 1]

Decoded(row, f) ==
  IF \E i \in 1 .. f.prefix : i > Len(row) \/ row[i] # [of |-> <<>>, byte |-> i - 1]
  THEN <<Garbage>>
  ELSE [i \in 1 .. ((Len(row) - f.prefix) \div f.bytes) * f.weights |->
          LET first == f.prefix + ((i - 1) \div f.weights) * f.bytes
          IN  IF Whole(row, first, f)
              THEN row[first + 1].of[((i - 1) % f.weights) + 1] ELSE Garbage]

-----------------------------------------------------------------------------
(* transform_weight of the adapter.                                        *)

\* Mutant of Undone: the forward permutation once more.
UndoneForward(s, h, d) == Swapped(s, h.k, VPerK(h), d)

\* _undo_v_head_tiling
Undone(s, h, d) == Swapped(s, VPerK(h), h.k, d)

\* Bytes, or dense columns, of a head in a row of out_proj.
GroupWidth(row, h) == IF format = Dense THEN h.vdim ELSE Len(row) \div h.v

QKRows(h) == h.kdim * h.k * 2

\* Mutant of Untiled: out_proj, whose heads are columns, is forgotten.
UntiledRows(p, s, h) ==
  IF p \notin LinearAttention \ {"out_proj"} \/ h.k = h.v THEN s
  ELSE IF p \in {"in_proj_qkv", "conv1d"}
       THEN SubSeq(s, 1, QKRows(h))
            \o Undone(SubSeq(s, QKRows(h) + 1, Len(s)), h, HeadDim(p, h))
       ELSE Undone(s, h, HeadDim(p, h))

\* _maybe_undo_v_head_tiling
Untiled(p, s, h) ==
  IF p \notin LinearAttention \/ h.k = h.v THEN s
  ELSE CASE p \in {"in_proj_qkv", "conv1d"} ->
              SubSeq(s, 1, QKRows(h))
              \o Undone(SubSeq(s, QKRows(h) + 1, Len(s)), h, HeadDim(p, h))
         [] p = "out_proj" -> Undone(s, h, GroupWidth(s, h))
         [] OTHER          -> Undone(s, h, HeadDim(p, h))

\* reshape raises when a row of bytes is no multiple of the heads.
Reshapes(p, s, h) ==
  p = "out_proj" /\ h.k # h.v => Len(s) = GroupWidth(s, h) * h.v

-----------------------------------------------------------------------------
(* The slices.  vLLM divides a layer evenly over the ranks or refuses it;  *)
(* a K/V head that is the only one of several ranks is on all of them.     *)
KVReplicas == IF tp >= heads.k THEN tp \div heads.k ELSE 1

ShardSize(id) ==
  IF param = "qkv_proj"
  THEN (IF id = "q" THEN heads.v \div tp ELSE (heads.k * KVReplicas) \div tp)
       * heads.kdim
  ELSE IF id = "v" THEN (heads.v * heads.vdim) \div tp
                   ELSE (heads.k * heads.kdim) \div tp

Divides ==
  CASE param = "qkv_proj" -> /\ heads.v % tp = 0 /\ heads.v % heads.k = 0
                             /\ heads.k % tp = 0 \/ tp % heads.k = 0
    [] param = "embed_tokens" -> PadTo % tp = 0
    [] param = "down_proj"    -> (heads.v * heads.vdim) % tp = 0
    [] OTHER                  -> heads.k % tp = 0 /\ heads.v % heads.k = 0

Narrow(s, start, n) == SubSeq(s, start + 1, start + n)

\* load_column_parallel_weight and load_row_parallel_weight: an equal share
Share(s, r) ==
  LET n == Len(s) \div tp
  IN  IF tp > 1 /\ n > 0 THEN Narrow(s, r * n, n) ELSE s

\* load_merged_column_weight
MergedShare(s, id, r) ==
  LET n == ShardSize(id)
  IN  IF n > 0 /\ n < Len(s) THEN Narrow(s, r * n, n) ELSE s

\* Mutant of EffectiveRank: ranks deal the K/V heads out in turn.
EffectiveRankModulo(id, r) == IF id \in {"k", "v"} THEN r % heads.k ELSE r

EffectiveRank(id, r) == IF id \in {"k", "v"} THEN r \div KVReplicas ELSE r

\* load_qkv_weight
QKVShare(s, id, r) ==
  LET n == ShardSize(id)
  IN  IF n > 0 /\ n < Len(s) THEN Narrow(s, EffectiveRank(id, r) * n, n) ELSE s

\* shard_indices of vLLM's VocabParallelEmbedding
PerRank == (((vocab + PadTo - 1) \div PadTo) * PadTo) \div tp
VocabStart(r) == IF r * PerRank < vocab THEN r * PerRank ELSE vocab
VocabEnd(r)   == VocabStart(r + 1)

Zero == [part |-> "zero", head |-> 0, at |-> 0]

\* Mutant of VocabShare: the padding comes first.
VocabShareAtEnd(s, r) ==
  LET own == Narrow(s, VocabStart(r), VocabEnd(r) - VocabStart(r))
  IN  [i \in 1 .. PerRank - Len(own) |-> Zero] \o own

\* Mutant of VocabShare: the padding keeps what the memory held.
VocabShareUnset(s, r) ==
  LET own == Narrow(s, VocabStart(r), VocabEnd(r) - VocabStart(r))
  IN  own \o [i \in 1 .. PerRank - Len(own) |-> [part |-> "unset", head |-> 0, at |-> 0]]

\* _gguf_embedding_weight_loader
VocabShare(s, r) ==
  LET own == Narrow(s, VocabStart(r), VocabEnd(r) - VocabStart(r))
  IN  own \o [i \in 1 .. PerRank - Len(own) |-> Zero]

-----------------------------------------------------------------------------
(* The checkpoint; qkv_proj arrives as three tensors, see Source.          *)
ShardIds(p) == IF p \in {"qkv_proj", "in_proj_qkv"} THEN {"q", "k", "v"} ELSE {"all"}

Source(r, id) ==
  CASE param = "qkv_proj" ->
         Slots(id, IF id = "q" THEN heads.v ELSE heads.k, heads.kdim)
    [] param = "in_proj_qkv" ->    \* vLLM splits the tensor of a merged layer
         LET n == heads.k * heads.kdim
         IN  CASE id = "q" -> Narrow(tensor[r], 0, n)
               [] id = "k" -> Narrow(tensor[r], n, n)
               [] id = "v" -> Narrow(tensor[r], 2 * n, heads.v * heads.vdim)
    [] OTHER -> tensor[r]

Init ==
  /\ param \in Params /\ heads \in Heads /\ tp \in Sizes
  /\ vocab \in IF param = "embed_tokens" THEN VocabSizes ELSE {0}
  /\ Divides
  /\ format \in IF param \in RowParallel
                THEN {f \in Formats : (heads.v * heads.vdim) % f.weights = 0} \cup {Dense}
                ELSE {Dense}
  /\ tensor = [r \in Rank |->
       IF format = Dense THEN FileOrder(param, heads)
                         ELSE Packed(FileOrder(param, heads), format)]
  /\ stage = [r \in Rank |-> "file"]
  /\ held = [r \in Rank |-> [id \in ShardIds(param) |-> <<>>]]

\* transform_weight as far as it moves rows and bytes; the changes of values that
\* follow are Transformed of ModelLoad.
TransformWeight(r) ==
  /\ stage[r] = "file"
  /\ IF Reshapes(param, tensor[r], heads)
     THEN /\ stage' = [stage EXCEPT ![r] = "mapped"]
          /\ tensor' = [tensor EXCEPT ![r] = Untiled(param, @, heads)]
     ELSE /\ stage' = [stage EXCEPT ![r] = "raised"]
          /\ UNCHANGED tensor
  /\ UNCHANGED <<layer, held>>

\* One tensor reaches its parameter; `kept` is what the loader stores.
Store(r, id, kept) ==
  /\ stage[r] = "mapped"
  /\ held[r][id] = <<>>
  /\ held' = [held EXCEPT ![r][id] = kept]
  /\ UNCHANGED <<layer, tensor, stage>>

LoadColumn(r) ==
  /\ param \in {"in_proj_z", "in_proj_b", "in_proj_a"}
  /\ Store(r, "all", Share(tensor[r], r))

LoadRow(r) ==
  /\ param \in RowParallel
  /\ Store(r, "all", Share(tensor[r], r))

LoadMerged(r, id) ==
  /\ param = "in_proj_qkv"
  /\ Store(r, id, MergedShare(Source(r, id), id, r))

LoadQKV(r, id) ==
  /\ param = "qkv_proj"
  /\ Store(r, id, QKVShare(Source(r, id), id, r))

LoadEmbedding(r) ==
  /\ param = "embed_tokens"
  /\ Store(r, "all", VocabShare(tensor[r], r))

\* The parameters of the layer itself, sliced by vLLM.
LoadOwn(r) ==
  /\ param \in {"conv1d", "dt_bias", "A_log"}
  /\ Store(r, "all", tensor[r])

Load(r) ==
  \/ TransformWeight(r)
  \/ LoadColumn(r) \/ LoadRow(r) \/ LoadEmbedding(r) \/ LoadOwn(r)
  \/ \E id \in ShardIds(param) : LoadMerged(r, id) \/ LoadQKV(r, id)

Next == \E r \in Rank : Load(r)

Spec == Init /\ [][Next]_vars

-----------------------------------------------------------------------------
Slot == [part : {"q", "k", "v", "token", "zero", "garbage"}, head : Nat, at : Nat]

\* Type invariant: what the ranks hold are rows, or bytes of a packed row.
TypeOK ==
  /\ param \in Params /\ heads \in Heads /\ tp \in Sizes /\ vocab \in VocabSizes \cup {0}
  /\ format \in Formats \cup {Dense}
  /\ stage \in [Rank -> {"file", "mapped", "raised"}]
  /\ DOMAIN held = Rank /\ DOMAIN tensor = Rank
  /\ \A r \in Rank : DOMAIN held[r] = ShardIds(param)
  /\ format = Dense =>
       \A r \in Rank : \A id \in ShardIds(param) : Range(held[r][id]) \subseteq Slot

Loaded(id) == \A r \in Rank : held[r][id] # <<>>

\* What the ranks hold in a row, if all hold as much.
Even(id) == \A r \in Rank : Len(held[r][id]) = Len(held[0][id])
Joined(id) ==
  LET n == Len(held[0][id])
  IN  [i \in 1 .. tp * n |-> held[(i - 1) \div n][id][((i - 1) % n) + 1]]

\* The rows of a column-parallel layer of the linear attention, over the
\* ranks in order, are the rows of the HF checkpoint in the HF order: tiled V
\* heads are put back by _undo_v_head_tiling before load_column_parallel_weight
\* and load_merged_column_weight slice them, and no row is lost or kept twice.
RanksJoinToHF ==
  param \in LinearAttention \ {"out_proj"} /\ (\A id \in ShardIds(param) : Loaded(id)) =>
    LET all == IF param = "in_proj_qkv" THEN Joined("q") \o Joined("k") \o Joined("v")
               ELSE IF param \in {"conv1d", "dt_bias", "A_log"} THEN held[0]["all"]
               ELSE Joined("all")
    IN  all = HFOrder(param, heads) /\ \A id \in ShardIds(param) : Even(id)

\* load_qkv_weight with replicated K/V heads: the K and V head of a group of
\* query heads are on every rank that has a query head of the group, the
\* rank-local head i belonging to the rank-local group i.
QueryMeetsItsKey ==
  param = "qkv_proj" =>
    \A r \in Rank : held[r]["q"] # <<>> =>
      \A id \in {"k", "v"} : held[r][id] # <<>> =>
        LET d == heads.kdim
            queries == Len(held[r]["q"]) \div d
            group == queries \div (Len(held[r][id]) \div d)
        IN  \A j \in 0 .. queries - 1 :
              held[r][id][(j \div group) * d + 1].head
                = held[r]["q"][j * d + 1].head \div VPerK(heads)

\* When do the bytes a rank keeps of a row hold its columns?  When its share is
\* of whole blocks, without a prefix that only rank 0 would get; and, where
\* heads were moved as bytes, when a head is of whole blocks as well.
KeepsBlocks ==
  LET columns == heads.v * heads.vdim
  IN  /\ tp > 1 => (columns \div tp) % format.weights = 0 /\ format.prefix = 0
      /\ param = "out_proj" /\ heads.k \notin {1, heads.v} =>
           heads.vdim % format.weights = 0 /\ format.prefix = 0

InOrder(r) ==
  LET row == held[r]["all"]
      n == (heads.v * heads.vdim) \div tp
  IN  (IF format = Dense THEN row ELSE Decoded(row, format))
        = Narrow(HFOrder(param, heads), r * n, n)

\* The columns a rank decodes from its bytes of a row-parallel layer are those
\* of the features it is given, its share in the HF order, exactly when
\* KeepsBlocks: _undo_v_head_tiling and load_row_parallel_weight need no more,
\* and nothing else makes up for a cut block.
OwnColumns ==
  param \in RowParallel /\ Loaded("all") =>
    ((\A r \in Rank : InOrder(r)) <=> KeepsBlocks)

\* Every token's row is on the one rank whose range has it, at the place its
\* lookup reads, and the padding rows are zero.
TokenAtItsRow ==
  param = "embed_tokens" =>
    \A r \in Rank : held[r]["all"] # <<>> =>
      \A i \in 1 .. PerRank :
        held[r]["all"][i]
          = IF r * PerRank + i <= vocab
            THEN [part |-> "token", head |-> r * PerRank + i - 1, at |-> 0] ELSE Zero

\* What the docstring of _maybe_undo_v_head_tiling and its test say of
\* out_proj: a V head is a whole number of blocks, so the permutation of the
\* bytes of a row is one of its columns.
HeadsAreWholeBlocks ==
  param = "out_proj" /\ tp = 1 /\ format.prefix = 0 /\ Loaded("all") => InOrder(0)
=============================================================================
