----------------------------- MODULE GGUFLinear -----------------------------
(***************************************************************************)
(* One fused linear layer of a GGUF model, from create_weights to apply:   *)
(* the lazy parameters qweight and qweight_type of quantization/params.py  *)
(* and GGUFLinearMethod of quantization/linear.py.                         *)
(*                                                                         *)
(* The load loop delivers the tensors in the file's order, which is any    *)
(* order, each as its type followed by its packed weight.                  *)
(* process_weights_after_loading concatenates the shards, padded to the    *)
(* widest, and apply multiplies by the whole matrix when all shards have   *)
(* one type, by slices of it when they do not.                             *)
(*                                                                         *)
(* Shards are 0..N-1, the integers _gguf_shard_id_as_int gives them (q, k  *)
(* and v are 0, 1 and 2).  A tensor is the shard it belongs to and its     *)
(* type; a matrix is a set of rows with their positions.                   *)
(***************************************************************************)
EXTENDS Integers, Sequences, FiniteSets

CONSTANTS
  N,           \* number of shards of the layer
  Types,       \* quantization types
  F32,         \* type 0, what weight_type holds before any type arrives
  NoType,      \* no entry in shard_weight_type
  Loadable,    \* UNQUANTIZED_TYPES \cup DEQUANT_TYPES
  Servable,    \* the types _fused_mul_mat_gguf has a route for
  Width,       \* bytes of a packed row of the layer, per type
  Rows,        \* rows of each shard on this rank
  MaxReloads   \* bound: how often the weights are loaded again

Shard == 0 .. N-1

ASSUME NAssumption       == N \in Nat /\ N >= 2
ASSUME TypesAssumption   == F32 \in Types /\ Loadable \subseteq Types
                            /\ Servable \subseteq Types /\ F32 \in Loadable
                            /\ NoType \notin Types
ASSUME WidthAssumption   == Width \in [Types -> Nat \ {0}]
ASSUME RowsAssumption    == Rows \in [Shard -> Nat \ {0, 1}]
ASSUME ReloadsAssumption == MaxReloads \in Nat

Tensors == [of : Shard, type : Types]

VARIABLES
  qkv,                \* is it a qkv_proj (shard ids "q", "k", "v")?
  file,               \* the type of every shard in the checkpoint
  whole,              \* does the checkpoint hold one tensor for all shards?
  typesDue,           \* shards whose qweight_type is still to be delivered
  weightsDue,         \* shards whose qweight is still to be delivered
  reloads,            \* how often load_weights started over
  status,             \* "loading", "ready", "refused": an exception ended it
  qweight,            \* the parameter object, see Blank
  weight_type,        \* qweight_type.weight_type
  shard_weight_type,  \* qweight_type.shard_weight_type, NoType where absent
  out                 \* the last result of apply

checkpoint == <<qkv, file, whole>>
due        == <<typesDue, weightsDue>>
qtype      == <<weight_type, shard_weight_type>>
vars == <<checkpoint, due, reloads, status, qweight, qtype, out>>

-----------------------------------------------------------------------------
(* The parameter qweight.  shard_id_map gives a shard its place in         *)
(* data_container, counted from 1, and 0 when it has none; offsets is      *)
(* shard_offset_map; cols is the width of data.                            *)
NoOffset == [start |-> 0, end |-> 0, size |-> 0]
Offsets == [start : Nat, end : Nat, size : Nat]
PlacedRows == [at : Nat, of : Shard, row : Nat, type : Types]

QWeights ==
  [ data_container : Seq(Tensors),
    shard_id       : Seq(Shard),
    shard_id_map   : [Shard -> Nat],
    offsets        : [Shard -> Offsets],
    data           : SUBSET PlacedRows,
    cols           : Nat,
    uninitialized  : BOOLEAN ]

Blank ==
  [ data_container |-> <<>>,
    shard_id       |-> <<>>,
    shard_id_map   |-> [s \in Shard |-> 0],
    offsets        |-> [s \in Shard |-> NoOffset],
    data           |-> {},
    cols           |-> 0,
    uninitialized  |-> TRUE ]

\* The rows of the tensor t placed after row `start` of a matrix.
PlaceRows(t, start) ==
  { [at |-> start + r, of |-> t.of, row |-> r, type |-> t.type] :
      r \in 1 .. Rows[t.of] }

\* data_container[shard_id_map[s]]: does the index exist?
InContainer(q, s) == q.shard_id_map[s] \in 1 .. Len(q.data_container)

Held(q, s) == q.data_container[q.shard_id_map[s]]

\* Mutant of Stored: the index is the one of the entry before.
StoredAtLength(q, s, t) ==
  [q EXCEPT !.shard_id_map[s] = Len(q.data_container),
            !.data_container  = Append(@, t),
            !.shard_id        = Append(@, s)]

\* _store_gguf_loaded_weight with a shard id
Stored(q, s, t) ==
  LET new == q.shard_id_map[s] = 0
      kept == IF new
              THEN [q EXCEPT !.shard_id_map[s]  = Len(q.data_container) + 1,
                             !.data_container   = Append(@, t),
                             !.shard_id         = Append(@, s)]
              ELSE [q EXCEPT !.data_container[q.shard_id_map[s]] = t]
  IN  IF ~ q.uninitialized /\ q.data = {}
      THEN [kept EXCEPT !.data = PlaceRows(t, 0), !.cols = Width[t.type]]
      ELSE kept

-----------------------------------------------------------------------------
(* create_weights, and the checkpoint the layer is about to be loaded      *)
(* from: any type per shard, some shards missing when a file of a split    *)
(* checkpoint is missing, or one tensor that holds all of them.            *)
Init ==
  /\ qkv \in {b \in BOOLEAN : b => N = 3}
  /\ file \in [Shard -> Types \ {F32}]
  /\ whole \in BOOLEAN
  /\ \E present \in SUBSET Shard :
       /\ whole => present = Shard /\ \A s, t \in Shard : file[s] = file[t]
       /\ typesDue = present
       /\ weightsDue = present
  /\ reloads = 0
  /\ status = "loading"
  /\ qweight = Blank
  /\ weight_type = F32
  /\ shard_weight_type = [s \in Shard |-> NoType]
  /\ out = [kind |-> "none", rows |-> {}]

\* qweight_type of one shard, when no other tensor is half delivered
\* (gguf_quant_weights_iterator_multi): _store_gguf_weight_type with its id.  The
\* layer's own weight_type follows the first shard only.
LoadType(s) ==
  /\ status = "loading"
  /\ ~ whole
  /\ typesDue = weightsDue
  /\ s \in typesDue
  /\ typesDue' = typesDue \ {s}
  /\ shard_weight_type' = [shard_weight_type EXCEPT ![s] = file[s]]
  /\ weight_type' = IF {t \in Shard : shard_weight_type'[t] # NoType} = {s}
                    THEN file[s] ELSE weight_type
  /\ UNCHANGED <<checkpoint, weightsDue, reloads, status, qweight, out>>

\* Mutant of LoadWholeType: the layer's type read from the map of the shards.
LoadWholeTypeFromMap ==
  /\ status = "loading"
  /\ whole
  /\ typesDue # {}
  /\ typesDue' = {}
  /\ weight_type' = shard_weight_type[0]
  /\ UNCHANGED <<checkpoint, weightsDue, reloads, status, qweight,
                 shard_weight_type, out>>

\* qweight_type of a tensor that holds all shards: loaded_shard_id is None,
\* so _gguf_weight_type_loader_v2 stores it for the layer.
LoadWholeType ==
  /\ status = "loading"
  /\ whole
  /\ typesDue # {}
  /\ typesDue' = {}
  /\ weight_type' = file[0]
  /\ UNCHANGED <<checkpoint, weightsDue, reloads, status, qweight,
                 shard_weight_type, out>>

\* qweight of one shard.  A tensor that holds all shards is split by the
\* layer's own loader, which stores them in the order of their ids.
\* data_container[i] = ... raises IndexError when the container was emptied.
LoadWeight(s) ==
  /\ status = "loading"
  /\ s \in weightsDue \ typesDue
  /\ whole => \A t \in weightsDue : s <= t
  /\ weightsDue' = weightsDue \ {s}
  /\ IF qweight.shard_id_map[s] # 0 /\ ~ InContainer(qweight, s)
     THEN status' = "refused" /\ UNCHANGED qweight
     ELSE /\ qweight' = Stored(qweight, s, [of |-> s, type |-> file[s]])
          /\ UNCHANGED status
  /\ UNCHANGED <<checkpoint, typesDue, reloads, qtype, out>>

-----------------------------------------------------------------------------
(* _create_padded_weight_param                                             *)

\* One pair per row the shards in T write, and per row the container holds.
RowsWritten(q, T) == UNION { {t} \X (1 .. Rows[Held(q, t).of]) : t \in T }
RowsHeld(q) ==
  UNION { {i} \X (1 .. Rows[q.data_container[i].of]) :
            i \in DOMAIN q.data_container }

\* The ids of the container in the order of _gguf_ordered_shard_ids.
Ids(q) == { q.shard_id[i] : i \in DOMAIN q.shard_id }
Ascending(ids) ==
  \A i, j \in DOMAIN ids : i < j => ids[i] < ids[j]
Orders(S) ==
  { ids \in [1 .. Cardinality(S) -> S] :
      Ascending(ids) /\ S = { ids[i] : i \in DOMAIN ids } }

\* Mutant of Offset: the ids not sorted.
OffsetByArrival(q, s) ==
  Cardinality(RowsWritten(q, { t \in Ids(q) :
                                 q.shard_id_map[t] < q.shard_id_map[s] }))

\* current_offset when the loop reaches s: the rows written before it.
Offset(q, s) == Cardinality(RowsWritten(q, { t \in Ids(q) : t < s }))

OffsetOf(q, s) ==
  [ start |-> Offset(q, s),
    end   |-> Offset(q, s) + Rows[Held(q, s).of],
    size  |-> Width[Held(q, s).type] ]

\* The loop raises when an id has no tensor in the container (IndexError) or
\* when the tensors written need more rows than concat_side (a slice of the
\* wrong size).
PadRaises(q) ==
  \/ \E s \in Ids(q) : ~ InContainer(q, s)
  \/ Cardinality(RowsWritten(q, Ids(q))) > Cardinality(RowsHeld(q))

Widths(q) == { Width[q.data_container[i].type] : i \in DOMAIN q.data_container }

Padded(q, ids, padded_side) ==
  [ q EXCEPT
      !.data_container = <<>>,
      !.shard_id       = ids,
      !.offsets        = [s \in Shard |-> IF s \in Ids(q) THEN OffsetOf(q, s)
                                          ELSE NoOffset],
      !.data           = UNION { PlaceRows(Held(q, s), Offset(q, s)) :
                                   s \in Ids(q) },
      !.cols           = padded_side ]

\* process_weights_after_loading, once everything was delivered.
Process ==
  LET q == [qweight EXCEPT !.uninitialized = FALSE]
  IN  /\ status = "loading"
      /\ typesDue = {}
      /\ weightsDue = {}
      /\ \/ /\ weight_type \notin Loadable
            /\ qweight' = q
            /\ status' = "refused"
         \/ /\ weight_type \in Loadable
            /\ Len(q.data_container) <= 1
            /\ qweight' = q
            /\ status' = "ready"
         \/ /\ weight_type \in Loadable
            /\ Len(q.data_container) > 1
            /\ PadRaises(q)
            /\ qweight' = q
            /\ status' = "refused"
         \/ /\ weight_type \in Loadable
            /\ Len(q.data_container) > 1
            /\ ~ PadRaises(q)
            /\ \E ids \in Orders(Ids(q)), w \in Widths(q) :
                 /\ \A v \in Widths(q) : v <= w
                 /\ qweight' = Padded(q, ids, w)
            /\ status' = "ready"
      /\ UNCHANGED <<checkpoint, due, reloads, qtype, out>>

\* GGUFModelLoader.load_weights on a model that serves: the checkpoint, of
\* which more may be on disk by now, is delivered again into the parameters
\* as they are.
Reload ==
  /\ status = "ready"
  /\ reloads < MaxReloads
  /\ reloads' = reloads + 1
  /\ status' = "loading"
  /\ out' = [kind |-> "none", rows |-> {}]
  /\ \E present \in SUBSET Shard :
       /\ { s \in Shard : qweight.shard_id_map[s] # 0 } \subseteq present
       /\ whole => present = Shard
       /\ typesDue' = present
       /\ weightsDue' = present
  /\ UNCHANGED <<checkpoint, qweight, qtype>>

-----------------------------------------------------------------------------
(* apply                                                                   *)

\* shard_id as apply iterates it
ApplyIds ==
  IF qkv /\ 0 \in Ids(qweight) THEN <<0, 1, 2>> ELSE qweight.shard_id

\* Mutants of TypeOf: the layer's type for every shard, and no fallback.
TypeOfLayer(s) == weight_type
TypeOfShard(s) == shard_weight_type[s]

TypeOf(s) ==
  IF shard_weight_type[s] = NoType THEN weight_type ELSE shard_weight_type[s]

\* Rows start+1..end of data, `width` bytes of each, multiplied as `as`:
\* each row becomes one output feature, good when the kernel read the row
\* with the type and the width it was packed with.
Product(start, end, width, as) ==
  { [at  |-> x.at - start, of |-> x.of, row |-> x.row,
     good |-> x.type = as /\ Width[x.type] = width] :
      x \in { y \in qweight.data : start < y.at /\ y.at <= end } }

Error == [kind |-> "error", rows |-> {}]

\* One call for the whole matrix.  It raises for a type without a route and
\* for the empty tensor of a layer that was never padded.
FusedResult(as) ==
  IF as \notin Servable \/ qweight.data = {} THEN Error
  ELSE [kind |-> "rows",
        rows |-> Product(0, Cardinality(qweight.data), qweight.cols, as)]

\* Mutant of Slice: the padding of the narrow shards is not cut off.
SliceUncut(s) ==
  Product(qweight.offsets[s].start, qweight.offsets[s].end, qweight.cols, TypeOf(s))

\* One call per shard, the results concatenated.  shard_offset_map[idx]
\* raises KeyError for a shard that never arrived.
Slice(s) ==
  Product(qweight.offsets[s].start, qweight.offsets[s].end,
          qweight.offsets[s].size, TypeOf(s))
Concatenated(ids) ==
  UNION { { [x EXCEPT !.at = @ + Cardinality(UNION { {j} \X Slice(ids[j]) :
                                                       j \in 1 .. i-1 })] :
              x \in Slice(ids[i]) } :
          i \in DOMAIN ids }
ShardedResult(ids) ==
  IF \E i \in DOMAIN ids : \/ qweight.offsets[ids[i]] = NoOffset
                           \/ TypeOf(ids[i]) \notin Servable
  THEN Error
  ELSE [kind |-> "rows", rows |-> Concatenated(ids)]

Apply ==
  /\ status = "ready"
  /\ LET ids   == ApplyIds
         types == { TypeOf(ids[i]) : i \in DOMAIN ids }
     IN  \/ /\ qweight.shard_id = <<>>
            /\ out' = FusedResult(weight_type)
         \/ /\ qweight.shard_id # <<>>
            /\ \E t \in types : types = {t} /\ out' = FusedResult(t)
         \/ /\ qweight.shard_id # <<>>
            /\ Cardinality(types) > 1
            /\ out' = ShardedResult(ids)
  /\ UNCHANGED <<checkpoint, due, reloads, status, qweight, qtype>>

Next ==
  \/ \E s \in Shard : LoadType(s)
  \/ LoadWholeType
  \/ \E s \in Shard : LoadWeight(s)
  \/ Process
  \/ Reload
  \/ Apply

Spec == Init /\ [][Next]_vars

-----------------------------------------------------------------------------
(* Properties                                                              *)

\* Every variable holds a value of its kind: create_weights' attributes keep
\* their shapes through loading, padding and reloading.
TypeOK ==
  /\ qkv \in BOOLEAN
  /\ file \in [Shard -> Types]
  /\ whole \in BOOLEAN
  /\ typesDue \in SUBSET Shard
  /\ weightsDue \in SUBSET Shard
  /\ reloads \in 0 .. MaxReloads
  /\ status \in {"loading", "ready", "refused"}
  /\ weight_type \in Types
  /\ shard_weight_type \in [Shard -> Types \cup {NoType}]
  /\ qweight \in QWeights
  /\ out.kind \in {"none", "error", "rows"}

\* While the checkpoint is first loaded, a shard id leads through
\* shard_id_map to the shard's own tensor and to its own entry of shard_id,
\* two shards never to one place, and no entry is left over: the bookkeeping
\* of _store_gguf_loaded_weight for every order of arrival.
OwnPlace ==
  qweight.uninitialized =>
    /\ Len(qweight.shard_id) = Len(qweight.data_container)
    /\ \A s \in Shard :
         qweight.shard_id_map[s] # 0 =>
           /\ InContainer(qweight, s)
           /\ Held(qweight, s) = [of |-> s, type |-> file[s]]
           /\ qweight.shard_id[qweight.shard_id_map[s]] = s
    /\ \A i \in DOMAIN qweight.shard_id :
         qweight.shard_id_map[qweight.shard_id[i]] = i

\* The type apply uses for a shard whose weight and type arrived is the type
\* in the file, however the types arrived (one per shard, or one for a
\* tensor that holds all): linear.py reads shard_weight_type with weight_type
\* as the fallback, and weight_type follows only the first.
OwnType ==
  status = "ready" =>
    \A s \in Shard : qweight.shard_id_map[s] # 0 => TypeOf(s) = file[s]

\* The layout of the padded matrix is a function of the checkpoint alone:
\* whatever the order of arrival, shard s fills the rows after those of the
\* smaller ids, with its own width recorded, and the matrix is as wide as
\* the widest shard.
RowsBefore(s) == Cardinality(UNION { {t} \X (1 .. Rows[t]) : t \in 0 .. s-1 })
CanonicalLayout ==
  status = "ready" /\ (\A s \in Shard : qweight.shard_id_map[s] # 0) =>
    /\ qweight.data =
         UNION { PlaceRows([of |-> s, type |-> file[s]], RowsBefore(s)) :
                   s \in Shard }
    /\ \A s \in Shard :
         qweight.offsets[s] = [start |-> RowsBefore(s),
                               end   |-> RowsBefore(s) + Rows[s],
                               size  |-> Width[file[s]]]
    /\ \A s \in Shard : Width[file[s]] <= qweight.cols

\* What the layer answers, compared with the concatenation of its shards.
WholeOutput ==
  UNION { { [at |-> RowsBefore(s) + r, of |-> s, row |-> r, good |-> TRUE] :
              r \in 1 .. Rows[s] } : s \in Shard }
Verdict ==
  IF out.kind \in {"none", "error"} THEN out.kind
  ELSE IF out.rows = WholeOutput THEN "whole"
  ELSE IF /\ Cardinality(out.rows) < Cardinality(WholeOutput)
          /\ \A x \in out.rows : x.good THEN "short"
  ELSE "wrong"

\* apply never returns an output of the layer's full size with a row that
\* was decoded as another type, cut to another width or left in another
\* shard's place, not even when shards are missing, their types are mixed or
\* the weights were loaded into the serving layer again.
NeverWrong == Verdict # "wrong"

\* The layer implements MergedLoad: a complete layer whose types all have a
\* route answers with its whole output, any other with an error or too few
\* rows.
Promise ==
  INSTANCE MergedLoad WITH
    fit    <- \A s \in Shard : file[s] \in Servable,
    got    <- { s \in Shard : qweight.shard_id_map[s] # 0 },
    phase  <- status,
    answer <- Verdict
Implements == Promise!Spec
=============================================================================
