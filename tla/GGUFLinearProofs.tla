-------------------------- MODULE GGUFLinearProofs --------------------------
(***************************************************************************)
(* Theorems about GGUFLinear for every number of shards, every set of      *)
(* types and widths, and every order of arrival.  The last part shows that *)
(* GGUFLinear implements MergedLoad: with any number of reloads the padded *)
(* matrix has one layout, and what apply answers follows from the shards   *)
(* that arrived.                                                           *)
(***************************************************************************)
EXTENDS GGUFLinear, FiniteSetTheorems, FunctionTheorems, SequenceTheorems, TLAPS

\* Shards are finitely many, so every set of them is finite.
LEMMA ShardsFinite ==
  ASSUME NEW S \in SUBSET Shard
  PROVE  IsFiniteSet(S) /\ Cardinality(S) \in Nat
<1>1. 0 \in Int /\ N-1 \in Int
  BY NAssumption
<1>2. IsFiniteSet(Shard)
  BY <1>1, FS_Interval DEF Shard
<1>. QED
  BY <1>2, FS_Subset, FS_CardinalityType

\* A tensor has a positive number of rows; placed in a matrix they are typed.
LEMMA PlaceRowsType ==
  ASSUME NEW t \in Tensors, NEW start \in Nat
  PROVE  PlaceRows(t, start) \subseteq PlacedRows
BY RowsAssumption DEF PlaceRows, PlacedRows, Tensors, Shard

\* The offset of every shard is a natural number.
LEMMA OffsetType ==
  ASSUME NEW q \in QWeights, ~ PadRaises(q), NEW s \in Ids(q)
  PROVE  /\ Held(q, s) \in Tensors
         /\ Offset(q, s) \in Nat
         /\ OffsetOf(q, s) \in Offsets
<1>1. \A t \in Ids(q) : Held(q, t) \in Tensors
  BY DEF PadRaises, InContainer, Held, QWeights
<1> DEFINE T == { t \in Ids(q) : t < s }
           Part(t) == {t} \X (1 .. Rows[Held(q, t).of])
<1>2. Ids(q) \subseteq Shard
  BY ElementOfSeq DEF Ids, QWeights
<1>3. IsFiniteSet(T)
  BY <1>2, ShardsFinite
<1>4. \A t \in T : IsFiniteSet(Part(t))
  <2> TAKE t \in T
  <2>1. Rows[Held(q, t).of] \in Nat
    BY <1>1, RowsAssumption DEF Tensors
  <2>2. IsFiniteSet(1 .. Rows[Held(q, t).of])
    BY <2>1, FS_Interval
  <2>3. IsFiniteSet({t})
    BY FS_Singleton
  <2>. QED
    BY <2>2, <2>3, FS_Product
<1>5. IsFiniteSet({ Part(t) : t \in T })
  <2> DEFINE f == [t \in T |-> Part(t)]
  <2>1. f \in Surjection(T, { Part(t) : t \in T })
    BY Zenon DEF Surjection
  <2>. QED
    BY <1>3, <2>1, FS_Surjection
<1>6. IsFiniteSet(RowsWritten(q, T))
  BY <1>4, <1>5, FS_UNION DEF RowsWritten
<1>7. Offset(q, s) \in Nat
  BY <1>6, FS_CardinalityType DEF Offset
<1>8. Rows[Held(q, s).of] \in Nat /\ Width[Held(q, s).type] \in Nat
  BY <1>1, RowsAssumption, WidthAssumption DEF Tensors
<1>. QED
  BY <1>1, <1>7, <1>8 DEF OffsetOf, Offsets

\* _store_gguf_loaded_weight keeps the parameter's shape.
LEMMA StoredType ==
  ASSUME NEW q \in QWeights, NEW s \in Shard, NEW t \in Tensors,
         q.shard_id_map[s] = 0 \/ InContainer(q, s)
  PROVE  Stored(q, s, t) \in QWeights
<1> DEFINE new == [q EXCEPT !.shard_id_map[s] = Len(q.data_container) + 1,
                            !.data_container  = Append(@, t),
                            !.shard_id        = Append(@, s)]
           again == [q EXCEPT !.data_container[q.shard_id_map[s]] = t]
           kept == IF q.shard_id_map[s] = 0 THEN new ELSE again
<1>1. new \in QWeights
  <2>1. Len(q.data_container) + 1 \in Nat
    BY LenProperties DEF QWeights
  <2>2. Append(q.data_container, t) \in Seq(Tensors)
    BY AppendProperties DEF QWeights
  <2>3. Append(q.shard_id, s) \in Seq(Shard)
    BY AppendProperties DEF QWeights
  <2>4. [q.shard_id_map EXCEPT ![s] = Len(q.data_container) + 1] \in [Shard -> Nat]
    BY <2>1 DEF QWeights
  <2>. QED
    BY <2>2, <2>3, <2>4 DEF QWeights
<1>2. ASSUME q.shard_id_map[s] # 0
      PROVE  again \in QWeights
  <2>1. [q.data_container EXCEPT ![q.shard_id_map[s]] = t] \in Seq(Tensors)
    BY <1>2, ExceptSeq DEF QWeights, InContainer
  <2>. QED
    BY <2>1 DEF QWeights
<1>3. kept \in QWeights
  BY <1>1, <1>2
<1>4. [kept EXCEPT !.data = PlaceRows(t, 0), !.cols = Width[t.type]] \in QWeights
  <2>1. PlaceRows(t, 0) \subseteq PlacedRows
    BY PlaceRowsType
  <2>2. Width[t.type] \in Nat
    BY WidthAssumption DEF Tensors
  <2>. QED
    BY <1>3, <2>1, <2>2 DEF QWeights
<1>. QED
  BY <1>3, <1>4 DEF Stored

\* So does _create_padded_weight_param, whenever it does not raise.
LEMMA PaddedType ==
  ASSUME NEW q \in QWeights, ~ PadRaises(q),
         NEW ids \in Orders(Ids(q)), NEW w \in Widths(q)
  PROVE  Padded(q, ids, w) \in QWeights
<1>1. Ids(q) \subseteq Shard
  BY ElementOfSeq DEF Ids, QWeights
<1>2. ids \in Seq(Shard)
  <2>1. Cardinality(Ids(q)) \in Nat
    BY <1>1, ShardsFinite
  <2>2. ids \in [1 .. Cardinality(Ids(q)) -> Shard]
    BY <1>1 DEF Orders
  <2>. QED
    BY <2>1, <2>2
<1>3. w \in Nat
  <2>1. PICK i \in DOMAIN q.data_container : w = Width[q.data_container[i].type]
    BY DEF Widths
  <2>2. q.data_container[i] \in Tensors
    BY <2>1, ElementOfSeq, LenProperties DEF QWeights
  <2>. QED
    BY <2>1, <2>2, WidthAssumption DEF Tensors
<1> DEFINE offsets == [s \in Shard |-> IF s \in Ids(q) THEN OffsetOf(q, s)
                                       ELSE NoOffset]
           data == UNION { PlaceRows(Held(q, s), Offset(q, s)) : s \in Ids(q) }
<1>4. offsets \in [Shard -> Offsets]
  BY OffsetType DEF Offsets, NoOffset
<1>5. data \in SUBSET PlacedRows
  <2>1. \A s \in Ids(q) : PlaceRows(Held(q, s), Offset(q, s)) \subseteq PlacedRows
    BY OffsetType, PlaceRowsType
  <2>. QED
    BY <2>1
<1>6. <<>> \in Seq(Tensors)
  OBVIOUS
<1>. QED
  BY <1>2, <1>3, <1>4, <1>5, <1>6 DEF Padded, QWeights

-----------------------------------------------------------------------------
(* Type correctness: the attributes create_weights gave the parameters keep *)
(* their shapes through loading, padding, serving and loading again.       *)

LEMMA InitType == Init => TypeOK
BY NAssumption, TypesAssumption, ReloadsAssumption
   DEF Init, TypeOK, Blank, QWeights, Offsets, NoOffset, Shard

LEMMA ProcessType == TypeOK /\ Process => TypeOK'
<1> SUFFICES ASSUME TypeOK, Process PROVE TypeOK'
  OBVIOUS
<1> DEFINE q == [qweight EXCEPT !.uninitialized = FALSE]
<1>1. q \in QWeights
  BY DEF TypeOK, QWeights
<1>2. qweight' \in QWeights
  <2>1. \/ qweight' = q
        \/ /\ ~ PadRaises(q)
           /\ \E ids \in Orders(Ids(q)), w \in Widths(q) : qweight' = Padded(q, ids, w)
    BY Zenon DEF Process
  <2>. QED
    BY <1>1, <2>1, PaddedType
<1>3. status' \in {"loading", "ready", "refused"}
  BY Zenon DEF Process
<1>. QED
  BY <1>2, <1>3 DEF Process, TypeOK, checkpoint, due, qtype

LEMMA ApplyType == TypeOK /\ Apply => TypeOK'
<1> SUFFICES ASSUME TypeOK, Apply PROVE TypeOK'
  OBVIOUS
<1>1. out'.kind \in {"none", "error", "rows"}
  <2>1. \A t : FusedResult(t).kind \in {"none", "error", "rows"}
    BY DEF FusedResult, Error
  <2>2. \A ids : ShardedResult(ids).kind \in {"none", "error", "rows"}
    BY DEF ShardedResult, Error
  <2>3. \/ \E t : out' = FusedResult(t)
        \/ \E ids : out' = ShardedResult(ids)
    BY Zenon DEF Apply
  <2>. QED
    BY <2>1, <2>2, <2>3
<1>. QED
  BY <1>1 DEF Apply, TypeOK, checkpoint, due, qtype

LEMMA NextType == TypeOK /\ [Next]_vars => TypeOK'
<1> SUFFICES ASSUME TypeOK, [Next]_vars PROVE TypeOK'
  OBVIOUS
<1>1. ASSUME NEW s \in Shard, LoadType(s) PROVE TypeOK'
  <2>1. shard_weight_type' \in [Shard -> Types \cup {NoType}]
    BY <1>1 DEF LoadType, TypeOK
  <2>2. weight_type' \in Types
    BY <1>1 DEF LoadType, TypeOK
  <2>. QED
    BY <1>1, <2>1, <2>2 DEF LoadType, TypeOK, checkpoint
<1>2. CASE LoadWholeType
  <2>1. 0 \in Shard
    BY NAssumption DEF Shard
  <2>. QED
    BY <1>2, <2>1 DEF LoadWholeType, TypeOK, checkpoint
<1>3. ASSUME NEW s \in Shard, LoadWeight(s) PROVE TypeOK'
  <2>1. [of |-> s, type |-> file[s]] \in Tensors
    BY DEF TypeOK, Tensors
  <2>2. qweight' \in QWeights /\ status' \in {"loading", "ready", "refused"}
    <3>1. CASE qweight.shard_id_map[s] # 0 /\ ~ InContainer(qweight, s)
      BY <1>3, <3>1 DEF LoadWeight, TypeOK
    <3>2. CASE qweight.shard_id_map[s] = 0 \/ InContainer(qweight, s)
      <4>1. qweight' = Stored(qweight, s, [of |-> s, type |-> file[s]])
            /\ status' = status
        BY <1>3, <3>2 DEF LoadWeight
      <4>. QED
        BY <2>1, <3>2, <4>1, StoredType DEF TypeOK
    <3>. QED
      BY <3>1, <3>2
  <2>. QED
    BY <1>3, <2>2 DEF LoadWeight, TypeOK, checkpoint, qtype
<1>4. CASE Process
  BY <1>4, ProcessType
<1>5. CASE Reload
  BY <1>5, ReloadsAssumption DEF Reload, TypeOK, checkpoint, qtype
<1>6. CASE Apply
  BY <1>6, ApplyType
<1>7. CASE UNCHANGED vars
  BY <1>7 DEF TypeOK, vars, checkpoint, due, qtype
<1>. QED
  BY <1>1, <1>2, <1>3, <1>4, <1>5, <1>6, <1>7 DEF Next

\* The parameters of the layer keep their shapes whatever is delivered, in
\* whatever order, however often.
THEOREM TypeCorrect == Spec => []TypeOK
<1>1. Init => TypeOK
  BY InitType
<1>2. TypeOK /\ [Next]_vars => TypeOK'
  BY NextType
<1>. QED
  BY <1>1, <1>2, PTL DEF Spec

-----------------------------------------------------------------------------
(* The bookkeeping of the shards.                                          *)

\* The tensor of a shard, and the shards that have a place.
TensorOf(s) == [of |-> s, type |-> file[s]]
Got(q) == { s \in Shard : q.shard_id_map[s] # 0 }

\* What OwnPlace says of a parameter, initialized or not.
Placed(q) ==
  /\ Len(q.shard_id) = Len(q.data_container)
  /\ \A s \in Shard :
       q.shard_id_map[s] # 0 =>
         /\ InContainer(q, s)
         /\ Held(q, s) = TensorOf(s)
         /\ q.shard_id[q.shard_id_map[s]] = s
  /\ \A i \in DOMAIN q.shard_id : q.shard_id_map[q.shard_id[i]] = i

\* Storing a shard's tensor keeps every shard in its own place: a new shard
\* takes the next one, a shard that comes again its old one.
LEMMA StoredPlace ==
  ASSUME file \in [Shard -> Types], NEW q \in QWeights, Placed(q), NEW s \in Shard
  PROVE  Placed(Stored(q, s, TensorOf(s)))
<1> DEFINE t == TensorOf(s)
           map == q.shard_id_map
           box == q.data_container
           ids == q.shard_id
           r == Stored(q, s, t)
<1>1. /\ map \in [Shard -> Nat] /\ box \in Seq(Tensors) /\ ids \in Seq(Shard)
      /\ t \in Tensors /\ Len(box) \in Nat
  BY LenProperties DEF QWeights, Tensors, TensorOf
<1>3. /\ Len(ids) = Len(box)
      /\ \A u \in Shard : map[u] # 0 => /\ map[u] \in 1 .. Len(box)
                                       /\ box[map[u]] = TensorOf(u)
                                       /\ ids[map[u]] = u
      /\ \A i \in DOMAIN ids : map[ids[i]] = i
  BY DEF Placed, InContainer, Held
<1>4. CASE map[s] = 0
  <2> DEFINE map2 == [map EXCEPT ![s] = Len(box) + 1]
             box2 == Append(box, t)
             ids2 == Append(ids, s)
  <2>1. r.shard_id_map = map2 /\ r.data_container = box2 /\ r.shard_id = ids2
    BY <1>4 DEF Stored, QWeights
  <2>2. /\ Len(box2) = Len(box) + 1 /\ Len(ids2) = Len(ids) + 1
        /\ \A i \in 1 .. Len(box) : box2[i] = box[i]
        /\ box2[Len(box) + 1] = t
        /\ \A i \in 1 .. Len(ids) : ids2[i] = ids[i]
        /\ ids2[Len(ids) + 1] = s
        /\ DOMAIN ids2 = 1 .. Len(ids) + 1
        /\ DOMAIN ids = 1 .. Len(ids)
    BY <1>1, AppendProperties, LenProperties
  <2>3. map2[s] = Len(box) + 1 /\ \A u \in Shard \ {s} : map2[u] = map[u]
    BY <1>1
  <2>4. ASSUME NEW u \in Shard, map2[u] # 0
        PROVE  /\ map2[u] \in 1 .. Len(box2)
               /\ box2[map2[u]] = TensorOf(u)
               /\ ids2[map2[u]] = u
    <3> HIDE DEF map2, box2, ids2
    <3>1. CASE u = s
      BY <1>1, <1>3, <2>2, <2>3, <3>1
    <3>2. CASE u # s
      <4>1. map2[u] = map[u] /\ map[u] # 0
        BY <2>3, <2>4, <3>2
      <4>. QED
        BY <1>1, <1>3, <2>2, <4>1
    <3>. QED
      BY <3>1, <3>2
  <2>5. ASSUME NEW i \in DOMAIN ids2
        PROVE  map2[ids2[i]] = i
    <3>1. CASE i = Len(ids) + 1
      BY <1>3, <2>2, <2>3, <3>1
    <3>2. CASE i \in 1 .. Len(ids)
      <4>1. ids2[i] = ids[i] /\ ids[i] \in Shard /\ map[ids[i]] = i
        BY <1>1, <1>3, <2>2, <3>2
      <4>. QED
        BY <1>4, <2>3, <3>2, <4>1
    <3>. QED
      BY <1>1, <1>3, <2>2, <2>5, <3>1, <3>2
  <2> HIDE DEF map2, box2, ids2
  <2>6. Len(r.shard_id) = Len(r.data_container)
    BY <1>3, <2>1, <2>2
  <2>7. \A u \in Shard : r.shard_id_map[u] # 0 =>
          /\ r.shard_id_map[u] \in 1 .. Len(r.data_container)
          /\ r.data_container[r.shard_id_map[u]] = TensorOf(u)
          /\ r.shard_id[r.shard_id_map[u]] = u
    BY <2>1, <2>4
  <2>8. \A i \in DOMAIN r.shard_id : r.shard_id_map[r.shard_id[i]] = i
    BY <2>1, <2>5
  <2>. QED
    BY <2>6, <2>7, <2>8 DEF Placed, InContainer, Held
<1>5. CASE map[s] # 0
  <2>1. /\ r.shard_id_map = map
        /\ r.data_container = [box EXCEPT ![map[s]] = t]
        /\ r.shard_id = ids
    BY <1>5 DEF Stored, QWeights
  <2>2. [box EXCEPT ![map[s]] = t] = box
    BY <1>1, <1>3, <1>5
  <2>. QED
    BY <1>3, <2>1, <2>2 DEF Placed, InContainer, Held
<1>. QED
  BY <1>4, <1>5

LEMMA NextPlace == TypeOK /\ OwnPlace /\ [Next]_vars => OwnPlace'
<1> SUFFICES ASSUME TypeOK, OwnPlace, [Next]_vars PROVE OwnPlace'
  OBVIOUS
<1>1. ASSUME UNCHANGED <<qweight, file>> PROVE OwnPlace'
  BY <1>1 DEF OwnPlace, InContainer, Held
<1>2. ASSUME NEW s \in Shard, LoadType(s) PROVE OwnPlace'
  BY <1>1, <1>2 DEF LoadType, checkpoint
<1>3. CASE LoadWholeType
  BY <1>1, <1>3 DEF LoadWholeType, checkpoint
<1>4. ASSUME NEW s \in Shard, LoadWeight(s) PROVE OwnPlace'
  <2>1. file' = file
    BY <1>4 DEF LoadWeight, checkpoint
  <2>2. CASE qweight'.uninitialized
    <3>1. qweight.uninitialized /\ Placed(qweight)
      BY <1>4, <2>2 DEF LoadWeight, Stored, TypeOK, QWeights, OwnPlace, Placed, TensorOf
    <3>2. Placed(Stored(qweight, s, TensorOf(s)))
      BY <3>1, StoredPlace DEF TypeOK
    <3>3. qweight' = qweight \/ qweight' = Stored(qweight, s, TensorOf(s))
      BY <1>4 DEF LoadWeight, TensorOf
    <3>4. qweight' = Stored(qweight, s, TensorOf(s)) => OwnPlace'
      BY <2>1, <3>2 DEF OwnPlace, Placed, InContainer, Held, TensorOf
    <3>. QED
      BY <1>1, <2>1, <3>3, <3>4
  <2>3. CASE ~ qweight'.uninitialized
    BY <2>3 DEF OwnPlace
  <2>. QED
    BY <2>2, <2>3
<1>5. CASE Process
  <2>1. ~ qweight'.uninitialized
    BY <1>5 DEF Process, Padded, TypeOK, QWeights
  <2>. QED
    BY <2>1 DEF OwnPlace
<1>6. CASE Reload
  BY <1>1, <1>6 DEF Reload, checkpoint
<1>7. CASE Apply
  BY <1>1, <1>7 DEF Apply, checkpoint
<1>8. CASE UNCHANGED vars
  BY <1>1, <1>8 DEF vars, checkpoint
<1>. QED
  BY <1>2, <1>3, <1>4, <1>5, <1>6, <1>7, <1>8 DEF Next

\* For every number of shards and every order of arrival, a shard's id leads
\* to its own tensor and no two shards share a place in data_container.
THEOREM OwnPlaceAlways == Spec => []OwnPlace
<1>1. Init => OwnPlace
  BY DEF Init, OwnPlace, Blank
<1>2. TypeOK /\ OwnPlace /\ [Next]_vars => OwnPlace'
  BY NextPlace
<1>. QED
  BY <1>1, <1>2, TypeCorrect, PTL DEF Spec

-----------------------------------------------------------------------------
(* The types of the shards.  OwnType speaks of the layer that serves; what *)
(* keeps it true is what holds on the way there: the entry of a shard is   *)
(* absent or right, and the type of a shard whose weight is there, or still *)
(* to come, has arrived or is still to come.                               *)
TypesFollow ==
  /\ status = "ready" => typesDue = {}
  /\ whole =>
       /\ \A s \in Shard : file[s] = file[0] /\ shard_weight_type[s] = NoType
       /\ typesDue = {} => weight_type = file[0]
  /\ ~ whole =>
       \A s \in Shard :
         qweight.shard_id_map[s] # 0 \/ s \in weightsDue =>
           s \in typesDue \/ shard_weight_type[s] = file[s]

LEMMA InitTypes == Init => TypesFollow
<1> SUFFICES ASSUME Init PROVE TypesFollow
  OBVIOUS
<1>1. 0 \in Shard
  BY NAssumption DEF Shard
<1>. QED
  BY <1>1 DEF Init, TypesFollow, Blank

LEMMA NextTypes == TypeOK /\ TypesFollow /\ [Next]_vars => TypesFollow'
<1> SUFFICES ASSUME TypeOK, TypesFollow, [Next]_vars PROVE TypesFollow'
  OBVIOUS
<1>0. 0 \in Shard
  BY NAssumption DEF Shard
<1>1. ASSUME NEW s \in Shard, LoadType(s) PROVE TypesFollow'
  BY <1>1 DEF LoadType, TypesFollow, TypeOK, checkpoint
<1>2. CASE LoadWholeType
  BY <1>2 DEF LoadWholeType, TypesFollow, TypeOK, checkpoint
<1>3. ASSUME NEW s \in Shard, LoadWeight(s) PROVE TypesFollow'
  <2>1. \A u \in Shard : qweight'.shard_id_map[u] # 0 =>
          u = s \/ qweight.shard_id_map[u] # 0
    <3> DEFINE t == [of |-> s, type |-> file[s]]
    <3>1. qweight' = qweight \/ qweight' = Stored(qweight, s, t)
      BY <1>3 DEF LoadWeight
    <3>2. \/ Stored(qweight, s, t).shard_id_map = qweight.shard_id_map
          \/ Stored(qweight, s, t).shard_id_map
               = [qweight.shard_id_map EXCEPT ![s] = Len(qweight.data_container) + 1]
      BY DEF Stored, TypeOK, QWeights
    <3>3. qweight.shard_id_map \in [Shard -> Nat]
      BY DEF TypeOK, QWeights
    <3>. QED
      BY <3>1, <3>2, <3>3
  <2>2. status' = "ready" => FALSE
    BY <1>3 DEF LoadWeight
  <2>. QED
    BY <1>3, <2>1, <2>2 DEF LoadWeight, TypesFollow, TypeOK, checkpoint, qtype
<1>4. CASE Process
  <2>1. qweight'.shard_id_map = qweight.shard_id_map
    BY <1>4 DEF Process, Padded, TypeOK, QWeights
  <2>. QED
    BY <1>4, <2>1 DEF Process, TypesFollow, checkpoint, due, qtype
<1>5. CASE Reload
  <2>1. whole => typesDue' # {}
    BY <1>0, <1>5 DEF Reload
  <2>. QED
    BY <1>5, <2>1 DEF Reload, TypesFollow, TypeOK, checkpoint, qtype
<1>6. CASE Apply
  BY <1>6 DEF Apply, TypesFollow, checkpoint, due, qtype
<1>7. CASE UNCHANGED vars
  BY <1>7 DEF TypesFollow, vars, checkpoint, due, qtype
<1>. QED
  BY <1>1, <1>2, <1>3, <1>4, <1>5, <1>6, <1>7 DEF Next

\* For every set of types, every order of arrival and every reload, apply
\* decodes a shard as the type the file gives it.
THEOREM OwnTypeAlways == Spec => []OwnType
<1>1. Init => TypesFollow
  BY InitTypes
<1>2. TypeOK /\ TypesFollow /\ [Next]_vars => TypesFollow'
  BY NextTypes
<1>3. TypeOK /\ TypesFollow => OwnType
  BY TypesAssumption DEF TypeOK, TypesFollow, OwnType, TypeOf
<1>. QED
  BY <1>1, <1>2, <1>3, TypeCorrect, PTL DEF Spec

-----------------------------------------------------------------------------
(* Counting rows.  A row of a shard is a pair, so that rows are counted by *)
(* cardinalities and compared by injections.                               *)
RowPairs(S) == UNION { {t} \X (1 .. Rows[t]) : t \in S }
Total(S) == Cardinality(RowPairs(S))
Below(S, s) == { t \in S : t < s }

LEMMA ShardIsNat == Shard \in SUBSET Nat
BY NAssumption DEF Shard

\* Finitely many indexed copies of finite sets are a finite set.
LEMMA PairsFinite ==
  ASSUME NEW I, IsFiniteSet(I), NEW f, \A i \in I : IsFiniteSet(f[i])
  PROVE  IsFiniteSet(UNION { {i} \X f[i] : i \in I })
<1> DEFINE g == [i \in I |-> {i} \X f[i]]
<1>1. \A i \in I : IsFiniteSet({i} \X f[i])
  BY FS_Singleton, FS_Product
<1>2. g \in Surjection(I, { {i} \X f[i] : i \in I })
  BY Zenon DEF Surjection
<1>3. IsFiniteSet({ {i} \X f[i] : i \in I })
  BY <1>2, FS_Surjection
<1>. QED
  BY <1>1, <1>3, FS_UNION

LEMMA RowPairsFinite ==
  ASSUME NEW S \in SUBSET Shard
  PROVE  IsFiniteSet(RowPairs(S)) /\ Total(S) \in Nat
<1> DEFINE f == [t \in S |-> 1 .. Rows[t]]
<1>1. \A t \in S : IsFiniteSet(f[t])
  <2> TAKE t \in S
  <2>1. 1 \in Int /\ Rows[t] \in Int
    BY RowsAssumption
  <2>. QED
    BY <2>1, FS_Interval
<1>2. IsFiniteSet(S)
  BY ShardsFinite
<1>3. RowPairs(S) = UNION { {t} \X f[t] : t \in S }
  BY DEF RowPairs
<1> HIDE DEF f
<1>4. IsFiniteSet(RowPairs(S))
  BY <1>1, <1>2, <1>3, PairsFinite
<1>. QED
  BY <1>4, FS_CardinalityType DEF Total

\* A shard that is added adds its own rows.
LEMMA TotalAdd ==
  ASSUME NEW S \in SUBSET Shard, NEW s \in Shard, s \notin S
  PROVE  Total(S \cup {s}) = Total(S) + Rows[s]
<1>1. RowPairs(S \cup {s}) = RowPairs(S) \cup ({s} \X (1 .. Rows[s]))
  BY DEF RowPairs
<1>2. RowPairs(S) \cap ({s} \X (1 .. Rows[s])) = {}
  BY DEF RowPairs
<1>3. IsFiniteSet({s} \X (1 .. Rows[s])) /\ Cardinality({s} \X (1 .. Rows[s])) = Rows[s]
  <2>1. Rows[s] \in Nat \ {0, 1} /\ 1 \in Int /\ Rows[s] \in Int
    BY RowsAssumption
  <2>2. IsFiniteSet(1 .. Rows[s]) /\ Cardinality(1 .. Rows[s]) = Rows[s]
    BY <2>1, FS_Interval
  <2>3. IsFiniteSet({s}) /\ Cardinality({s}) = 1
    BY FS_Singleton
  <2>4. Cardinality({s} \X (1 .. Rows[s])) = 1 * Rows[s] /\ IsFiniteSet({s} \X (1 .. Rows[s]))
    BY <2>2, <2>3, FS_Product, Zenon
  <2>. QED
    BY <2>1, <2>4
<1>4. IsFiniteSet(RowPairs(S)) /\ Total(S) \in Nat
  BY RowPairsFinite
<1>5. Rows[s] \in Nat
  BY RowsAssumption
<1>6. Cardinality(RowPairs(S) \cup ({s} \X (1 .. Rows[s])))
        = Total(S) + Rows[s] - Cardinality({})
  BY <1>2, <1>3, <1>4, FS_Union DEF Total
<1>7. Total(S \cup {s}) = Total(S) + Rows[s] - 0
  BY <1>1, <1>6, FS_EmptySet, Zenon DEF Total
<1>. QED
  BY <1>4, <1>5, <1>7

\* More shards have more rows.
LEMMA TotalGrows ==
  ASSUME NEW T \in SUBSET Shard, NEW S \in SUBSET T
  PROVE  /\ Total(S) <= Total(T)
         /\ S # T => Total(S) < Total(T)
<1>1. RowPairs(S) \subseteq RowPairs(T) /\ IsFiniteSet(RowPairs(T))
  BY RowPairsFinite DEF RowPairs
<1>2. Total(S) \in Nat /\ Total(T) \in Nat
  BY RowPairsFinite
<1>3. ASSUME S # T PROVE RowPairs(S) # RowPairs(T)
  <2>1. PICK t \in T : t \notin S
    BY <1>3
  <2>2. <<t, 1>> \in RowPairs(T)
    BY RowsAssumption DEF RowPairs
  <2>3. <<t, 1>> \notin RowPairs(S)
    BY <2>1 DEF RowPairs
  <2>. QED
    BY <2>2, <2>3
<1>. QED
  BY <1>1, <1>2, <1>3, FS_Subset DEF Total

\* Two shards' rows lie one after the other.
LEMMA BelowApart ==
  ASSUME NEW S \in SUBSET Shard, NEW s \in S
  PROVE  /\ Total(Below(S, s)) \in Nat
         /\ Total(Below(S, s)) + Rows[s] <= Total(S)
         /\ \A t \in S : s < t => Total(Below(S, s)) + Rows[s] <= Total(Below(S, t))
<1>0. \A t \in S : t \in Nat
  BY ShardIsNat
<1>1. Below(S, s) \in SUBSET Shard /\ s \notin Below(S, s)
  <2>1. ~ (s < s)
    BY <1>0
  <2>. QED
    BY <2>1 DEF Below
<1>2. Total(Below(S, s) \cup {s}) = Total(Below(S, s)) + Rows[s]
  BY <1>1, TotalAdd
<1>3. Total(Below(S, s) \cup {s}) <= Total(S)
  BY TotalGrows DEF Below
<1>4. ASSUME NEW t \in S, s < t
      PROVE  Total(Below(S, s) \cup {s}) <= Total(Below(S, t))
  <2>1. \A u \in S : u < s => u < t
    BY <1>0, <1>4
  <2>2. (Below(S, s) \cup {s}) \in SUBSET Below(S, t) /\ Below(S, t) \in SUBSET Shard
    BY <1>4, <2>1 DEF Below
  <2>. QED
    BY <2>2, TotalGrows
<1>5. Total(Below(S, s)) \in Nat
  BY <1>1, RowPairsFinite
<1>. QED
  BY <1>2, <1>3, <1>4, <1>5

-----------------------------------------------------------------------------
(* The matrix of a set of shards, each after the smaller ones.             *)
Start(S, s) == Total(Below(S, s))
Matrix(S) == UNION { PlaceRows(TensorOf(s), Start(S, s)) : s \in S }
OffsetIn(S, s) ==
  [start |-> Start(S, s), end |-> Start(S, s) + Rows[s], size |-> Width[file[s]]]

\* The ids of a parameter are the shards it has a place for.
LEMMA PlacedIds ==
  ASSUME NEW q \in QWeights, Placed(q)
  PROVE  Ids(q) = Got(q) /\ \A s \in Got(q) : Held(q, s) = TensorOf(s)
<1>1. /\ q.shard_id_map \in [Shard -> Nat]
      /\ q.shard_id \in Seq(Shard) /\ q.data_container \in Seq(Tensors)
  BY DEF QWeights
<1>2. DOMAIN q.shard_id = 1 .. Len(q.data_container)
  BY <1>1, LenProperties DEF Placed
<1>3. ASSUME NEW i \in DOMAIN q.shard_id PROVE q.shard_id[i] \in Got(q)
  <2>1. q.shard_id[i] \in Shard /\ q.shard_id_map[q.shard_id[i]] = i
    BY <1>1, <1>3, ElementOfSeq, LenProperties DEF Placed
  <2>2. i # 0
    BY <1>2, <1>3
  <2>. QED
    BY <2>1, <2>2 DEF Got
<1>4. ASSUME NEW s \in Got(q)
      PROVE  /\ q.shard_id_map[s] \in DOMAIN q.shard_id
             /\ q.shard_id[q.shard_id_map[s]] = s
             /\ Held(q, s) = TensorOf(s)
  BY <1>2, <1>4 DEF Got, Placed, InContainer
<1>. QED
  BY <1>3, <1>4 DEF Ids

\* _create_padded_weight_param: the layout follows from the shards that arrived,
\* and the matrix is as wide as the widest of them.
LEMMA PaddedLayout ==
  ASSUME file \in [Shard -> Types], NEW q \in QWeights, Placed(q), NEW ids,
         NEW w \in Widths(q), \A v \in Widths(q) : v <= w
  PROVE  /\ Padded(q, ids, w).data = Matrix(Got(q))
         /\ Padded(q, ids, w).offsets
              = [s \in Shard |-> IF s \in Got(q) THEN OffsetIn(Got(q), s) ELSE NoOffset]
         /\ Padded(q, ids, w).cols = w
         /\ Padded(q, ids, w).shard_id = ids
         /\ Padded(q, ids, w).shard_id_map = q.shard_id_map
         /\ Padded(q, ids, w).data_container = <<>>
         /\ \E s \in Got(q) : w = Width[file[s]]
         /\ \A s \in Got(q) : Width[file[s]] <= w
<1>1. Ids(q) = Got(q) /\ \A s \in Got(q) : Held(q, s) = TensorOf(s)
  BY PlacedIds
<1>2. \A s \in Got(q) : Held(q, s).of = s /\ Held(q, s).type = file[s]
  BY <1>1 DEF TensorOf
<1>3. ASSUME NEW s \in Got(q) PROVE Offset(q, s) = Start(Got(q), s)
  <2>1. RowsWritten(q, Below(Got(q), s)) = RowPairs(Below(Got(q), s))
    BY <1>2 DEF RowsWritten, RowPairs, Below
  <2>2. { t \in Ids(q) : t < s } = Below(Got(q), s)
    BY <1>1 DEF Below
  <2>. QED
    BY <2>1, <2>2 DEF Offset, Start, Total
<1>4. ASSUME NEW s \in Got(q) PROVE OffsetOf(q, s) = OffsetIn(Got(q), s)
  BY <1>2, <1>3 DEF OffsetOf, OffsetIn
<1>5. ASSUME NEW s \in Got(q)
      PROVE  PlaceRows(Held(q, s), Offset(q, s)) = PlaceRows(TensorOf(s), Start(Got(q), s))
  BY <1>1, <1>3
<1>6. Padded(q, ids, w).data = Matrix(Got(q))
  <2>1. Padded(q, ids, w).data
          = UNION { PlaceRows(Held(q, s), Offset(q, s)) : s \in Got(q) }
    BY <1>1 DEF Padded, QWeights
  <2>. QED
    BY <2>1, <1>5 DEF Matrix
<1>7. Padded(q, ids, w).offsets
        = [s \in Shard |-> IF s \in Got(q) THEN OffsetIn(Got(q), s) ELSE NoOffset]
  BY <1>1, <1>4 DEF Padded, QWeights
<1>8. /\ Padded(q, ids, w).cols = w
      /\ Padded(q, ids, w).shard_id = ids
      /\ Padded(q, ids, w).shard_id_map = q.shard_id_map
      /\ Padded(q, ids, w).data_container = <<>>
  BY DEF Padded, QWeights
<1>9. \E s \in Got(q) : w = Width[file[s]]
  <2>1. PICK i \in DOMAIN q.data_container : w = Width[q.data_container[i].type]
    BY DEF Widths
  <2>2. i \in DOMAIN q.shard_id
    BY LenProperties DEF Placed, QWeights
  <2>3. q.shard_id[i] \in Ids(q)
    BY <2>2 DEF Ids
  <2>4. q.shard_id[i] \in Got(q) /\ q.shard_id_map[q.shard_id[i]] = i
    BY <1>1, <2>2, <2>3 DEF Placed
  <2>. QED
    BY <1>2, <2>1, <2>4 DEF Held
<1>10. ASSUME NEW s \in Got(q) PROVE Width[file[s]] <= w
  <2>1. q.shard_id_map[s] \in DOMAIN q.data_container
    BY LenProperties DEF Got, Placed, InContainer, QWeights
  <2>2. Width[q.data_container[q.shard_id_map[s]].type] \in Widths(q)
    BY <2>1 DEF Widths
  <2>. QED
    BY <1>2, <2>2 DEF Held
<1>. QED
  BY <1>6, <1>7, <1>8, <1>9, <1>10

-----------------------------------------------------------------------------
(* The layout.  Until the shards are merged the parameter holds them apart; *)
(* merged, and serving, it holds the matrix of the shards that arrived; and *)
(* a merged parameter that is loaded again never serves again, because a    *)
(* shard of before finds its place in data_container gone or taken.         *)
Merged(q) == { s \in Shard : q.offsets[s] # NoOffset }

Apart ==
  Merged(qweight) = {} =>
    /\ Placed(qweight)
    /\ \/ qweight.data = {}
       \/ \E s \in Got(qweight) : /\ qweight.data = PlaceRows(TensorOf(s), 0)
                                  /\ qweight.cols = Width[file[s]]
    /\ status = "ready" => Len(qweight.data_container) <= 1

Together ==
  Merged(qweight) # {} /\ status = "ready" =>
    /\ Merged(qweight) = Got(qweight)
    /\ \E s \in Got(qweight) : qweight.shard_id_map[s] >= 2
    /\ qweight.shard_id \in Orders(Got(qweight))
    /\ qweight.data_container = <<>>
    /\ qweight.data = Matrix(Got(qweight))
    /\ \A s \in Got(qweight) : qweight.offsets[s] = OffsetIn(Got(qweight), s)
    /\ \E s \in Got(qweight) : qweight.cols = Width[file[s]]
    /\ \A s \in Got(qweight) : Width[file[s]] <= qweight.cols

Again ==
  Merged(qweight) # {} /\ status = "loading" =>
    /\ Merged(qweight) \subseteq Got(qweight)
    /\ \A s \in Merged(qweight) : s \in weightsDue \/ InContainer(qweight, s)
    /\ \E s \in Merged(qweight) : qweight.shard_id_map[s] >= 2
    /\ Got(qweight) \subseteq Ids(qweight)
    /\ \A i \in DOMAIN qweight.data_container :
         \E s \in Got(qweight) \ Merged(qweight) : qweight.shard_id_map[s] = i
    /\ \A s \in Got(qweight) \ Merged(qweight) : InContainer(qweight, s)
    /\ qweight.data # {}

Quiet == status # "ready" => out.kind = "none"

Layout == Apart /\ Together /\ Again /\ Quiet

\* A set of shards that is not empty has a matrix with rows.
LEMMA MatrixHasRows ==
  ASSUME NEW S \in SUBSET Shard, S # {}
  PROVE  Matrix(S) # {}
<1>1. PICK s \in S : TRUE
  OBVIOUS
<1>2. 1 \in 1 .. Rows[TensorOf(s).of]
  BY RowsAssumption DEF TensorOf
<1>3. PlaceRows(TensorOf(s), Start(S, s)) # {}
  BY <1>2 DEF PlaceRows
<1>. QED
  BY <1>3 DEF Matrix

\* When shards arrive again beside new ones, more rows are to be written than
\* concat_side counts, and writing them raises.
LEMMA AgainRaises ==
  ASSUME NEW q \in QWeights, NEW M \in SUBSET Got(q), M # {},
         Got(q) \subseteq Ids(q),
         \A i \in DOMAIN q.data_container : \E s \in Got(q) \ M : q.shard_id_map[s] = i,
         \A s \in Got(q) \ M : InContainer(q, s)
  PROVE  PadRaises(q)
<1> SUFFICES ASSUME ~ PadRaises(q) PROVE FALSE
  OBVIOUS
<1> DEFINE New == Got(q) \ M
           len == [t \in Ids(q) |-> 1 .. Rows[Held(q, t).of]]
           f == [p \in RowsWritten(q, New) |-> <<q.shard_id_map[p[1]], p[2]>>]
<1>1. \A t \in Ids(q) : Rows[Held(q, t).of] \in Nat \ {0, 1}
  BY OffsetType, RowsAssumption DEF Tensors
<1>2. IsFiniteSet(RowsWritten(q, Ids(q)))
  <2>1. \A t \in Ids(q) : IsFiniteSet(len[t])
    <3> TAKE t \in Ids(q)
    <3>1. 1 \in Int /\ Rows[Held(q, t).of] \in Int
      BY <1>1
    <3>. QED
      BY <3>1, FS_Interval
  <2>2. RowsWritten(q, Ids(q)) = UNION { {t} \X len[t] : t \in Ids(q) }
    BY DEF RowsWritten
  <2>3. Ids(q) \in SUBSET Shard
    BY ElementOfSeq DEF Ids, QWeights
  <2>4. IsFiniteSet(Ids(q))
    BY <2>3, ShardsFinite
  <2> HIDE DEF len
  <2>. QED
    BY <2>1, <2>2, <2>4, PairsFinite
<1>3. New \subseteq Ids(q)
  OBVIOUS
<1>4. f \in Surjection(RowsWritten(q, New), RowsHeld(q))
  <2>1. ASSUME NEW p \in RowsWritten(q, New) PROVE f[p] \in RowsHeld(q)
    <3>1. PICK t \in New : p \in {t} \X (1 .. Rows[Held(q, t).of])
      BY DEF RowsWritten
    <3>2. q.shard_id_map[t] \in DOMAIN q.data_container
      BY <3>1, LenProperties DEF InContainer, QWeights
    <3>. QED
      BY <3>1, <3>2 DEF RowsHeld, Held
  <2>2. ASSUME NEW y \in RowsHeld(q) PROVE \E p \in RowsWritten(q, New) : f[p] = y
    <3>1. PICK i \in DOMAIN q.data_container :
                 y \in {i} \X (1 .. Rows[q.data_container[i].of])
      BY DEF RowsHeld
    <3>2. PICK s \in New : q.shard_id_map[s] = i
      OBVIOUS
    <3>3. <<s, y[2]>> \in RowsWritten(q, New)
      BY <3>1, <3>2 DEF RowsWritten, Held
    <3>. QED
      BY <3>1, <3>2, <3>3
  <2>. QED
    BY <2>1, <2>2 DEF Surjection
<1>5. RowsWritten(q, New) \in SUBSET RowsWritten(q, Ids(q))
  BY <1>3 DEF RowsWritten
<1>6. RowsWritten(q, New) # RowsWritten(q, Ids(q))
  <2>1. PICK s \in M : TRUE
    OBVIOUS
  <2>2. <<s, 1>> \in RowsWritten(q, Ids(q))
    BY <1>1, <2>1 DEF RowsWritten
  <2>3. <<s, 1>> \notin RowsWritten(q, New)
    BY <2>1 DEF RowsWritten
  <2>. QED
    BY <2>2, <2>3
<1> HIDE DEF f, New
<1>7. /\ IsFiniteSet(RowsWritten(q, New))
      /\ Cardinality(RowsWritten(q, New)) \in Nat
      /\ Cardinality(RowsWritten(q, Ids(q))) \in Nat
      /\ Cardinality(RowsWritten(q, New)) < Cardinality(RowsWritten(q, Ids(q)))
  BY <1>2, <1>5, <1>6, FS_Subset, FS_CardinalityType
<1>8. /\ Cardinality(RowsHeld(q)) <= Cardinality(RowsWritten(q, New))
      /\ Cardinality(RowsHeld(q)) \in Nat
  BY <1>4, <1>7, FS_Surjection, FS_CardinalityType
<1>. QED
  BY <1>7, <1>8 DEF PadRaises

LEMMA InitLayout == Init => Layout
<1> SUFFICES ASSUME Init PROVE Layout
  OBVIOUS
<1>1. Merged(qweight) = {} /\ qweight.data = {} /\ Placed(qweight)
  BY DEF Init, Blank, Merged, Placed
<1>. QED
  BY <1>1 DEF Init, Layout, Apart, Together, Again, Quiet

\* Steps that leave the parameter and the delivery of weights alone.
LEMMA SameLayout ==
  ASSUME Layout, UNCHANGED <<qweight, file, status, weightsDue>>,
         out' = out \/ status = "ready"
  PROVE  Layout'
<1>1. Apart'
  BY DEF Layout, Apart, Placed, TensorOf
<1>2. Together'
  <2>1. \A S : Matrix(S)' = Matrix(S)
    BY DEF Matrix, TensorOf
  <2>2. \A S, s : OffsetIn(S, s)' = OffsetIn(S, s)
    BY DEF OffsetIn
  <2>. QED
    BY <2>1, <2>2 DEF Layout, Together
<1>3. Again' /\ Quiet'
  BY DEF Layout, Again, Quiet
<1>. QED
  BY <1>1, <1>2, <1>3 DEF Layout

LEMMA StoredLayout ==
  ASSUME TypeOK, Layout, NEW s \in Shard, LoadWeight(s)
  PROVE  Layout'
<1> DEFINE q == qweight
           r == Stored(q, s, TensorOf(s))
<1>1. /\ status = "loading" /\ file' = file /\ out' = out
      /\ weightsDue' = weightsDue \ {s}
  BY DEF LoadWeight, checkpoint
<1>2. q \in QWeights /\ file \in [Shard -> Types] /\ TensorOf(s) \in Tensors
  BY DEF TypeOK, TensorOf, Tensors
<1>3. CASE q.shard_id_map[s] # 0 /\ ~ InContainer(q, s)
  <2>1. status' = "refused" /\ qweight' = qweight
    BY <1>3 DEF LoadWeight
  <2>. QED
    BY <1>1, <2>1 DEF Layout, Apart, Together, Again, Quiet, Merged, Got, Placed,
         InContainer, Held, TensorOf, PlaceRows
<1>4. CASE q.shard_id_map[s] = 0 \/ InContainer(q, s)
  <2>1. qweight' = r /\ status' = "loading"
    BY <1>1, <1>4 DEF LoadWeight, TensorOf
  <2>2. r.offsets = q.offsets
    BY DEF Stored, QWeights, TypeOK
  <2>3. Merged(r) = Merged(q)
    BY <2>2 DEF Merged
  <2>4. q.shard_id_map[s] = 0 =>
          /\ r.shard_id_map = [q.shard_id_map EXCEPT ![s] = Len(q.data_container) + 1]
          /\ r.data_container = Append(q.data_container, TensorOf(s))
          /\ r.shard_id = Append(q.shard_id, s)
    BY <1>2 DEF Stored, QWeights
  <2>5. q.shard_id_map[s] # 0 =>
          /\ r.shard_id_map = q.shard_id_map
          /\ r.data_container = [q.data_container EXCEPT ![q.shard_id_map[s]] = TensorOf(s)]
          /\ r.shard_id = q.shard_id
    BY <1>2 DEF Stored, QWeights
  <2>6. /\ q.shard_id_map \in [Shard -> Nat] /\ q.data_container \in Seq(Tensors)
        /\ q.shard_id \in Seq(Shard) /\ Len(q.data_container) \in Nat
    BY <1>2, LenProperties DEF QWeights
  <2>7. Got(r) = Got(q) \cup {s}
    BY <2>4, <2>5, <2>6 DEF Got
  <2>8. Apart'
    <3>1. SUFFICES ASSUME Merged(r) = {}
                   PROVE  /\ Placed(r)
                          /\ \/ r.data = {}
                             \/ \E u \in Got(r) : /\ r.data = PlaceRows(TensorOf(u), 0)
                                                  /\ r.cols = Width[file[u]]
      BY <1>1, <2>1 DEF Apart, Merged, Placed, Got, InContainer, Held, TensorOf, PlaceRows
    <3>2. Placed(q) /\ (\/ q.data = {}
                        \/ \E u \in Got(q) : /\ q.data = PlaceRows(TensorOf(u), 0)
                                             /\ q.cols = Width[file[u]])
      BY <2>3, <3>1 DEF Layout, Apart
    <3>3. Placed(r)
      BY <1>2, <3>2, StoredPlace
    <3>4. \/ r.data = q.data /\ r.cols = q.cols
          \/ r.data = PlaceRows(TensorOf(s), 0) /\ r.cols = Width[file[s]]
      BY <1>2 DEF Stored, QWeights, TensorOf
    <3>. QED
      BY <2>7, <3>2, <3>3, <3>4
  <2>9. Again'
    <3> DEFINE M == Merged(q)
    <3>1. SUFFICES ASSUME M # {}
          PROVE  /\ M \subseteq Got(r)
                 /\ \A u \in M : u \in weightsDue \ {s} \/ InContainer(r, u)
                 /\ \E u \in M : r.shard_id_map[u] >= 2
                 /\ Got(r) \subseteq Ids(r)
                 /\ \A i \in DOMAIN r.data_container :
                      \E u \in Got(r) \ M : r.shard_id_map[u] = i
                 /\ \A u \in Got(r) \ M : InContainer(r, u)
                 /\ r.data # {}
      BY <1>1, <2>1, <2>3 DEF Again, Merged, Got, Ids, InContainer
    <3>2. /\ M \subseteq Got(q)
          /\ \A u \in M : u \in weightsDue \/ InContainer(q, u)
          /\ \E u \in M : q.shard_id_map[u] >= 2
          /\ Got(q) \subseteq Ids(q)
          /\ \A i \in DOMAIN q.data_container : \E u \in Got(q) \ M : q.shard_id_map[u] = i
          /\ \A u \in Got(q) \ M : InContainer(q, u)
          /\ q.data # {}
      BY <1>1, <3>1 DEF Layout, Again
    <3>3. r.data # {}
      BY <1>2, <3>2 DEF Stored, QWeights
    <3>4. CASE q.shard_id_map[s] = 0
      <4>1. s \notin Got(q) /\ \A u \in Got(q) : r.shard_id_map[u] = q.shard_id_map[u]
        BY <2>4, <2>6, <3>4 DEF Got
      <4>2. /\ Len(r.data_container) = Len(q.data_container) + 1
            /\ DOMAIN r.data_container = 1 .. Len(q.data_container) + 1
            /\ DOMAIN q.data_container = 1 .. Len(q.data_container)
            /\ r.shard_id_map[s] = Len(q.data_container) + 1
        BY <1>2, <2>4, <2>6, <3>4, AppendProperties, LenProperties
      <4>3. Ids(r) = Ids(q) \cup {s}
        <5>1. /\ DOMAIN r.shard_id = 1 .. Len(q.shard_id) + 1
              /\ DOMAIN q.shard_id = 1 .. Len(q.shard_id)
              /\ r.shard_id[Len(q.shard_id) + 1] = s
              /\ \A i \in 1 .. Len(q.shard_id) : r.shard_id[i] = q.shard_id[i]
              /\ Len(q.shard_id) \in Nat
          BY <2>4, <2>6, <3>4, AppendProperties, LenProperties
        <5>2. 1 .. Len(q.shard_id) + 1 = (1 .. Len(q.shard_id)) \cup {Len(q.shard_id) + 1}
          BY <5>1
        <5>. QED
          BY <5>1, <5>2 DEF Ids
      <4>4. \A u \in Got(q) : InContainer(q, u) => InContainer(r, u)
        BY <2>6, <4>1, <4>2 DEF InContainer
      <4>5. InContainer(r, s)
        BY <2>6, <4>2 DEF InContainer
      <4>6. ASSUME NEW i \in DOMAIN r.data_container
            PROVE  \E u \in Got(r) \ M : r.shard_id_map[u] = i
        <5>1. CASE i = Len(q.data_container) + 1
          BY <2>7, <3>2, <4>1, <4>2, <5>1
        <5>2. CASE i \in DOMAIN q.data_container
          BY <2>7, <3>2, <4>1, <5>2
        <5>. QED
          BY <2>6, <4>2, <5>1, <5>2
      <4>. QED
        BY <2>7, <3>2, <3>3, <4>1, <4>3, <4>4, <4>5, <4>6
    <3>5. CASE q.shard_id_map[s] # 0
      <4>1. InContainer(q, s)
        BY <1>4, <3>5
      <4>2. r.shard_id_map = q.shard_id_map /\ Ids(r) = Ids(q) /\ Got(r) = Got(q)
        BY <2>5, <3>5 DEF Ids, Got
      <4>3. /\ DOMAIN r.data_container = DOMAIN q.data_container
            /\ Len(r.data_container) = Len(q.data_container)
        BY <1>2, <2>5, <2>6, <3>5, <4>1, ExceptSeq DEF InContainer
      <4>4. \A u \in Shard : InContainer(r, u) <=> InContainer(q, u)
        BY <4>2, <4>3 DEF InContainer
      <4>. QED
        BY <3>2, <3>3, <4>1, <4>2, <4>3, <4>4 DEF Got
    <3>. QED
      BY <3>4, <3>5
  <2>. QED
    BY <1>1, <2>1, <2>8, <2>9 DEF Layout, Together, Quiet
<1>. QED
  BY <1>3, <1>4

\* The end of loading: shards held apart are merged, and a merged parameter
\* that was loaded again raises.
LEMMA ProcessLayout ==
  ASSUME TypeOK, Layout, Process
  PROVE  Layout'
<1> DEFINE q == [qweight EXCEPT !.uninitialized = FALSE]
<1>1. /\ status = "loading" /\ weightsDue = {} /\ file' = file /\ out' = out
      /\ weightsDue' = weightsDue
  BY Zenon DEF Process, due, checkpoint
<1>2. /\ q.shard_id_map = qweight.shard_id_map /\ q.data_container = qweight.data_container
      /\ q.shard_id = qweight.shard_id /\ q.offsets = qweight.offsets
      /\ q.data = qweight.data /\ q.cols = qweight.cols /\ q \in QWeights
  BY DEF TypeOK, QWeights
<1>3. /\ Got(q) = Got(qweight) /\ Merged(q) = Merged(qweight) /\ Ids(q) = Ids(qweight)
      /\ Placed(q) <=> Placed(qweight)
      /\ \A s : InContainer(q, s) <=> InContainer(qweight, s)
  BY <1>2 DEF Got, Merged, Ids, Placed, InContainer, Held
<1>4. file \in [Shard -> Types] /\ Len(q.data_container) \in Nat
  BY <1>2, LenProperties DEF TypeOK, QWeights
<1>5. out.kind = "none"
  BY <1>1 DEF Layout, Quiet
<1>6. ASSUME qweight' = q,
             status' = "refused" \/ (status' = "ready" /\ Len(q.data_container) <= 1)
      PROVE  Layout'
  <2>1. Apart'
    BY <1>1, <1>2, <1>3, <1>6 DEF Layout, Apart, Placed, TensorOf
  <2>2. ASSUME Merged(q) # {}, status' = "ready"
        PROVE  FALSE
    <3>1. PICK s \in Merged(q) : q.shard_id_map[s] >= 2
      BY <1>1, <1>2, <1>3, <2>2 DEF Layout, Again
    <3>2. InContainer(q, s)
      BY <1>1, <1>3, <2>2, <3>1 DEF Layout, Again
    <3>. QED
      BY <1>2, <1>4, <1>6, <2>2, <3>1, <3>2 DEF InContainer, Merged, QWeights
  <2>3. Together'
    BY <1>6, <2>2 DEF Together
  <2>4. Again' /\ Quiet'
    BY <1>1, <1>5, <1>6 DEF Again, Quiet
  <2>. QED
    BY <2>1, <2>3, <2>4 DEF Layout
<1>7. ASSUME NEW ids \in Orders(Ids(q)), NEW w \in Widths(q),
             \A v \in Widths(q) : v <= w,
             qweight' = Padded(q, ids, w), status' = "ready",
             ~ PadRaises(q), Len(q.data_container) > 1
      PROVE  Layout'
  <2> DEFINE p == Padded(q, ids, w)
  <2> HIDE DEF q
  <2>1. Merged(q) = {}
    <3>1. SUFFICES ASSUME Merged(q) # {} PROVE FALSE
      OBVIOUS
    <3>2. /\ Merged(q) \in SUBSET Got(q) /\ Got(q) \subseteq Ids(q)
          /\ \A i \in DOMAIN q.data_container :
               \E s \in Got(q) \ Merged(q) : q.shard_id_map[s] = i
          /\ \A s \in Got(q) \ Merged(q) : InContainer(q, s)
      BY <1>1, <1>2, <1>3, <3>1 DEF Layout, Again
    <3>. QED
      BY <1>2, <1>7, <3>1, <3>2, AgainRaises
  <2>2. Placed(q)
    BY <1>3, <2>1 DEF Layout, Apart
  <2>3. /\ p.data = Matrix(Got(q)) /\ p.cols = w /\ p.shard_id = ids
        /\ p.offsets = [s \in Shard |-> IF s \in Got(q) THEN OffsetIn(Got(q), s) ELSE NoOffset]
        /\ p.shard_id_map = q.shard_id_map /\ p.data_container = <<>>
        /\ \E s \in Got(q) : w = Width[file[s]]
        /\ \A s \in Got(q) : Width[file[s]] <= w
    BY <1>2, <1>4, <1>7, <2>2, PaddedLayout
  <2>4. Ids(q) = Got(q) /\ Got(p) = Got(q)
    BY <1>2, <2>2, <2>3, PlacedIds DEF Got
  <2>5. Merged(p) = Got(q)
    <3>1. \A s \in Got(q) : OffsetIn(Got(q), s) # NoOffset
      BY <1>4, WidthAssumption DEF OffsetIn, NoOffset, Got
    <3>. QED
      BY <2>3, <3>1 DEF Merged, Got
  <2>6. \E s \in Got(q) : q.shard_id_map[s] >= 2
    <3>1. 2 \in DOMAIN q.shard_id
      BY <1>2, <1>4, <1>7, <2>2, LenProperties DEF Placed, QWeights
    <3>2. q.shard_id[2] \in Got(q) /\ q.shard_id_map[q.shard_id[2]] = 2
      BY <2>2, <2>4, <3>1 DEF Placed, Ids
    <3>. QED
      BY <3>2
  <2>7. /\ \A S : Matrix(S)' = Matrix(S)
        /\ \A S, s : OffsetIn(S, s)' = OffsetIn(S, s)
    BY <1>1 DEF Matrix, OffsetIn, TensorOf
  <2>. QED
    <3>1. qweight' = p
      BY <1>7
    <3>2. Merged(p) # {}
      BY <2>5, <2>6
    <3>3. Apart' /\ Again' /\ Quiet'
      BY <1>1, <1>5, <1>7, <3>1, <3>2 DEF Apart, Again, Quiet
    <3>4. /\ Merged(p) = Got(p)
          /\ \E s \in Got(p) : p.shard_id_map[s] >= 2
          /\ p.shard_id \in Orders(Got(p))
          /\ p.data_container = <<>>
          /\ p.data = Matrix(Got(p))
          /\ \A s \in Got(p) : p.offsets[s] = OffsetIn(Got(p), s)
          /\ \E s \in Got(p) : p.cols = Width[file[s]]
          /\ \A s \in Got(p) : Width[file[s]] <= p.cols
      <4>1. Got(q) \subseteq Shard
        BY DEF Got
      <4>. QED
        BY <1>7, <2>3, <2>4, <2>5, <2>6, <4>1
    <3> HIDE DEF p
    <3>5. Together'
      BY <1>1, <2>7, <3>1, <3>4 DEF Together
    <3>. QED
      BY <3>3, <3>5 DEF Layout
<1>. QED
  <2>1. \/ qweight' = q /\ status' = "refused"
        \/ qweight' = q /\ status' = "ready" /\ Len(q.data_container) <= 1
        \/ /\ Len(q.data_container) > 1
           /\ ~ PadRaises(q)
           /\ \E ids \in Orders(Ids(q)), w \in Widths(q) :
                /\ \A v \in Widths(q) : v <= w
                /\ qweight' = Padded(q, ids, w)
           /\ status' = "ready"
    BY Zenon DEF Process
  <2> HIDE DEF q
  <2>2. ASSUME /\ Len(q.data_container) > 1
               /\ ~ PadRaises(q)
               /\ \E ids \in Orders(Ids(q)), w \in Widths(q) :
                    /\ \A v \in Widths(q) : v <= w
                    /\ qweight' = Padded(q, ids, w)
               /\ status' = "ready"
        PROVE  Layout'
    <3>1. PICK ids \in Orders(Ids(q)), w \in Widths(q) :
                 /\ \A v \in Widths(q) : v <= w
                 /\ qweight' = Padded(q, ids, w)
      BY <2>2
    <3>. QED
      BY <1>7, <2>2, <3>1
  <2>. QED
    BY <1>6, <2>1, <2>2

\* Loading again leaves the shards merged and what is due covers them.
LEMMA ReloadLayout ==
  ASSUME TypeOK, Layout, Reload
  PROVE  Layout'
<1>1. /\ status = "ready" /\ status' = "loading" /\ file' = file /\ qweight' = qweight
      /\ out'.kind = "none"
      /\ Got(qweight) \subseteq weightsDue'
  BY DEF Reload, checkpoint, Got
<1>2. Apart' /\ Together' /\ Quiet'
  BY <1>1 DEF Layout, Apart, Placed, TensorOf, Together, Quiet
<1>3. Again'
  <2>1. SUFFICES ASSUME Merged(qweight) # {} PROVE Again'
    BY <1>1 DEF Again
  <2>2. /\ Merged(qweight) = Got(qweight)
        /\ \E s \in Got(qweight) : qweight.shard_id_map[s] >= 2
        /\ qweight.shard_id \in Orders(Got(qweight))
        /\ qweight.data_container = <<>>
        /\ qweight.data = Matrix(Got(qweight))
    BY <1>1, <2>1 DEF Layout, Together
  <2>3. qweight.data # {}
    BY <2>1, <2>2, MatrixHasRows DEF Got
  <2>4. Got(qweight) \subseteq Ids(qweight)
    BY <2>2 DEF Orders, Ids
  <2>5. DOMAIN qweight.data_container = {}
    BY <2>2
  <2>. QED
    BY <1>1, <2>2, <2>3, <2>4, <2>5 DEF Again
<1>. QED
  BY <1>2, <1>3 DEF Layout

LEMMA NextLayout == TypeOK /\ Layout /\ [Next]_vars => Layout'
<1> SUFFICES ASSUME TypeOK, Layout, [Next]_vars PROVE Layout'
  OBVIOUS
<1>1. ASSUME NEW s \in Shard, LoadType(s) PROVE Layout'
  BY <1>1, SameLayout DEF LoadType, checkpoint
<1>2. CASE LoadWholeType
  BY <1>2, SameLayout DEF LoadWholeType, checkpoint
<1>3. ASSUME NEW s \in Shard, LoadWeight(s) PROVE Layout'
  BY <1>3, StoredLayout
<1>4. CASE Process
  BY <1>4, ProcessLayout
<1>5. CASE Reload
  BY <1>5, ReloadLayout
<1>6. CASE Apply
  BY <1>6, SameLayout DEF Apply, checkpoint, due
<1>7. CASE UNCHANGED vars
  BY <1>7, SameLayout DEF vars, checkpoint, due
<1>. QED
  BY <1>1, <1>2, <1>3, <1>4, <1>5, <1>6, <1>7 DEF Next

LEMMA LayoutAlways == Spec => [](TypeOK /\ TypesFollow /\ Layout)
<1>1. Init => TypesFollow /\ Layout
  BY InitTypes, InitLayout
<1>2. TypeOK /\ TypesFollow /\ Layout /\ [Next]_vars => TypesFollow' /\ Layout'
  BY NextTypes, NextLayout
<1>. QED
  BY <1>1, <1>2, TypeCorrect, PTL DEF Spec

\* A layer that is not merged has at most one shard, and the ids of a parameter
\* that serves are the shards that arrived.
LEMMA ServingShards ==
  ASSUME TypeOK, Layout, status = "ready"
  PROVE  /\ Merged(qweight) = {} =>
              \A s, t \in Got(qweight) : s = t
         /\ Ids(qweight) = Got(qweight)
         /\ Got(qweight) = Shard => Merged(qweight) # {}
<1>1. qweight \in QWeights
  BY DEF TypeOK
<1>2. CASE Merged(qweight) = {}
  <2>1. Placed(qweight) /\ Len(qweight.data_container) <= 1
    BY <1>2 DEF Layout, Apart
  <2>2. ASSUME NEW s \in Got(qweight)
        PROVE  qweight.shard_id_map[s] = 1 /\ qweight.shard_id[1] = s
    <3>1. /\ qweight.shard_id_map[s] \in 1 .. Len(qweight.data_container)
          /\ qweight.shard_id[qweight.shard_id_map[s]] = s
      BY <2>1, <2>2 DEF Placed, InContainer, Got
    <3>2. Len(qweight.data_container) \in Nat
      BY <1>1, LenProperties DEF QWeights
    <3>3. qweight.shard_id_map[s] = 1
      BY <2>1, <3>1, <3>2
    <3>. QED
      BY <3>1, <3>3
  <2>3. Ids(qweight) = Got(qweight)
    BY <1>1, <2>1, PlacedIds
  <2>4. 0 \in Shard /\ 1 \in Shard
    BY NAssumption DEF Shard
  <2>. QED
    BY <1>2, <2>2, <2>3, <2>4
<1>3. CASE Merged(qweight) # {}
  <2>1. qweight.shard_id \in Orders(Got(qweight))
    BY <1>3 DEF Layout, Together
  <2>. QED
    BY <1>3, <2>1 DEF Orders, Ids
<1>. QED
  BY <1>2, <1>3

\* For every number of shards, every order of arrival and every reload, a
\* complete layer that serves has the one layout the checkpoint gives it.
THEOREM CanonicalLayoutAlways == Spec => []CanonicalLayout
<1>1. TypeOK /\ Layout => CanonicalLayout
  <2>1. SUFFICES ASSUME TypeOK, Layout, status = "ready", Got(qweight) = Shard
                 PROVE  /\ qweight.data
                             = UNION { PlaceRows(TensorOf(s), RowsBefore(s)) : s \in Shard }
                        /\ \A s \in Shard :
                             qweight.offsets[s] = [start |-> RowsBefore(s),
                                                   end   |-> RowsBefore(s) + Rows[s],
                                                   size  |-> Width[file[s]]]
                        /\ \A s \in Shard : Width[file[s]] <= qweight.cols
    BY DEF CanonicalLayout, Got, TensorOf
  <2>2. Merged(qweight) # {}
    BY <2>1, ServingShards
  <2>3. \A s \in Shard : RowsBefore(s) = Start(Shard, s)
    <3> TAKE s \in Shard
    <3>1. 0 .. s-1 = Below(Shard, s)
      BY NAssumption DEF Shard, Below
    <3>. QED
      BY <3>1 DEF RowsBefore, Start, Total, RowPairs
  <2>. QED
    BY <2>1, <2>2, <2>3 DEF Layout, Together, Matrix, OffsetIn
<1>. QED
  BY <1>1, LayoutAlways, PTL

-----------------------------------------------------------------------------
(* The answer.                                                             *)

\* The rows of one shard, and of a set of shards, each decoded as its own.
Good == TRUE
OwnRows(s) == { [at |-> r, of |-> s, row |-> r, good |-> Good] : r \in 1 .. Rows[s] }
Output(S) ==
  UNION { { [at |-> Start(S, s) + r, of |-> s, row |-> r, good |-> Good] :
              r \in 1 .. Rows[s] } : s \in S }

LEMMA OutputRow ==
  ASSUME NEW S, NEW s \in S, NEW r \in 1 .. Rows[s]
  PROVE  [at |-> Start(S, s) + r, of |-> s, row |-> r, good |-> Good] \in Output(S)
<1>1. [at |-> Start(S, s) + r, of |-> s, row |-> r, good |-> Good]
        \in { [at |-> Start(S, s) + i, of |-> s, row |-> i, good |-> Good] :
               i \in 1 .. Rows[s] }
  OBVIOUS
<1>. QED
  BY <1>1 DEF Output

\* A matrix and an output have one row for every row of their shards.
LEMMA OutputRows ==
  ASSUME NEW S \in SUBSET Shard
  PROVE  /\ Cardinality(Output(S)) = Total(S)
         /\ Cardinality(Matrix(S)) = Total(S)
<1> DEFINE o(p) == [at |-> Start(S, p[1]) + p[2], of |-> p[1], row |-> p[2], good |-> Good]
           m(p) == [at |-> Start(S, p[1]) + p[2], of |-> p[1], row |-> p[2],
                    type |-> file[p[1]]]
           fo == [p \in RowPairs(S) |-> o(p)]
           fm == [p \in RowPairs(S) |-> m(p)]
<1>1. \A p \in RowPairs(S) : p[1] \in S /\ p[2] \in 1 .. Rows[p[1]] /\ p = <<p[1], p[2]>>
  BY DEF RowPairs
<1>2. \A s \in S : \A r \in 1 .. Rows[s] : <<s, r>> \in RowPairs(S)
  BY DEF RowPairs
<1>3. fo \in Bijection(RowPairs(S), Output(S))
  <2>1. ASSUME NEW p \in RowPairs(S) PROVE o(p) \in Output(S)
    <3>1. PICK s \in S : s = p[1]
      BY <1>1
    <3>. QED
      BY <1>1, <3>1, OutputRow
  <2>2. \A y \in Output(S) : \E p \in RowPairs(S) : fo[p] = y
    <3> TAKE y \in Output(S)
    <3>1. PICK s \in S : \E r \in 1 .. Rows[s] :
                 y = [at |-> Start(S, s) + r, of |-> s, row |-> r, good |-> Good]
      BY DEF Output
    <3>. QED
      BY <1>2, <3>1
  <2>3. \A p, u \in RowPairs(S) : fo[p] = fo[u] => p = u
    <3> TAKE p, u \in RowPairs(S)
    <3>1. fo[p] = fo[u] => p[1] = u[1] /\ p[2] = u[2]
      OBVIOUS
    <3>. QED
      BY <1>1, <3>1
  <2>. QED
    BY <2>1, <2>2, <2>3 DEF Bijection, Injection, Surjection, IsInjective
<1>4. fm \in Bijection(RowPairs(S), Matrix(S))
  <2>0. \A s \in S : PlaceRows(TensorOf(s), Start(S, s))
          = { [at |-> Start(S, s) + r, of |-> s, row |-> r, type |-> file[s]] :
                r \in 1 .. Rows[s] }
    BY DEF PlaceRows, TensorOf
  <2>1. \A p \in RowPairs(S) : m(p) \in Matrix(S)
    BY <1>1, <2>0 DEF Matrix
  <2>2. \A y \in Matrix(S) : \E p \in RowPairs(S) : fm[p] = y
    <3> TAKE y \in Matrix(S)
    <3>1. PICK s \in S : \E r \in 1 .. Rows[s] :
                 y = [at |-> Start(S, s) + r, of |-> s, row |-> r, type |-> file[s]]
      BY <2>0 DEF Matrix
    <3>. QED
      BY <1>2, <3>1
  <2>3. \A p, u \in RowPairs(S) : fm[p] = fm[u] => p = u
    <3> TAKE p, u \in RowPairs(S)
    <3>1. fm[p] = fm[u] => p[1] = u[1] /\ p[2] = u[2]
      OBVIOUS
    <3>. QED
      BY <1>1, <3>1
  <2>. QED
    BY <2>1, <2>2, <2>3 DEF Bijection, Injection, Surjection, IsInjective
<1>5. IsFiniteSet(RowPairs(S))
  BY RowPairsFinite
<1> HIDE DEF fo, fm
<1>6. Cardinality(Output(S)) = Cardinality(RowPairs(S))
  BY <1>3, <1>5, FS_Bijection DEF ExistsBijection
<1>7. Cardinality(Matrix(S)) = Cardinality(RowPairs(S))
  BY <1>4, <1>5, FS_Bijection DEF ExistsBijection
<1>. QED
  BY <1>6, <1>7 DEF Total

\* Verdict of any answer.
VerdictOf(o) ==
  IF o.kind \in {"none", "error"} THEN o.kind
  ELSE IF o.rows = WholeOutput THEN "whole"
  ELSE IF /\ Cardinality(o.rows) < Cardinality(WholeOutput)
          /\ \A x \in o.rows : x.good THEN "short"
  ELSE "wrong"

\* An output of all shards is whole; of fewer shards it is too short.
LEMMA OutputVerdict ==
  ASSUME NEW S \in SUBSET Shard
  PROVE  VerdictOf([kind |-> "rows", rows |-> Output(S)])
           = IF S = Shard THEN "whole" ELSE "short"
<1>1. WholeOutput = Output(Shard)
  <2>1. \A s \in Shard : RowsBefore(s) = Start(Shard, s)
    <3> TAKE s \in Shard
    <3>1. 0 .. s-1 = Below(Shard, s)
      BY NAssumption DEF Shard, Below
    <3>. QED
      BY <3>1 DEF RowsBefore, Start, Total, RowPairs
  <2>. QED
    BY <2>1 DEF WholeOutput, Output, Good
<1>2. CASE S = Shard
  BY <1>1, <1>2 DEF VerdictOf
<1>3. CASE S # Shard
  <2>1. Cardinality(Output(S)) < Cardinality(Output(Shard))
    BY <1>3, OutputRows, TotalGrows
  <2>2. Output(S) # Output(Shard)
    <3>1. Total(S) \in Nat
      BY RowPairsFinite
    <3>. QED
      BY <2>1, <3>1, OutputRows
  <2>3. \A x \in Output(S) : x.good
    <3>1. \A x \in Output(S) : x.good = Good
      BY DEF Output
    <3>. QED
      BY <3>1 DEF Good
  <2>. QED
    BY <1>1, <1>3, <2>1, <2>2, <2>3 DEF VerdictOf
<1>. QED
  BY <1>2, <1>3

\* A row of a matrix lies after the rows of the smaller shards, inside the
\* matrix, and in no other shard's place.
LEMMA MatrixRow ==
  ASSUME NEW S \in SUBSET Shard, NEW s \in S, NEW r \in 1 .. Rows[s]
  PROVE  /\ Start(S, s) \in Nat /\ r \in Nat /\ r >= 1 /\ Rows[s] \in Nat
         /\ Start(S, s) + r <= Total(S)
         /\ \A t \in S : Start(S, t) < Start(S, s) + r /\ Start(S, s) + r <= Start(S, t) + Rows[t]
                         => t = s
<1>1. \A t \in S : t \in Nat /\ Rows[t] \in Nat
  BY ShardIsNat, RowsAssumption
<1>2. \A t \in S : /\ Start(S, t) \in Nat
                   /\ Start(S, t) + Rows[t] <= Total(S)
                   /\ \A u \in S : t < u => Start(S, t) + Rows[t] <= Start(S, u)
  BY BelowApart DEF Start
<1>3. Total(S) \in Nat
  BY RowPairsFinite
<1>4. r \in Nat /\ r >= 1 /\ r <= Rows[s]
  BY <1>1
<1>5. ASSUME NEW t \in S, Start(S, t) < Start(S, s) + r, Start(S, s) + r <= Start(S, t) + Rows[t]
      PROVE  t = s
  <2>1. CASE s < t
    BY <1>1, <1>2, <1>4, <1>5, <2>1
  <2>2. CASE t < s
    BY <1>1, <1>2, <1>4, <1>5, <2>2
  <2>. QED
    BY <1>1, <2>1, <2>2
<1>. QED
  BY <1>1, <1>2, <1>3, <1>4, <1>5

\* One call for the whole matrix decodes every row as its own when all shards
\* that arrived have the type of the call.
LEMMA WholeProduct ==
  ASSUME NEW S \in SUBSET Shard, qweight.data = Matrix(S), NEW t,
         \A s \in S : file[s] = t, qweight.cols = Width[t]
  PROVE  Product(0, Cardinality(qweight.data), qweight.cols, t) = Output(S)
<1>1. Cardinality(qweight.data) = Total(S) /\ Total(S) \in Nat
  BY OutputRows, RowPairsFinite
<1>2. \A s \in S : PlaceRows(TensorOf(s), Start(S, s))
          = { [at |-> Start(S, s) + r, of |-> s, row |-> r, type |-> t] : r \in 1 .. Rows[s] }
  BY DEF PlaceRows, TensorOf
<1>3. ASSUME NEW y \in Matrix(S)
      PROVE  /\ 0 < y.at /\ y.at <= Total(S)
             /\ [at |-> y.at - 0, of |-> y.of, row |-> y.row,
                 good |-> y.type = t /\ Width[y.type] = Width[t]] \in Output(S)
  <2>1. PICK s \in S : \E r \in 1 .. Rows[s] :
               y = [at |-> Start(S, s) + r, of |-> s, row |-> r, type |-> t]
    BY <1>2 DEF Matrix
  <2>2. PICK r \in 1 .. Rows[s] :
               y = [at |-> Start(S, s) + r, of |-> s, row |-> r, type |-> t]
    BY <2>1
  <2>3. Start(S, s) \in Nat /\ r \in Nat /\ r >= 1 /\ Start(S, s) + r <= Total(S)
    BY MatrixRow
  <2>4. y.at = Start(S, s) + r /\ y.of = s /\ y.row = r /\ y.type = t
    BY <2>2
  <2>5. [at |-> Start(S, s) + r, of |-> s, row |-> r, good |-> Good] \in Output(S)
    BY OutputRow
  <2>6. y.at - 0 = Start(S, s) + r /\ (y.type = t /\ Width[y.type] = Width[t]) = Good
    BY <2>3, <2>4 DEF Good
  <2>7. [at |-> y.at - 0, of |-> y.of, row |-> y.row,
         good |-> y.type = t /\ Width[y.type] = Width[t]]
          = [at |-> Start(S, s) + r, of |-> s, row |-> r, good |-> Good]
    BY <2>4, <2>6
  <2>. QED
    BY <1>1, <2>3, <2>4, <2>5, <2>7
<1>4. ASSUME NEW x \in Output(S)
      PROVE  \E y \in Matrix(S) :
               x = [at |-> y.at - 0, of |-> y.of, row |-> y.row,
                    good |-> y.type = t /\ Width[y.type] = Width[t]]
  <2>1. PICK s \in S : \E r \in 1 .. Rows[s] :
               x = [at |-> Start(S, s) + r, of |-> s, row |-> r, good |-> Good]
    BY DEF Output
  <2>2. PICK r \in 1 .. Rows[s] :
               x = [at |-> Start(S, s) + r, of |-> s, row |-> r, good |-> Good]
    BY <2>1
  <2> DEFINE y == [at |-> Start(S, s) + r, of |-> s, row |-> r, type |-> t]
  <2>3. y \in Matrix(S)
    BY <1>2 DEF Matrix
  <2>4. Start(S, s) \in Nat /\ r \in Nat
    BY MatrixRow
  <2>5. y.at - 0 = Start(S, s) + r /\ y.of = s /\ y.row = r
    BY <2>4
  <2>6. (y.type = t /\ Width[y.type] = Width[t]) = Good
    BY DEF Good
  <2> HIDE DEF y
  <2>. QED
    BY <2>2, <2>3, <2>5, <2>6
<1>. QED
  BY <1>1, <1>3, <1>4 DEF Product

LEMMA FusedAnswer ==
  ASSUME TypeOK, Layout, status = "ready", NEW t, \A s \in Got(qweight) : file[s] = t
  PROVE  /\ \/ FusedResult(t) = Error
            \/ FusedResult(t) = [kind |-> "rows", rows |-> Output(Got(qweight))]
         /\ Got(qweight) = Shard /\ t \in Servable => FusedResult(t) # Error
<1> DEFINE S == Got(qweight)
<1>1. S \in SUBSET Shard
  BY DEF Got
<1>2. \/ qweight.data = {} /\ S # Shard
      \/ qweight.data = Matrix(S) /\ qweight.data # {} /\ qweight.cols = Width[t]
  <2>1. CASE Merged(qweight) = {}
    <3>1. S # Shard
      BY <2>1, ServingShards
    <3>2. ASSUME NEW u \in S, qweight.data = PlaceRows(TensorOf(u), 0),
                 qweight.cols = Width[file[u]]
          PROVE  qweight.data = Matrix(S) /\ qweight.data # {} /\ qweight.cols = Width[t]
      <4>1. S = {u}
        BY <2>1, ServingShards
      <4>2. u \in Nat /\ ~ (u < u)
        <5>1. u \in Nat
          BY ShardIsNat DEF Got
        <5>. QED
          BY <5>1
      <4>3. Below(S, u) = {}
        BY <4>1, <4>2 DEF Below
      <4>4. Start(S, u) = 0
        BY <4>3, FS_EmptySet DEF Start, Total, RowPairs
      <4>5. qweight.data = Matrix(S)
        BY <3>2, <4>1, <4>4 DEF Matrix
      <4>. QED
        BY <1>1, <3>2, <4>5, MatrixHasRows
    <3>. QED
      BY <2>1, <3>1, <3>2 DEF Layout, Apart
  <2>2. CASE Merged(qweight) # {}
    <3>1. /\ S # {} /\ qweight.data = Matrix(S)
          /\ \E s \in S : qweight.cols = Width[file[s]]
      BY <2>2 DEF Layout, Together
    <3>. QED
      BY <1>1, <3>1, MatrixHasRows
  <2>. QED
    BY <2>1, <2>2
<1>3. ASSUME qweight.data = Matrix(S), qweight.cols = Width[t]
      PROVE  Product(0, Cardinality(qweight.data), qweight.cols, t) = Output(S)
  BY <1>1, <1>3, WholeProduct
<1>. QED
  BY <1>2, <1>3 DEF FusedResult, Error

LEMMA OwnTypeHolds ==
  ASSUME TypeOK, TypesFollow, status = "ready", NEW s \in Got(qweight)
  PROVE  TypeOf(s) = file[s]
BY TypesAssumption DEF TypeOK, TypesFollow, Got, TypeOf

\* One call per shard decodes the shard's rows, as its type, and no other's.
LEMMA SliceRows ==
  ASSUME TypeOK, TypesFollow, Layout, status = "ready", Merged(qweight) # {},
         NEW s \in Got(qweight)
  PROVE  Slice(s) = OwnRows(s)
<1> DEFINE S == Got(qweight)
           start == Start(S, s)
           as == file[s]
           image(y) == [at |-> y.at - start, of |-> y.of, row |-> y.row,
                        good |-> y.type = as /\ Width[y.type] = Width[as]]
<1>1. S \in SUBSET Shard
  BY DEF Got
<1>2. /\ qweight.data = Matrix(S)
      /\ qweight.offsets[s] = OffsetIn(S, s)
      /\ TypeOf(s) = as
  BY OwnTypeHolds DEF Layout, Together
<1>3. Slice(s) = { image(y) : y \in { x \in Matrix(S) : start < x.at /\ x.at <= start + Rows[s] } }
  BY <1>2 DEF Slice, Product, OffsetIn
<1>4. \A u \in S : PlaceRows(TensorOf(u), Start(S, u))
          = { [at |-> Start(S, u) + r, of |-> u, row |-> r, type |-> file[u]] :
                r \in 1 .. Rows[u] }
  BY DEF PlaceRows, TensorOf
<1>5. ASSUME NEW r \in 1 .. Rows[s], NEW y,
             y = [at |-> start + r, of |-> s, row |-> r, type |-> as]
      PROVE  /\ start < y.at /\ y.at <= start + Rows[s]
             /\ image(y) = [at |-> r, of |-> s, row |-> r, good |-> Good]
  <2>1. start \in Nat /\ r \in Nat /\ r >= 1 /\ Rows[s] \in Nat /\ r <= Rows[s]
    BY <1>1, MatrixRow
  <2>2. y.at = start + r /\ y.of = s /\ y.row = r /\ y.type = as
    BY <1>5
  <2> HIDE DEF start
  <2>3. y.at - start = r /\ start < y.at /\ y.at <= start + Rows[s]
    BY <2>1, <2>2
  <2>4. (y.type = as /\ Width[y.type] = Width[as]) = Good
    BY <2>2 DEF Good
  <2>. QED
    BY <2>2, <2>3, <2>4
<1>6. ASSUME NEW y \in Matrix(S), start < y.at, y.at <= start + Rows[s]
      PROVE  image(y) \in OwnRows(s)
  <2>1. PICK u \in S : \E r \in 1 .. Rows[u] :
               y = [at |-> Start(S, u) + r, of |-> u, row |-> r, type |-> file[u]]
    BY <1>4 DEF Matrix
  <2>2. PICK r \in 1 .. Rows[u] :
               y = [at |-> Start(S, u) + r, of |-> u, row |-> r, type |-> file[u]]
    BY <2>1
  <2>3. y.at = Start(S, u) + r
    BY <2>2
  <2>4. s = u
    <3>1. Start(S, s) < Start(S, u) + r /\ Start(S, u) + r <= Start(S, s) + Rows[s]
      BY <1>6, <2>3
    <3>2. s \in S
      OBVIOUS
    <3> HIDE DEF S
    <3>. QED
      BY <1>1, <3>1, <3>2, MatrixRow
  <2>5. image(y) = [at |-> r, of |-> s, row |-> r, good |-> Good]
    BY <1>5, <2>2, <2>4
  <2>. QED
    BY <2>4, <2>5 DEF OwnRows
<1>7. ASSUME NEW z \in OwnRows(s)
      PROVE  \E y \in Matrix(S) : start < y.at /\ y.at <= start + Rows[s] /\ z = image(y)
  <2>1. PICK r \in 1 .. Rows[s] : z = [at |-> r, of |-> s, row |-> r, good |-> Good]
    BY DEF OwnRows
  <2> DEFINE y == [at |-> start + r, of |-> s, row |-> r, type |-> as]
  <2>2. y \in Matrix(S)
    <3>1. y \in PlaceRows(TensorOf(s), Start(S, s))
      BY <1>4
    <3>. QED
      BY <3>1 DEF Matrix
  <2>3. start < y.at /\ y.at <= start + Rows[s]
        /\ image(y) = [at |-> r, of |-> s, row |-> r, good |-> Good]
    BY <1>5
  <2>. QED
    BY <2>1, <2>2, <2>3
<1> HIDE DEF image, start
<1>. QED
  BY <1>3, <1>6, <1>7

\* The shards before one in the order of the ids are the smaller ones, so that
\* the slices before it have as many rows as they.
LEMMA RowsAhead ==
  ASSUME NEW S \in SUBSET Shard, NEW ids \in Orders(S), NEW i \in DOMAIN ids,
         \A s \in S : Slice(s) = OwnRows(s)
  PROVE  Cardinality(UNION { {j} \X Slice(ids[j]) : j \in 1 .. i-1 }) = Start(S, ids[i])
<1> DEFINE U == UNION { {j} \X Slice(ids[j]) : j \in 1 .. i-1 }
           P == RowPairs(Below(S, ids[i]))
           f == [u \in U |-> <<ids[u[1]], u[2].row>>]
<1>0. Cardinality(S) \in Nat
  BY ShardsFinite
<1>1. /\ DOMAIN ids = 1 .. Cardinality(S) /\ i \in Nat
      /\ \A j \in DOMAIN ids : ids[j] \in S /\ ids[j] \in Nat
      /\ \A j, k \in DOMAIN ids : j < k => ids[j] < ids[k]
      /\ \A s \in S : \E j \in DOMAIN ids : ids[j] = s
  <2>1. ids \in [1 .. Cardinality(S) -> S]
    BY DEF Orders
  <2>2. DOMAIN ids = 1 .. Cardinality(S) /\ i \in Nat
    BY <1>0, <2>1
  <2>3. \A j \in DOMAIN ids : ids[j] \in S /\ ids[j] \in Nat
    BY <2>1, ShardIsNat
  <2>4. \A j, k \in DOMAIN ids : j < k => ids[j] < ids[k]
    BY DEF Orders, Ascending
  <2>5. \A s \in S : \E j \in DOMAIN ids : ids[j] = s
    BY DEF Orders
  <2>. QED
    BY <2>2, <2>3, <2>4, <2>5
<1>2. \A j \in 1 .. i-1 : j \in DOMAIN ids /\ j < i /\ ids[j] \in S /\ ids[j] < ids[i]
  BY <1>0, <1>1
<1>3. \A s \in S : s < ids[i] => \E j \in 1 .. i-1 : ids[j] = s
  <2> TAKE s \in S
  <2> HAVE s < ids[i]
  <2>1. PICK j \in DOMAIN ids : ids[j] = s
    BY <1>1
  <2>2. j \in Nat /\ j >= 1 /\ i \in Nat
    BY <1>0, <1>1, <2>1
  <2>3. ~ (i < j) /\ i # j
    BY <1>1, <2>1
  <2>. QED
    BY <2>1, <2>2, <2>3
<1>4. ASSUME NEW u \in U
      PROVE  /\ u[1] \in 1 .. i-1 /\ u[2].row \in 1 .. Rows[ids[u[1]]]
             /\ u = <<u[1], [at |-> u[2].row, of |-> ids[u[1]], row |-> u[2].row, good |-> Good]>>
  <2>1. PICK j \in 1 .. i-1 : u \in {j} \X OwnRows(ids[j])
    BY <1>2
  <2>2. PICK r \in 1 .. Rows[ids[j]] :
               u[2] = [at |-> r, of |-> ids[j], row |-> r, good |-> Good]
    BY <2>1 DEF OwnRows
  <2>. QED
    BY <2>1, <2>2
<1>5. f \in Bijection(U, P)
  <2>1. \A u \in U : f[u] \in P
    BY <1>2, <1>4 DEF RowPairs, Below
  <2>2. ASSUME NEW p \in P PROVE \E u \in U : f[u] = p
    <3>1. PICK s \in Below(S, ids[i]) : p \in {s} \X (1 .. Rows[s])
      BY DEF RowPairs
    <3>2. PICK j \in 1 .. i-1 : ids[j] = s
      BY <1>3, <3>1 DEF Below
    <3> DEFINE x == [at |-> p[2], of |-> s, row |-> p[2], good |-> Good]
    <3>3. x \in OwnRows(s)
      BY <3>1 DEF OwnRows
    <3>4. <<j, x>> \in U
      <4>1. x \in Slice(ids[j])
        BY <1>2, <3>2, <3>3
      <4> HIDE DEF x
      <4>. QED
        BY <4>1
    <3>5. x.row = p[2]
      OBVIOUS
    <3> HIDE DEF x, U
    <3>6. f[<<j, x>>] = <<ids[j], x.row>>
      BY <3>4
    <3>. QED
      BY <3>1, <3>2, <3>4, <3>5, <3>6
  <2>3. ASSUME NEW u \in U, NEW v \in U, f[u] = f[v] PROVE u = v
    <3>1. ids[u[1]] = ids[v[1]] /\ u[2].row = v[2].row
      BY <2>3
    <3>2. u[1] = v[1]
      <4>1. /\ u[1] \in DOMAIN ids /\ v[1] \in DOMAIN ids
            /\ u[1] \in Int /\ v[1] \in Int
        BY <1>2, <1>4
      <4>2. ~ (u[1] < v[1]) /\ ~ (v[1] < u[1])
        BY <1>1, <3>1, <4>1
      <4>. QED
        BY <4>1, <4>2
    <3>. QED
      BY <1>4, <3>1, <3>2
  <2> HIDE DEF U, P
  <2>. QED
    BY <2>1, <2>2, <2>3 DEF Bijection, Injection, Surjection, IsInjective
<1>6. IsFiniteSet(P) /\ Cardinality(P) = Start(S, ids[i])
  <2>1. Below(S, ids[i]) \in SUBSET Shard
    BY DEF Below
  <2>. QED
    BY <2>1, RowPairsFinite DEF Start, Total
<1>7. ExistsBijection(P, U)
  <2> HIDE DEF f, U, P
  <2>. QED
    BY <1>5, Fun_ExistsBijSymmetric DEF ExistsBijection
<1> HIDE DEF U, P
<1>8. Cardinality(U) = Cardinality(P)
  BY <1>6, <1>7, FS_Bijection
<1>. QED
  BY <1>6, <1>8 DEF U

LEMMA ShiftedRow ==
  ASSUME NEW a \in Nat, NEW s, NEW r, NEW g, NEW n \in Nat
  PROVE  [[at |-> a, of |-> s, row |-> r, good |-> g] EXCEPT !.at = @ + n]
           = [at |-> a + n, of |-> s, row |-> r, good |-> g]
OBVIOUS

LEMMA ConcatenatedRows ==
  ASSUME NEW S \in SUBSET Shard, NEW ids \in Orders(S), \A s \in S : Slice(s) = OwnRows(s)
  PROVE  Concatenated(ids) = Output(S)
<1> DEFINE ahead(i) == Cardinality(UNION { {j} \X Slice(ids[j]) : j \in 1 .. i-1 })
           moved(i) == { [x EXCEPT !.at = @ + ahead(i)] : x \in Slice(ids[i]) }
           part(s) == { [at |-> Start(S, s) + r, of |-> s, row |-> r, good |-> Good] :
                          r \in 1 .. Rows[s] }
<1>1. \A i \in DOMAIN ids : ids[i] \in S
  BY DEF Orders
<1>2. \A s \in S : \E i \in DOMAIN ids : ids[i] = s
  BY DEF Orders
<1>3. ASSUME NEW i \in DOMAIN ids PROVE moved(i) = part(ids[i])
  <2>1. ahead(i) = Start(S, ids[i])
    BY RowsAhead
  <2>2. Slice(ids[i]) = OwnRows(ids[i])
    BY <1>1
  <2>3. \A r \in 1 .. Rows[ids[i]] :
          /\ Start(S, ids[i]) \in Nat /\ r \in Nat
          /\ [[at |-> r, of |-> ids[i], row |-> r, good |-> Good] EXCEPT !.at = @ + Start(S, ids[i])]
               = [at |-> Start(S, ids[i]) + r, of |-> ids[i], row |-> r, good |-> Good]
    <3> TAKE r \in 1 .. Rows[ids[i]]
    <3>1. Start(S, ids[i]) \in Nat /\ r \in Nat
      BY <1>1, MatrixRow
    <3>2. r + Start(S, ids[i]) = Start(S, ids[i]) + r
      BY <3>1
    <3>3. [[at |-> r, of |-> ids[i], row |-> r, good |-> Good] EXCEPT !.at = @ + Start(S, ids[i])]
            = [at |-> r + Start(S, ids[i]), of |-> ids[i], row |-> r, good |-> Good]
      BY <3>1, ShiftedRow
    <3>. QED
      BY <3>1, <3>2, <3>3, Zenon
  <2> HIDE DEF ahead
  <2>4. moved(i) = { [x EXCEPT !.at = @ + Start(S, ids[i])] : x \in OwnRows(ids[i]) }
    BY <2>1, <2>2
  <2>5. \A r \in 1 .. Rows[ids[i]] :
          [at |-> r, of |-> ids[i], row |-> r, good |-> Good] \in OwnRows(ids[i])
    BY DEF OwnRows
  <2>6. \A x \in OwnRows(ids[i]) : \E r \in 1 .. Rows[ids[i]] :
          x = [at |-> r, of |-> ids[i], row |-> r, good |-> Good]
    BY DEF OwnRows
  <2>7. part(ids[i]) \subseteq moved(i)
    BY <2>3, <2>4, <2>5
  <2>8. ASSUME NEW z \in moved(i) PROVE z \in part(ids[i])
    <3>1. PICK x \in OwnRows(ids[i]) : z = [x EXCEPT !.at = @ + Start(S, ids[i])]
      BY <2>4
    <3>2. PICK r \in 1 .. Rows[ids[i]] :
                 x = [at |-> r, of |-> ids[i], row |-> r, good |-> Good]
      BY <2>6
    <3>3. z = [at |-> Start(S, ids[i]) + r, of |-> ids[i], row |-> r, good |-> Good]
      BY <2>3, <3>1, <3>2, Zenon
    <3>. QED
      BY <3>3
  <2>. QED
    BY <2>7, <2>8
<1>4. Concatenated(ids) = UNION { moved(i) : i \in DOMAIN ids }
  BY DEF Concatenated
<1>5. Output(S) = UNION { part(s) : s \in S }
  BY DEF Output
<1> HIDE DEF moved, part
<1>. QED
  BY <1>1, <1>2, <1>3, <1>4, <1>5

\* The ids apply goes through are shards, among them all that arrived; if there
\* are no others, they come in their order.
LEMMA ApplyIdsCover ==
  ASSUME TypeOK, Layout, qkv => N = 3, status = "ready", qweight.shard_id # <<>>
  PROVE  /\ 1 \in DOMAIN ApplyIds
         /\ \A i \in DOMAIN ApplyIds : ApplyIds[i] \in Shard
         /\ \A s \in Got(qweight) : \E i \in DOMAIN ApplyIds : ApplyIds[i] = s
         /\ Merged(qweight) # {} /\ (\A i \in DOMAIN ApplyIds : ApplyIds[i] \in Got(qweight))
              => ApplyIds \in Orders(Got(qweight))
<1>1. Ids(qweight) = Got(qweight) /\ qweight.shard_id \in Seq(Shard)
  BY ServingShards DEF TypeOK, QWeights
<1>2. CASE qkv /\ 0 \in Ids(qweight)
  <2>1. ApplyIds = <<0, 1, 2>> /\ Shard = 0 .. 2 /\ N = 3
    BY <1>2 DEF ApplyIds, Shard
  <2>2. /\ DOMAIN ApplyIds = 1 .. 3
        /\ ApplyIds[1] = 0 /\ ApplyIds[2] = 1 /\ ApplyIds[3] = 2
    BY <2>1
  <2>3. \A s \in Shard : s = 0 \/ s = 1 \/ s = 2
    BY <2>1
  <2>4. \A s \in Shard : \E i \in DOMAIN ApplyIds : ApplyIds[i] = s
    BY <2>2, <2>3
  <2>5. \A i \in DOMAIN ApplyIds : ApplyIds[i] \in Shard
    BY <2>1, <2>2
  <2>6. ASSUME \A i \in DOMAIN ApplyIds : ApplyIds[i] \in Got(qweight)
        PROVE  ApplyIds \in Orders(Got(qweight))
    <3>1. Got(qweight) = Shard
      BY <2>4, <2>6 DEF Got
    <3>2. Cardinality(Shard) = 3
      <4>1. 0 \in Int /\ 2 \in Int
        OBVIOUS
      <4>2. Cardinality(0 .. 2) = IF 0 > 2 THEN 0 ELSE 2 - 0 + 1
        BY <4>1, FS_Interval, Zenon
      <4>3. Cardinality(0 .. 2) = 3
        BY <4>2
      <4>. QED
        BY <2>1, <4>3
    <3>3. ApplyIds \in [1 .. 3 -> Shard]
      BY <2>1, <2>2, <2>5
    <3>4. \A i, j \in DOMAIN ApplyIds : i < j => ApplyIds[i] < ApplyIds[j]
      BY <2>2
    <3>. QED
      BY <2>4, <2>5, <3>1, <3>2, <3>3, <3>4 DEF Orders, Ascending
  <2>. QED
    BY <2>2, <2>4, <2>5, <2>6 DEF Got
<1>3. CASE ~ (qkv /\ 0 \in Ids(qweight))
  <2>1. ApplyIds = qweight.shard_id
    BY <1>3 DEF ApplyIds
  <2>2. 1 \in DOMAIN qweight.shard_id
    BY <1>1, LenProperties, EmptySeq
  <2>3. \A i \in DOMAIN qweight.shard_id : qweight.shard_id[i] \in Shard
    BY <1>1, ElementOfSeq, LenProperties
  <2>. QED
    BY <1>1, <2>1, <2>2, <2>3 DEF Layout, Together, Ids
<1>. QED
  BY <1>2, <1>3

\* apply answers with the rows of the shards that arrived, each decoded as its
\* own, or with an error; a complete layer with an error only for a type that
\* has no route, and then always.
Answers(o) ==
  /\ o = Error \/ o = [kind |-> "rows", rows |-> Output(Got(qweight))]
  /\ Got(qweight) = Shard => (o = Error <=> \E s \in Shard : file[s] \notin Servable)

LEMMA ApplyAnswers ==
  ASSUME TypeOK, TypesFollow, Layout, qkv => N = 3, Apply
  PROVE  Answers(out')
<1> DEFINE S == Got(qweight)
           ids == ApplyIds
<1>1. status = "ready" /\ S \in SUBSET Shard /\ 0 \in Shard
  BY NAssumption DEF Apply, Got, Shard
<1>2. \A s \in S : TypeOf(s) = file[s]
  BY <1>1, OwnTypeHolds
<1>3. ASSUME NEW t, \A s \in S : file[s] = t
      PROVE  Answers(FusedResult(t))
  <2>1. \/ FusedResult(t) = Error
        \/ FusedResult(t) = [kind |-> "rows", rows |-> Output(S)]
    BY <1>1, <1>3, FusedAnswer
  <2>2. S = Shard /\ t \in Servable => FusedResult(t) # Error
    BY <1>1, <1>3, FusedAnswer
  <2>3. t \notin Servable => FusedResult(t) = Error
    BY DEF FusedResult
  <2>4. S = Shard => (t \notin Servable <=> \E s \in Shard : file[s] \notin Servable)
    BY <1>1, <1>3
  <2>. QED
    BY <2>1, <2>2, <2>3, <2>4 DEF Answers
<1>4. ASSUME qweight.shard_id = <<>>
      PROVE  \A s \in S : file[s] = weight_type
  <2>1. S = Ids(qweight)
    BY <1>1, ServingShards
  <2>. QED
    BY <1>4, <2>1 DEF Ids
<1>5. ASSUME qweight.shard_id # <<>>
      PROVE  /\ 1 \in DOMAIN ids
             /\ \A i \in DOMAIN ids : ids[i] \in Shard
             /\ \A s \in S : \E i \in DOMAIN ids : ids[i] = s
             /\ Merged(qweight) # {} /\ (\A i \in DOMAIN ids : ids[i] \in S)
                  => ids \in Orders(S)
  BY <1>1, <1>5, ApplyIdsCover
<1> HIDE DEF ids
<1>6. ASSUME qweight.shard_id # <<>>, NEW t, { TypeOf(ids[i]) : i \in DOMAIN ids } = {t}
      PROVE  \A s \in S : file[s] = t
  <2> TAKE s \in S
  <2>1. PICK i \in DOMAIN ids : ids[i] = s
    BY <1>5, <1>6
  <2>2. TypeOf(ids[i]) \in { TypeOf(ids[j]) : j \in DOMAIN ids }
    OBVIOUS
  <2>3. TypeOf(ids[i]) = t
    BY <1>6, <2>2
  <2>. QED
    BY <1>2, <2>1, <2>3
<1>7. ASSUME qweight.shard_id # <<>>
      PROVE  Answers(ShardedResult(ids))
  <2>1. CASE Merged(qweight) = {}
    <3>1. qweight.offsets[ids[1]] = NoOffset /\ 1 \in DOMAIN ids
      BY <1>5, <1>7, <2>1 DEF Merged
    <3>2. S # Shard
      BY <1>1, <2>1, ServingShards
    <3>. QED
      BY <3>1, <3>2 DEF ShardedResult, Answers
  <2>2. CASE Merged(qweight) # {}
    <3>1. Merged(qweight) = S
      BY <1>1, <2>2 DEF Layout, Together
    <3>2. \A i \in DOMAIN ids : qweight.offsets[ids[i]] # NoOffset <=> ids[i] \in S
      BY <1>5, <1>7, <3>1 DEF Merged
    <3>3. CASE \E i \in DOMAIN ids : ids[i] \notin S
      <4>1. S # Shard
        BY <1>5, <1>7, <3>3
      <4>2. ShardedResult(ids) = Error
        BY <3>2, <3>3 DEF ShardedResult
      <4>. QED
        BY <4>1, <4>2 DEF Answers
    <3>4. CASE \A i \in DOMAIN ids : ids[i] \in S
      <4>1. \A s \in S : Slice(s) = OwnRows(s)
        BY <1>1, <2>2, SliceRows
      <4>2. ids \in Orders(S)
        BY <1>5, <1>7, <2>2, <3>4
      <4>3. Concatenated(ids) = Output(S)
        BY <1>1, <4>1, <4>2, ConcatenatedRows
      <4>4. (\E i \in DOMAIN ids : TypeOf(ids[i]) \notin Servable)
              <=> \E s \in S : file[s] \notin Servable
        BY <1>2, <1>5, <1>7, <3>4
      <4>5. ShardedResult(ids) = IF \E s \in S : file[s] \notin Servable THEN Error
                                 ELSE [kind |-> "rows", rows |-> Output(S)]
        BY <3>2, <3>4, <4>3, <4>4 DEF ShardedResult
      <4>6. Error # [kind |-> "rows", rows |-> Output(S)]
        BY DEF Error
      <4>. QED
        BY <4>5, <4>6 DEF Answers
    <3>. QED
      BY <3>3, <3>4
  <2>. QED
    BY <2>1, <2>2
<1>8. \/ qweight.shard_id = <<>> /\ out' = FusedResult(weight_type)
      \/ /\ qweight.shard_id # <<>>
         /\ \E t : { TypeOf(ids[i]) : i \in DOMAIN ids } = {t} /\ out' = FusedResult(t)
      \/ qweight.shard_id # <<>> /\ out' = ShardedResult(ids)
  BY DEF Apply, ids
<1>. QED
  <2>1. CASE qweight.shard_id = <<>>
    BY <1>3, <1>4, <1>8, <2>1
  <2>2. ASSUME qweight.shard_id # <<>>, NEW t,
               { TypeOf(ids[i]) : i \in DOMAIN ids } = {t}, out' = FusedResult(t)
        PROVE  Answers(out')
    BY <1>3, <1>6, <2>2
  <2>3. CASE qweight.shard_id # <<>> /\ out' = ShardedResult(ids)
    BY <1>7, <2>3
  <2>. QED
    BY <1>8, <2>1, <2>2, <2>3

-----------------------------------------------------------------------------
(* Answers are right, and GGUFLinear is a MergedLoad.                      *)

\* What a serving layer last answered is what its shards determine.
Answered ==
  /\ qkv => N = 3
  /\ status = "ready" => out.kind = "none" \/ Answers(out)

LEMMA NextAnswered ==
  TypeOK /\ TypesFollow /\ Layout /\ Answered /\ [Next]_vars => Answered'
<1> SUFFICES ASSUME TypeOK, TypesFollow, Layout, Answered, [Next]_vars PROVE Answered'
  OBVIOUS
<1>1. ASSUME status = "loading", qkv' = qkv, out' = out PROVE Answered'
  BY <1>1 DEF Layout, Quiet, Answered
<1>2. ASSUME NEW s \in Shard, LoadType(s) PROVE Answered'
  BY <1>1, <1>2 DEF LoadType, checkpoint
<1>3. CASE LoadWholeType
  BY <1>1, <1>3 DEF LoadWholeType, checkpoint
<1>4. ASSUME NEW s \in Shard, LoadWeight(s) PROVE Answered'
  BY <1>1, <1>4 DEF LoadWeight, checkpoint
<1>5. CASE Process
  BY <1>1, <1>5 DEF Process, checkpoint
<1>6. CASE Reload
  BY <1>6 DEF Reload, checkpoint, Answered
<1>7. CASE Apply
  <2>1. Answers(out')
    BY <1>7, ApplyAnswers DEF Answered
  <2>2. qkv' = qkv /\ file' = file /\ qweight' = qweight
    BY <1>7 DEF Apply, checkpoint
  <2>3. Answers(out)'
    <3>1. Got(qweight)' = Got(qweight)
      BY <2>2
    <3>. QED
      BY <2>1, <2>2, <3>1 DEF Answers
  <2>. QED
    BY <2>2, <2>3 DEF Answered
<1>8. CASE UNCHANGED vars
  <2>1. /\ qkv' = qkv /\ file' = file /\ qweight' = qweight
        /\ status' = status /\ out' = out
    BY <1>8 DEF vars, checkpoint
  <2>2. Answers(out)' <=> Answers(out)
    <3>1. Got(qweight)' = Got(qweight)
      BY <2>1
    <3>. QED
      BY <2>1, <3>1 DEF Answers
  <2>. QED
    BY <2>1, <2>2 DEF Answered
<1>. QED
  BY <1>2, <1>3, <1>4, <1>5, <1>6, <1>7, <1>8 DEF Next

LEMMA AnsweredAlways == Spec => [](TypeOK /\ TypesFollow /\ Layout /\ Answered)
<1>1. Init => Answered
  BY DEF Init, Answered
<1>2. TypeOK /\ TypesFollow /\ Layout /\ Answered /\ [Next]_vars => Answered'
  BY NextAnswered
<1>. QED
  BY <1>1, <1>2, LayoutAlways, PTL DEF Spec

\* The verdict on an answer follows from the shards that arrived and the types
\* in the file.
LEMMA AnswerVerdict ==
  ASSUME NEW o, Answers(o)
  PROVE  VerdictOf(o) \in IF /\ Got(qweight) = Shard
                             /\ \A s \in Shard : file[s] \in Servable
                          THEN {"whole"} ELSE {"short", "error"}
<1>1. Got(qweight) \in SUBSET Shard
  BY DEF Got
<1>2. CASE o = Error
  <2>1. VerdictOf(o) = "error"
    BY <1>2 DEF VerdictOf, Error
  <2>2. ~ (Got(qweight) = Shard /\ \A s \in Shard : file[s] \in Servable)
    BY <1>2 DEF Answers
  <2>. QED
    BY <2>1, <2>2
<1>3. CASE o # Error
  <2>1. o = [kind |-> "rows", rows |-> Output(Got(qweight))]
    BY <1>3 DEF Answers
  <2>2. VerdictOf(o) = IF Got(qweight) = Shard THEN "whole" ELSE "short"
    BY <1>1, <2>1, OutputVerdict
  <2>3. Got(qweight) = Shard => \A s \in Shard : file[s] \in Servable
    BY <1>3 DEF Answers
  <2>. QED
    BY <2>2, <2>3
<1>. QED
  BY <1>2, <1>3

\* For every number of shards, every mixture of types, every set of shards that
\* never arrived and every reload, apply never answers with the full number of
\* rows and one of them decoded, cut or placed as another's.
THEOREM NeverWrongAlways == Spec => []NeverWrong
<1>1. TypeOK /\ Layout /\ Answered => NeverWrong
  <2> SUFFICES ASSUME TypeOK, Layout, Answered PROVE NeverWrong
    OBVIOUS
  <2>1. Verdict = VerdictOf(out)
    BY DEF Verdict, VerdictOf
  <2>2. CASE out.kind = "none"
    BY <2>1, <2>2 DEF VerdictOf, NeverWrong
  <2>3. CASE out.kind # "none"
    <3>1. Answers(out)
      BY <2>3 DEF Layout, Quiet, Answered
    <3>2. VerdictOf(out) \in {"whole", "short", "error"}
      BY <3>1, AnswerVerdict
    <3>. QED
      BY <2>1, <3>2 DEF NeverWrong
  <2>. QED
    BY <2>2, <2>3
<1>. QED
  BY <1>1, AnsweredAlways, PTL

\* Storing a shard adds it to those that arrived; padding loses none.
LEMMA StoredGot ==
  ASSUME NEW q \in QWeights, NEW s \in Shard, NEW t \in Tensors
  PROVE  Got(Stored(q, s, t)) = Got(q) \cup {s}
<1>1. /\ q.shard_id_map \in [Shard -> Nat]
      /\ Len(q.data_container) + 1 # 0
  BY LenProperties DEF QWeights
<1>2. Stored(q, s, t).shard_id_map
        = IF q.shard_id_map[s] = 0
          THEN [q.shard_id_map EXCEPT ![s] = Len(q.data_container) + 1]
          ELSE q.shard_id_map
  BY DEF Stored, QWeights
<1>. QED
  BY <1>1, <1>2 DEF Got

LEMMA StepImplements ==
  ASSUME TypeOK, TypesFollow, Layout, Answered, [Next]_vars
  PROVE  [Promise!Next]_(Promise!vars)
<1> DEFINE Fit == \A s \in Shard : file[s] \in Servable
<1>0. Verdict = VerdictOf(out) /\ Verdict' = VerdictOf(out')
  BY DEF Verdict, VerdictOf, WholeOutput, RowsBefore
<1>1. ASSUME UNCHANGED <<file, qweight, status, out>>
      PROVE  UNCHANGED Promise!vars
  <2>1. Verdict' = Verdict
    BY <1>0, <1>1
  <2>. QED
    BY <1>1, <2>1 DEF Promise!vars
<1>2. ASSUME NEW s \in Shard, LoadType(s) PROVE UNCHANGED Promise!vars
  BY <1>1, <1>2 DEF LoadType, checkpoint
<1>3. CASE LoadWholeType
  BY <1>1, <1>3 DEF LoadWholeType, checkpoint
<1>4. ASSUME NEW s \in Shard, LoadWeight(s) PROVE Promise!Next
  <2>1. status = "loading" /\ file' = file /\ Verdict' = Verdict
    BY <1>0, <1>4 DEF LoadWeight, checkpoint
  <2>2. CASE status' = "refused" /\ qweight' = qweight
    BY <2>1, <2>2 DEF Promise!Next, Promise!Refuse
  <2>3. CASE /\ qweight' = Stored(qweight, s, TensorOf(s))
             /\ status' = status
    <3>1. Got(qweight') = Got(qweight) \cup {s}
      <4>1. qweight \in QWeights /\ TensorOf(s) \in Tensors
        BY DEF TypeOK, TensorOf, Tensors
      <4>. QED
        BY <2>3, <4>1, StoredGot
    <3>2. Promise!Deliver(s)
      BY <2>1, <2>3, <3>1 DEF Promise!Deliver, Got
    <3>. QED
      BY <3>2 DEF Promise!Next
  <2>. QED
    BY <1>4, <2>2, <2>3 DEF LoadWeight, TensorOf
<1>5. CASE Process
  <2>1. /\ status = "loading" /\ status' \in {"ready", "refused"}
        /\ file' = file /\ Verdict' = Verdict
    BY <1>0, <1>5 DEF Process, checkpoint
  <2>2. qweight'.shard_id_map = qweight.shard_id_map
    BY <1>5 DEF Process, Padded, TypeOK, QWeights
  <2>. QED
    BY <2>1, <2>2 DEF Promise!Next, Promise!Finish, Promise!Refuse
<1>6. CASE Reload
  <2>1. /\ status = "ready" /\ status' = "loading"
        /\ file' = file /\ qweight' = qweight
    BY <1>6 DEF Reload, checkpoint
  <2>2. Verdict' = "none"
    BY <1>0, <1>6 DEF Reload, VerdictOf
  <2>. QED
    BY <2>1, <2>2 DEF Promise!Next, Promise!Reload
<1>7. CASE Apply
  <2>1. status = "ready" /\ UNCHANGED <<file, qweight, status>>
    BY <1>7 DEF Apply, checkpoint
  <2>2. Answers(out')
    BY <1>7, ApplyAnswers DEF Answered
  <2>3. Verdict' \in IF Got(qweight) = Shard /\ Fit THEN {"whole"} ELSE {"short", "error"}
    BY <1>0, <2>2, AnswerVerdict
  <2>. QED
    BY <2>1, <2>3 DEF Promise!Next, Promise!Answer, Got
<1>8. CASE UNCHANGED vars
  BY <1>1, <1>8 DEF vars, checkpoint
<1>. QED
  BY <1>2, <1>3, <1>4, <1>5, <1>6, <1>7, <1>8 DEF Next

\* GGUFLinear implements MergedLoad for every value of its constants: what the
\* layer answers depends on nothing but the shards that arrived and on whether
\* their types have a route.
THEOREM ImplementsMergedLoad == Spec => Implements
<1>1. Init => Promise!Init
  BY DEF Init, Blank, Verdict, Promise!Init
<1>2. TypeOK /\ TypesFollow /\ Layout /\ Answered /\ [Next]_vars
        => [Promise!Next]_(Promise!vars)
  BY StepImplements
<1>. QED
  BY <1>1, <1>2, AnsweredAlways, PTL DEF Spec, Implements, Promise!Spec
===============================================================================
