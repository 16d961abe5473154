------------------------------- MODULE GGUFMoE -------------------------------
(***************************************************************************)
(* One layer of experts of a GGUF model, from create_weights to apply: the *)
(* loaders of quantization/params.py, GGUFMoEMethod and _fused_moe_gguf of *)
(* quantization/fused_moe.py, and the entry points of ops.py.              *)
(*                                                                         *)
(* The file holds one packed tensor per projection for all experts: gate   *)
(* (shard id "w1") and up ("w3") share the parameter w13, down ("w2") has  *)
(* its own.  Each tensor arrives as its type and then expert by expert;    *)
(* the tensors come in the file's order, which is any order.               *)
(*                                                                         *)
(* A request routes every token to K experts.  Slot i = token * K + k is   *)
(* the k-th expert of a token.  The fused lanes sort the slots by expert   *)
(* into blocks of a size both matmuls share, and each kernel reads the     *)
(* sorted slots in blocks of its own size.                                 *)
(***************************************************************************)
EXTENDS Integers, FiniteSets

CONSTANTS
  E,             \* number of experts
  K,             \* experts per token
  Batches,       \* bound: the numbers of tokens a request may have
  LongBatch,     \* 64 in the code: more tokens than this take the MMQ lane
  Types, F32,    \* quantization types; F32 is 0, the initial weight_type
  NoType,        \* what was never copied into an expert's rows
  Width,         \* bytes of a packed row, per type
  MMQ, MMVQ,     \* MMQ_QUANT_TYPES, MMVQ_QUANT_TYPES
  ROCmFPX,       \* ROCMFPX_TYPES
  TritonMoE,     \* keys of TRITON_MOE_DISPATCH
  TritonBlockM,  \* get_triton_moe_block_m
  NativeGEMM,    \* _CUDA_GEMM_QUANT_TYPES, empty without the extension
  NativeGEMV,    \* types of ggml_moe_a8_vec, empty without the extension
  NativeBlockM,  \* MOE_X of csrc: 8 on ROCm, 4 on CUDA
  Gfx115x,       \* is the device one the ROCmFPX Triton kernels run on?
  Servable,      \* types _fused_mul_mat_gguf has a route for
  MaxReloads     \* bound: how often the weights are loaded again

Expert == 0 .. E-1
Shards == {"w1", "w2", "w3"}

ASSUME SizesAssumption ==
  E \in Nat \ {0} /\ K \in Nat \ {0} /\ Batches \subseteq Nat \ {0}
  /\ LongBatch \in Nat /\ MaxReloads \in Nat
ASSUME TypesAssumption ==
  F32 \in Types /\ NoType \notin Types /\ Width \in [Types -> Nat \ {0}]
ASSUME LanesAssumption ==
  /\ MMQ \subseteq TritonMoE /\ MMVQ \subseteq TritonMoE
  /\ NativeGEMM \subseteq MMQ /\ ROCmFPX \cap MMQ = {} /\ F32 \notin TritonMoE
ASSUME BlockAssumption ==
  TritonBlockM \in [Types -> Nat \ {0}] /\ NativeBlockM \in Nat \ {0}
  /\ Gfx115x \in BOOLEAN
\* A gfx115x device runs the ROCm build, whose native kernels read blocks no
\* smaller than those of the Triton kernels: 8, and 4 or 8.
ASSUME DeviceAssumption ==
  Gfx115x => \A t \in TritonMoE \cap Types :
               TritonBlockM[t] = NativeBlockM \/ 2 * TritonBlockM[t] <= NativeBlockM

VARIABLES
  file,      \* the type of every tensor in the checkpoint
  due,       \* tensors the load loop has not reached
  loading,   \* the tensor being delivered and its next expert
  reloads,   \* how often load_weights started over
  status,    \* "loading", "ready", "refused": an exception ended it
  w13, w2,   \* the parameters, see Blank
  asked,     \* the last request: the expert of every slot
  answer     \* its answer

vars == <<file, due, loading, reloads, status, w13, w2, asked, answer>>

-----------------------------------------------------------------------------
(* A parameter and its type.  cols is the width it was materialised with,  *)
(* 0 before; part tells what each expert's rows hold of each projection.   *)
Blank ==
  [ cols |-> 0, part |-> [x \in Shards \X Expert |-> NoType],
    weight_type |-> F32, shard_weight_type |-> {}, uninitialized |-> TRUE ]

Idle == [shard |-> "none", expert |-> 0]
NoAnswer == [kind |-> "none", lane |-> "none", rows |-> <<>>]

Init ==
  /\ file \in [Shards -> Types \ {F32}]
  /\ due \in SUBSET Shards
  /\ loading = Idle
  /\ reloads = 0
  /\ status = "loading"
  /\ w13 = Blank
  /\ w2 = Blank
  /\ asked = <<>>
  /\ answer = NoAnswer

\* The parameter a shard belongs to, and its update.
Param(s) == IF s = "w2" THEN w2 ELSE w13
SetParam(s, p) ==
  IF s = "w2" THEN w2' = p /\ UNCHANGED w13 ELSE w13' = p /\ UNCHANGED w2

\* Mutant of TypeStored: the last type to arrive wins.
TypeStoredLast(p, s, t) ==
  [p EXCEPT !.shard_weight_type = @ \cup {s}, !.weight_type = t]

\* _store_gguf_weight_type with the id of the projection: the parameter's
\* weight_type follows the first one only.
TypeStored(p, s, t) ==
  [p EXCEPT !.shard_weight_type = @ \cup {s},
            !.weight_type = IF p.shard_weight_type \subseteq {s} THEN t ELSE @]

\* _gguf_moe_weight_type_loader.  Once the parameter is materialised the
\* loader also indexes its data with _gguf_shard_id_as_int, which knows
\* "q", "k" and "v" only: KeyError.
LoadType(s) ==
  /\ status = "loading"
  /\ loading = Idle
  /\ s \in due
  /\ due' = due \ {s}
  /\ SetParam(s, TypeStored(Param(s), s, file[s]))
  /\ IF Param(s).uninitialized
     THEN loading' = [shard |-> s, expert |-> 0] /\ UNCHANGED status
     ELSE status' = "refused" /\ UNCHANGED loading
  /\ UNCHANGED <<file, reloads, asked, answer>>

\* Mutants of LoadExpert: one expert too many, and both halves of w13 copied
\* to the rows of the first.
LoadExpertPastEnd ==
  /\ status = "loading"
  /\ loading # Idle
  /\ loading' = IF loading.expert \in Expert THEN [loading EXCEPT !.expert = @ + 1]
                ELSE Idle
  /\ UNCHANGED <<file, due, reloads, status, w13, w2, asked, answer>>
LoadExpertFirstHalf ==
  /\ status = "loading"
  /\ loading # Idle
  /\ LET s == loading.shard
         e == loading.expert
         p == Param(s)
     IN  /\ SetParam(s, [p EXCEPT !.cols = Width[file[s]],
                                  !.part[<<IF s = "w3" THEN "w1" ELSE s, e>>] = file[s]])
         /\ loading' = IF e + 1 \in Expert THEN [loading EXCEPT !.expert = e + 1]
                       ELSE Idle
  /\ UNCHANGED <<file, due, reloads, status, asked, answer>>

\* _gguf_moe_weight_loader for one expert: materialise the parameter as wide
\* as this row unless it has a width, then let the layer's loader copy the
\* expert's rows, which raises when the widths differ.
LoadExpert ==
  /\ status = "loading"
  /\ loading # Idle
  /\ LET s    == loading.shard
         e    == loading.expert
         p    == Param(s)
         cols == IF p.cols = 0 THEN Width[file[s]] ELSE p.cols
     IN  IF cols # Width[file[s]]
         THEN status' = "refused" /\ UNCHANGED <<loading, w13, w2>>
         ELSE /\ SetParam(s, [p EXCEPT !.cols = cols, !.part[<<s, e>>] = file[s]])
              /\ loading' = IF e + 1 \in Expert THEN [loading EXCEPT !.expert = e + 1]
                            ELSE Idle
              /\ UNCHANGED status
  /\ UNCHANGED <<file, due, reloads, asked, answer>>

\* process_weights_after_loading: the four parameters are replaced by
\* materialised ones that keep their data.
Process ==
  /\ status = "loading"
  /\ loading = Idle
  /\ due = {}
  /\ w13' = [w13 EXCEPT !.uninitialized = FALSE]
  /\ w2' = [w2 EXCEPT !.uninitialized = FALSE]
  /\ status' = "ready"
  /\ UNCHANGED <<file, due, loading, reloads, asked, answer>>

\* GGUFModelLoader.load_weights on a model that serves.
Reload ==
  /\ status = "ready"
  /\ reloads < MaxReloads
  /\ reloads' = reloads + 1
  /\ status' = "loading"
  /\ due' \in SUBSET Shards
  /\ asked' = <<>>
  /\ answer' = NoAnswer
  /\ UNCHANGED <<file, loading, w13, w2>>

-----------------------------------------------------------------------------
(* moe_align_block_size (vLLM's): the slots of each expert, in order,      *)
(* padded to whole blocks of B; a block belongs to one expert.             *)
Slots(a, e) == { i \in DOMAIN a : a[i] = e }
BlocksOf(a, B, e) == (Cardinality(Slots(a, e)) + B - 1) \div B
BlocksBefore(a, B, e) ==
  Cardinality(UNION { {f} \X (1 .. BlocksOf(a, B, f)) : f \in 0 .. e-1 })
Position(a, B, i) ==
  BlocksBefore(a, B, a[i]) * B
    + Cardinality({ j \in Slots(a, a[i]) : j < i })

NoExpert == -1
ExpertAt(a, B, b) ==
  IF \E e \in Expert : b - BlocksBefore(a, B, e) \in 0 .. BlocksOf(a, B, e) - 1
  THEN CHOOSE e \in Expert :
         b - BlocksBefore(a, B, e) \in 0 .. BlocksOf(a, B, e) - 1
  ELSE NoExpert

\* The lengths of sorted_token_ids and of expert_ids.
SortedLength(a, B) == Cardinality(DOMAIN a) + E * (B - 1)
BlockCount(a, B) == (SortedLength(a, B) + B - 1) \div B

\* A kernel that reads the sorted slots M at a time takes the expert of slot
\* i from expert_ids at the slot's block; NoExpert leaves the slot's zeros.
ExpertRead(a, B, M, i) == ExpertAt(a, B, Position(a, B, i) \div M)

\* _validate_args of the Triton kernels, which pads a sorted_token_ids that
\* is too short and refuses one that is too long.
TooLong(a, B, M) == SortedLength(a, B) > BlockCount(a, B) * M

-----------------------------------------------------------------------------
(* _fused_moe_gguf                                                         *)
Lane(t1, t2, tokens) ==
  LET rocmfpx == {t1, t2} \cap ROCmFPX # {}
  IN  IF rocmfpx /\ {t1, t2} \subseteq TritonMoE /\ Gfx115x THEN "rocmfpx"
      ELSE IF ~ rocmfpx /\ {t1, t2} \subseteq MMQ /\ tokens > LongBatch THEN "mmq"
      ELSE IF ~ rocmfpx /\ {t1, t2} \subseteq MMVQ THEN "vec"
      ELSE "slow"

\* Mutant of BlockSize: the table of the Triton kernels for every type.
BlockSizeTriton(t) == TritonBlockM[t]

\* ops.ggml_moe_get_block_size
BlockSize(t) == IF t \in NativeGEMM THEN NativeBlockM ELSE TritonBlockM[t]

\* The block size of the kernel that multiplies by a tensor of type t, and
\* whether its arguments are refused: the ROCmFPX lane is Triton only, the
\* MMQ lane (ops.ggml_moe_a8) prefers the extension, which checks nothing.
KernelBlockM(lane, t) ==
  IF lane = "mmq" /\ t \in NativeGEMM THEN NativeBlockM ELSE TritonBlockM[t]
Refused(lane, a, B, t) ==
  /\ ~ (lane = "mmq" /\ t \in NativeGEMM)
  /\ TooLong(a, B, TritonBlockM[t])

\* The experts a matmul by a tensor of type t reads, slot by slot, when the
\* slots were sorted for B.  ggml_moe_a8_vec sorts for its own kernel and
\* the slow loop indexes the experts directly.
Experts(lane, a, B, t) ==
  [ i \in DOMAIN a |->
      CASE lane \in {"rocmfpx", "mmq"} -> ExpertRead(a, B, KernelBlockM(lane, t), i)
        [] lane = "vec" /\ t \notin NativeGEMV ->
             ExpertRead(a, TritonBlockM[t], TritonBlockM[t], i)
        [] OTHER -> a[i] ]

\* What a slot becomes: the token whose activations entered the first
\* matmul, the experts of both and whether their rows were decoded as the
\* types they were packed with.
Decoded(p, shards, e) ==
  e \in Expert => \A s \in shards : p.part[<<s, e>>] = p.weight_type
SlotRow(first, second, i) ==
  [ token |-> i \div K, expert1 |-> first[i], expert2 |-> second[i],
    decoded |-> Decoded(w13, {"w1", "w3"}, first[i])
                /\ Decoded(w2, {"w2"}, second[i]) ]

\* Mutant of Mismatch: the check is gone.
MismatchIgnored(t1, t2) == FALSE

\* The BLOCK_M check of the ROCmFPX lane.
Mismatch(t1, t2) == TritonBlockM[t1] # TritonBlockM[t2]

Answer(a, tokens) ==
  LET t1     == w13.weight_type
      t2     == w2.weight_type
      lane   == Lane(t1, t2, tokens)
      B      == BlockSize(t1)
      failed(why) == [kind |-> why, lane |-> lane, rows |-> <<>>]
      first  == Experts(lane, a, B, t1)
      second == Experts(lane, a, B, t2)
  IN  IF w13.cols = 0 \/ w2.cols = 0 THEN failed("empty")
      ELSE IF lane = "rocmfpx" /\ Mismatch(t1, t2) THEN failed("mismatch")
      ELSE IF /\ lane \in {"rocmfpx", "mmq"}
              /\ Refused(lane, a, B, t1) \/ Refused(lane, a, B, t2)
      THEN failed("too long")
      ELSE IF lane = "slow" /\ ~ {t1, t2} \subseteq Servable THEN failed("no route")
      ELSE [kind |-> "rows", lane |-> lane,
            rows |-> [i \in DOMAIN a |-> SlotRow(first, second, i)]]

\* The requests of a batch: every token is routed to K different experts.
Requests(tokens) ==
  { a \in [0 .. tokens * K - 1 -> Expert] :
      \A i, j \in 0 .. tokens * K - 1 :
        i # j /\ i \div K = j \div K => a[i] # a[j] }

\* A request neither reads the answer to another nor leaves anything else
\* behind, so that one request after each load reaches every state.
Apply ==
  /\ status = "ready"
  /\ answer = NoAnswer
  /\ \E tokens \in Batches : \E a \in Requests(tokens) :
       /\ asked' = a
       /\ answer' = Answer(a, tokens)
  /\ UNCHANGED <<file, due, loading, reloads, status, w13, w2>>

Next ==
  \/ \E s \in Shards : LoadType(s)
  \/ LoadExpert
  \/ Process
  \/ Reload
  \/ Apply

Spec == Init /\ [][Next]_vars

-----------------------------------------------------------------------------
(* Properties                                                              *)

\* The parameters keep their shapes from create_weights to apply.
Params ==
  [ cols : Nat, part : [Shards \X Expert -> Types \cup {NoType}],
    weight_type : Types, shard_weight_type : SUBSET Shards,
    uninitialized : BOOLEAN ]
TypeOK ==
  /\ file \in [Shards -> Types]
  /\ due \subseteq Shards
  /\ loading = Idle \/ loading \in [shard : Shards, expert : Expert]
  /\ reloads \in 0 .. MaxReloads
  /\ status \in {"loading", "ready", "refused"}
  /\ w13 \in Params /\ w2 \in Params
  /\ answer.kind \in {"none", "rows", "empty", "mismatch", "too long", "no route"}

\* A parameter is as wide as a row of the type it will be decoded with, for
\* every order of arrival, missing tensors and failed reloads: the width is
\* taken from the first expert copied and the type from the first type seen,
\* by two loaders that do not know of each other.
WidthOfType ==
  \A p \in {w13, w2} : p.cols # 0 => p.cols = Width[p.weight_type]

\* A served request multiplies the activations of a slot's own token by the
\* rows of the expert the router chose for the slot, twice.
Routed ==
  answer.kind = "rows" =>
    \A i \in DOMAIN asked :
      /\ answer.rows[i].token = i \div K
      /\ answer.rows[i].expert1 = asked[i]
      /\ answer.rows[i].expert2 = asked[i]

\* The same, where the kernels of both tensors read the sorted slots in blocks
\* of one size: whatever block size ops.ggml_moe_get_block_size answers for
\* the first tensor is the one both matmuls read with, in every lane.
RoutedInStep ==
  KernelBlockM(answer.lane, w13.weight_type) = KernelBlockM(answer.lane, w2.weight_type)
    => Routed

\* In the ROCmFPX lane, whose check of BLOCK_M is there to fail loudly
\* "instead of silently misaligning the second matmul" (fused_moe.py:87),
\* no answer is ever misaligned, on any device and with any pair of types.
GuardedLane == answer.lane = "rocmfpx" => Routed

\* A layer whose gate and up projections share a type and whose tensors all
\* arrived decodes every row it multiplies as it was packed.
OneTypeDecodes ==
  answer.kind = "rows" /\ file["w1"] = file["w3"]
    /\ w13.shard_weight_type = {"w1", "w3"} =>
    \A i \in DOMAIN asked : answer.rows[i].decoded
=============================================================================
