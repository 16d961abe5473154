------------------------------ MODULE ModelLoad ------------------------------
(***************************************************************************)
(* GGUFModelLoader.load_model from a reference to a model that is ready:   *)
(* the file References finds, its split (weights_adapter/default.py), the  *)
(* patches of the HF config, the names, the modules left unquantized and   *)
(* the shared GGUFConfig (quantization/config.py, utils.py), and the       *)
(* tensors, transformed on their way to the parameters.  A second model,   *)
(* a draft model, may be loaded with the same GGUFConfig.                  *)
(*                                                                         *)
(* The model is one of each kind of tensor the loader tells apart.         *)
(***************************************************************************)
EXTENDS References, Sequences

CONSTANTS
  Experts,    \* number of experts of a layer
  Rests,      \* what the part of a split that is not opened may hold
  MaxModels   \* bound: models loaded with one GGUFConfig

ASSUME ExpertsAssumption == Experts \in Nat \ {0} /\ MaxModels \in Nat \ {0}
ASSUME RestsAssumption == Rests \subseteq SUBSET {"output", "k", "norm"}

\* Model types.  "gemma3mm" has an mmproj file, and its q and k are those of the
\* vision tower, which have biases; "unknown" is in none of gguf's tables.
Kinds == {"qwen35moe", "llama", "gemma3", "gemma3mm", "unknown"}
Gemma == {"gemma3", "gemma3mm"}

\* GGUF tensors: q and k are parts of one fused layer, exps the experts of a
\* layer in one tensor, la_norm, conv and a the norm, conv1d and A_log of linear
\* attention, gate the gate of a shared expert, rope one that has no name in the
\* HF model.
TensorsOf(kind) ==
  {"token_embd", "output", "q", "k", "norm"}
  \cup (CASE kind = "qwen35moe" -> {"la_norm", "conv", "a", "gate", "exps"}
          [] kind = "gemma3mm"  -> {"q_bias"}
          [] kind = "llama"     -> {"rope"}
          [] OTHER              -> {})

\* build_name_map: what is not in it is not yielded.  Gemma3's mapper renames
\* whatever comes.
NameMap(kind) == TensorsOf(kind) \ {"rope"}

VARIABLES
  checkpoint,   \* kind, quantized tensors, where the tensors are
  config,       \* hf_config: vocab_size of the file?, tie_word_embeddings
  unquantized,  \* GGUFConfig.unquantized_modules
  method,       \* of each layer: "gguf", "dense"
  queue,        \* tensors still to come, by file and place
  params,       \* parameter -> the slice it got and what was undone on the way
  models        \* how many were loaded before

loadVars == <<checkpoint, config, unquantized, method, queue, params, models>>
vars == <<refVars, loadVars>>

-----------------------------------------------------------------------------
(* The checkpoint.  Of a split in two parts, one is `opened`, the one the  *)
(* reference led to; the other has the tensors of `rest`, and is `missing` *)
(* or not.                                                                 *)
Checkpoints ==
  { c \in [kind : Kinds, quantized : SUBSET {"q", "k"}, head : BOOLEAN,
           split : BOOLEAN, rest : Rests \cup {{}}, missing : BOOLEAN,
           opened : 1 .. 2] :
      /\ ~ c.split => c.rest = {} /\ ~ c.missing /\ c.opened = 1
      /\ c.split => c.rest \in Rests
      /\ ~ c.head => "output" \notin c.rest
      /\ c.kind = "unknown" => ~ c.split }

All(c) == TensorsOf(c.kind) \ (IF c.head THEN {} ELSE {"output"})

Part(c, i) == IF i = c.opened THEN All(c) \ c.rest ELSE c.rest

\* The order of the tensors in a file.
FileOrder == <<"token_embd", "output", "q", "q_bias", "k", "norm", "la_norm", "conv", "a",
               "gate", "exps", "rope">>

\* _get_all_gguf_files: the parts that are there.
GGUFFiles(c) == IF c.split /\ ~ c.missing THEN {1, 2} ELSE {c.opened}

\* weights_source: the gemma3 adapter takes the file it is given.
WeightsSource(c) == IF c.kind \in Gemma THEN {c.opened} ELSE GGUFFiles(c)

\* Where the tensors of these files are, and which comes first: the files are
\* read one after the other.
Places(c) ==
  { p \in WeightsSource(c) \X DOMAIN FileOrder : FileOrder[p[2]] \in Part(c, p[1]) }
ComesFirst(p, r) == p[1] < r[1] \/ (p[1] = r[1] /\ p[2] <= r[2])

\* tensor.tensor_type not in F32, F16, BF16
Quantized(c, t) == t \in c.quantized \cup {"token_embd", "output", "exps"}

-----------------------------------------------------------------------------
(* prepare_loading.                                                        *)

\* Mutant of TiedByFiles: the names of the files are not looked at.
TiedForgotten(c) == FALSE

\* update_tie_word_embeddings: lm_head is an extra name of some file.
TiedByFiles(c) == \E i \in GGUFFiles(c) : "output" \notin Part(c, i)

\* A file that came from the hub, or belongs to a draft model, is asked for the
\* first time.
Known == models > 0 \/ ~ OnDisk(ref) \/ CheckGGUFFile(ref)

\* maybe_patch_hf_config_from_gguf, which asks check_gguf_file and else leaves
\* the tied embeddings of the HF config, then, in the default adapter,
\* update_tie_word_embeddings.
Patched(c) ==
  [vocab |-> Known,
   tie   |-> IF c.kind \in Gemma THEN Known => "output" \notin Part(c, c.opened)
                                 ELSE TiedByFiles(c)]

\* Mutant of UnquantizedModules: of the file the reference leads to.
UnquantizedOpened(c) ==
  { t \in (Part(c, c.opened) \cap NameMap(c.kind)) \ {"a"} : ~ Quantized(c, t) }

\* get_unquantized_modules of the type map, names in .weight only, and what
\* Gemma3GGUFAdapter makes of get_gguf_unquantized_params, all names.
UnquantizedModules(c) ==
  { t \in (NameMap(c.kind) \cap UNION {Part(c, i) : i \in WeightsSource(c)}) \ {"a"} :
      ~ Quantized(c, t) }

\* shard_prefix in module_name: a bias has the name of its layer in its own.
ShardSkipped(t, modules) == t \in modules \/ (t = "q" /\ "q_bias" \in modules)

\* The ValueError of is_layer_skipped_gguf.
Mixed(modules) == ShardSkipped("q", modules) # ShardSkipped("k", modules)

\* is_layer_skipped_gguf
IsLayerSkipped(layer, modules) ==
  IF layer = "qk" THEN \A t \in {"q", "k"} : ShardSkipped(t, modules)
                  ELSE layer \in modules

\* get_quant_method
Methods(modules) ==
  [layer \in {"qk", "token_embd", "output", "exps"} |->
     IF layer # "exps" /\ IsLayerSkipped(layer, modules) THEN "dense" ELSE "gguf"]

LayerOf(t) == IF t \in {"q", "k"} THEN "qk" ELSE t

-----------------------------------------------------------------------------
(* The tensors on their way.                                               *)

\* What llama.cpp's converter did to the values of a tensor.
Converted(kind, t) ==
  CASE t = "norm" /\ kind \in Gemma \cup {"qwen35moe"} -> {"plus_one"}
    [] t = "a"    -> {"minus_exp", "tile"}
    [] t = "conv" -> {"squeeze", "tile"}
    [] t = "gate" -> {"squeeze"}
    [] OTHER      -> {}

\* Mutant of Transformed: every norm has the one added.
TransformedNorms(kind, t) ==
  CASE t \in {"norm", "la_norm"} /\ kind \in Gemma \cup {"qwen35moe"} -> {"plus_one"}
    [] t = "a" /\ kind = "qwen35moe"    -> {"minus_exp", "tile"}
    [] t = "conv" /\ kind = "qwen35moe" -> {"squeeze", "tile"}
    [] t = "gate"                       -> {"squeeze"}
    [] OTHER                            -> {}

\* transform_weight: what is undone.
Transformed(kind, t) ==
  CASE t = "norm" /\ kind \in Gemma \cup {"qwen35moe"} -> {"plus_one"}
    [] t = "a" /\ kind = "qwen35moe"    -> {"minus_exp", "tile"}
    [] t = "conv" /\ kind = "qwen35moe" -> {"squeeze", "tile"}
    [] t = "gate"                       -> {"squeeze"}
    [] OTHER                            -> {}

\* Mutant of Yielded: names counted from one, slices from zero.
YieldedShifted(t) ==
  IF t = "exps" THEN { [of |-> t, expert |-> e + 1, slice |-> e] : e \in 1 .. Experts }
  ELSE {[of |-> t, expert |-> 0, slice |-> 0]}

\* Mutant of Yielded: the last slice is forgotten.
YieldedShort(t) ==
  IF t = "exps" THEN { [of |-> t, expert |-> e, slice |-> e] : e \in 1 .. Experts - 1 }
  ELSE {[of |-> t, expert |-> 0, slice |-> 0]}

\* map_weights: a tensor of all experts is unbound, slice by slice, under the
\* names of the experts.
Yielded(t) ==
  IF t = "exps" THEN { [of |-> t, expert |-> e, slice |-> e] : e \in 1 .. Experts }
  ELSE {[of |-> t, expert |-> 0, slice |-> 0]}

\* Does the layer have the parameter a tensor of this type is named for?
Accepts(c, t) ==
  LayerOf(t) \in DOMAIN method =>
    method[LayerOf(t)] = (IF Quantized(c, t) THEN "gguf" ELSE "dense")

-----------------------------------------------------------------------------
NoConfig == [vocab |-> FALSE, tie |-> FALSE]
NoCheckpoint == [kind |-> "llama", quantized |-> {"q", "k"}, head |-> TRUE,
                 split |-> FALSE, rest |-> {}, missing |-> FALSE, opened |-> 1]

Unloaded == config' = NoConfig /\ method' = <<>> /\ queue' = {} /\ params' = <<>>

Init ==
  /\ InitReferences
  /\ checkpoint = NoCheckpoint /\ config = NoConfig
  /\ unquantized = {} /\ method = <<>> /\ queue = {} /\ params = <<>>
  /\ models = 0

\* The checkpoints a file can belong to.  Its other part is missing when it is
\* not in the folder, and hf_hub_download fetches one file.
Opened(f) ==
  LET alone == ref.form = "hubfile" \/ \A g \in folder : [g EXCEPT !.part = f.part] = f => g = f
  IN  { c \in Checkpoints :
          /\ c.split = (f.part > 0 /\ ref.form # "blob")
          /\ c.split => c.opened = f.part /\ c.missing = alone }

\* _prepare_weights: the file is found, or the reference is of no use.
PrepareWeights ==
  /\ phase = "prepare"
  /\ IF Chosen(ref) = {}
     THEN phase' = "failed" /\ UNCHANGED checkpoint
     ELSE phase' = "patch" /\ \E f \in Chosen(ref) : checkpoint' \in Opened(f)
  /\ UNCHANGED <<user, there, asked, args, attempts, calls,
                 config, unquantized, method, queue, params, models>>

\* prepare_loading of the adapter; load_model adds to the shared GGUFConfig.
PrepareLoading ==
  /\ phase = "patch"
  /\ asked' = IF models = 0 THEN Asked(ref) ELSE asked
  /\ config' = Patched(checkpoint)
  /\ IF checkpoint.kind = "unknown"
     THEN phase' = "failed" /\ UNCHANGED unquantized
     ELSE phase' = "init" /\ unquantized' = unquantized \cup UnquantizedModules(checkpoint)
  /\ UNCHANGED <<user, there, args, attempts, calls,
                 checkpoint, method, queue, params, models>>

\* initialize_model asks GGUFConfig for the method of every layer.  The tensors
\* come file by file.
InitializeModel ==
  /\ phase = "init"
  /\ IF Mixed(unquantized)
     THEN phase' = "failed" /\ UNCHANGED <<method, queue>>
     ELSE /\ phase' = "load"
          /\ method' = Methods(unquantized)
          /\ queue' = Places(checkpoint)
  /\ UNCHANGED <<user, there, asked, args, attempts, calls,
                 checkpoint, config, unquantized, params, models>>

\* One tensor through gguf_quant_weights_iterator_multi, map_weights and
\* model.load_weights, which has no head of its own if it is tied, and raises
\* KeyError for another name it does not have.
LoadTensor(p) ==
  LET t == FileOrder[p[2]]
      skipped == t \notin NameMap(checkpoint.kind) \/ (t = "output" /\ config.tie)
  IN  /\ phase = "load"
      /\ \A r \in queue : ComesFirst(p, r)
      /\ queue' = queue \ {p}
      /\ phase' = IF skipped \/ Accepts(checkpoint, t) THEN "load" ELSE "failed"
      /\ params' =
           IF skipped \/ ~ Accepts(checkpoint, t) THEN params
           ELSE [n \in DOMAIN params \cup {[of |-> y.of, expert |-> y.expert] : y \in Yielded(t)} |->
                   IF n \in DOMAIN params THEN params[n]
                   ELSE [slice  |-> (CHOOSE y \in Yielded(t) : y.expert = n.expert).slice,
                         undone |-> Transformed(checkpoint.kind, t)]]
      /\ UNCHANGED <<user, there, asked, args, attempts, calls,
                     checkpoint, config, unquantized, method, models>>

\* process_weights_after_loading compares nothing with what the model has.
FinishLoading ==
  /\ phase = "load" /\ queue = {}
  /\ phase' = "ready"
  /\ UNCHANGED <<user, there, asked, args, attempts, calls, loadVars>>

\* load_model of a draft model, with the same GGUFConfig.
LoadSecond ==
  /\ phase = "ready" /\ models + 1 < MaxModels
  /\ models' = models + 1
  /\ phase' = "patch"
  /\ checkpoint' \in {c \in Checkpoints : ~ c.split /\ c.kind = checkpoint.kind}
  /\ Unloaded
  /\ UNCHANGED <<user, there, asked, args, attempts, calls, unquantized>>

\* EngineArgs anew bring a GGUFConfig of their own.
Again ==
  /\ TryAgain
  /\ checkpoint' = NoCheckpoint /\ unquantized' = {} /\ models' = 0
  /\ Unloaded

Resolving == (CreateModelConfig \/ ParseConfig \/ NotGGUF) /\ UNCHANGED loadVars

Loading == PrepareWeights \/ PrepareLoading \/ InitializeModel
           \/ (\E p \in queue : LoadTensor(p)) \/ FinishLoading

Appearing == FileAppears /\ UNCHANGED loadVars

Next == Resolving \/ Loading \/ LoadSecond \/ Again \/ Appearing

\* One sequential process: a call runs on until it returns or raises.  Whether
\* the user tries again, loads a draft model or brings the file is up to the user.
Fairness == WF_vars(Loading) /\ WF_vars(Resolving)

Spec == Init /\ [][Next]_vars /\ Fairness

-----------------------------------------------------------------------------
(* Properties.                                                             *)

\* Type invariant: what was loaded are parameters of the model, each once.
TypeOK ==
  /\ ref \in References /\ asked \in {"unasked", "yes", "no"}
  /\ args.model \in References \cup SourceRefs /\ args.model_weights \subseteq References \cup SourceRefs
  /\ phase \in {"args", "config", "raised", "other", "prepare", "patch", "init", "load",
                "ready", "failed"}
  /\ checkpoint \in Checkpoints /\ config \in [vocab : BOOLEAN, tie : BOOLEAN]
  /\ unquantized \subseteq UNION {NameMap(k) : k \in Kinds}
  /\ DOMAIN params \subseteq [of : NameMap(checkpoint.kind), expert : 0 .. Experts]

Loaded(t) ==
  \A e \in IF t = "exps" THEN 1 .. Experts ELSE {0} : [of |-> t, expert |-> e] \in DOMAIN params

\* maybe_patch_hf_config_from_gguf and update_tie_word_embeddings decide whether
\* the model has a head of its own before any tensor is read.  A model that is
\* ready never has one with nothing in it, whatever parts are missing, cached
\* answers and models came before; and the head of a checkpoint in one file is
\* never given up for tied embeddings, unless check_gguf_file was asked too early
\* and the gemma3 adapter left the question to the HF config.
HeadIsItsOwn ==
  phase = "ready" =>
    /\ ~ config.tie => Loaded("output")
    /\ checkpoint.head /\ ~ checkpoint.split =>
         \/ Loaded("output")
         \/ checkpoint.kind \in Gemma /\ OnDisk(ref) /\ models = 0 /\ asked = "no"

\* What the docstring of the loader says of sharded models, that they are
\* supported: the head of a split whose parts are all there is the model's.
SplitHeadIsLoaded ==
  phase = "ready" /\ checkpoint.head /\ ~ checkpoint.missing /\ checkpoint.kind \notin Gemma =>
    Loaded("output")

\* Nothing compares what came with what the model has, so a split checkpoint is
\* whole only because _get_all_gguf_files finds every part: a model is ready with
\* a tensor missing only where a part is not on disk, was never fetched, or the
\* gemma3 adapter reads one part.
Whole ==
  phase = "ready" /\ ~ checkpoint.missing /\ (checkpoint.kind \in Gemma => ~ checkpoint.split) =>
    \A t \in (All(checkpoint) \cap NameMap(checkpoint.kind)) \ {"output"} : Loaded(t)

\* Every parameter has its own slice, expert by expert, and the values of the HF
\* checkpoint: transform_weight undoes what the converter did, nothing else.
Restored ==
  \A p \in DOMAIN params :
    params[p].slice = p.expert /\ params[p].undone = Converted(checkpoint.kind, p.of)

\* The layers of a draft model take precision from the modules of both models.
Carried ==
  models > 0 /\ \E t \in {"q", "k"} : t \in unquantized /\ Quantized(checkpoint, t)

\* Loading fails for a reason that is in the files: none found, a model type
\* without names, q and k of two precisions, one of them in a part that was not
\* read, biases beside a quantized vision tower (is_layer_skipped_gguf takes
\* their names for their layer's), or a model loaded before with other precisions.
ReasonToFail ==
  \/ Chosen(ref) = {}
  \/ checkpoint.kind = "unknown"
  \/ Quantized(checkpoint, "q") # Quantized(checkpoint, "k")
  \/ "k" \in checkpoint.rest /\ ~ Quantized(checkpoint, "q")
       /\ (checkpoint.missing \/ checkpoint.kind \in Gemma)
  \/ checkpoint.kind = "gemma3mm" /\ checkpoint.quantized # {}
  \/ Carried

NoNeedlessRefusal == phase = "failed" => ReasonToFail

\* A GGUF file that is in its place when EngineArgs are built, in the first
\* attempt or in a later one, is ready in the end, or fails for one of those
\* reasons: neither the config source nor what was tried before stands in its
\* way.  An early answer of check_gguf_file does not either, if the suffix says
\* that it is a GGUF file and the user names a source of the config.
EventuallyServed ==
  /\ phase = "args" /\ OnDisk(ref) /\ there
  /\ asked = "no" => ref.form = "file" /\ (tokenizer \/ hf_config_path)
  ~> phase = "ready" \/ (phase = "failed" /\ ReasonToFail)
=============================================================================
