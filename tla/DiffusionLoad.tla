---------------------------- MODULE DiffusionLoad ----------------------------
(***************************************************************************)
(* A diffusion pipeline whose transformer comes from a GGUF file: the      *)
(* patched load_model and load_weights (weights_adapter/diffusion/         *)
(* integration.py, loader.py), the two passes over the file (base.py) and  *)
(* the adapters' changes (flux2_klein.py), the method of every layer, and  *)
(* the linear method for N-dimensional input (quantization/                *)
(* diffusion_config.py).                                                   *)
(*                                                                         *)
(* The host is external: a pipeline that tells its sources, takes the      *)
(* tensors it has a parameter for, passing over others, and says which     *)
(* parameters it expects.  Layers of the transformer: qkv, fused, of three *)
(* tensors in Qwen-Image files and of one in Flux2 files; long, whose name *)
(* contains that of qkv, in Flux2; ada, the norm_out; emb.                 *)
(***************************************************************************)
EXTENDS Integers, Sequences

CONSTANTS
  Plains,   \* sets of layers the host may build without asking for a method
  Ranks     \* numbers of dimensions of the input of a layer

ASSUME RanksAssumption == Ranks \subseteq 2 .. 4

Adapters == {"qwen_image", "flux2"}
Layers(a) == {"qkv", "ada", "emb"} \cup (IF a = "flux2" THEN {"long"} ELSE {})
TensorsOf(a) == IF a = "flux2" THEN Layers(a) ELSE {"q", "k", "v", "ada", "emb"}
LayerOf(t) == IF t \in {"q", "k", "v"} THEN "qkv" ELSE t
PartsOf(a, layer) == {t \in TensorsOf(a) : LayerOf(t) = layer}

\* Types of a tensor: dense, or one of two quantized ones.
Dense == "F16"
Types == {Dense, "Q4_K", "Q6_K"}

VARIABLES
  adapter, type,  \* the file: which adapter, and the type of each tensor
  plain,          \* layers the host keeps dense whatever the file
  sources,        \* weight sources in the order of the host
  modules,        \* quant_config.unquantized_modules
  method,         \* of each layer
  todo,           \* steps of the current source still to come
  at,             \* the current source
  known,          \* qweight_types of the filter
  held,           \* what each parameter got: [tensor, as, from]
  typed,          \* the types the GGUF parameters know
  phase,
  answer          \* of a forward pass through qkv

file == <<adapter, type, plain, sources>>
vars == <<file, modules, method, todo, at, known, held, typed, phase, answer>>

-----------------------------------------------------------------------------
(* Names and methods.                                                      *)

\* unquantized_module_names of the adapter
UnquantizedNames == {t \in TensorsOf(adapter) : type[t] = Dense}

\* module_name in prefix: to_q is in to_qkv, the name of a double block in that
\* of a single block.
IsNamedIn(layer, name) ==
  \/ layer = name
  \/ layer = "qkv" /\ name = "q"
  \/ layer = "long" /\ name = "qkv"

SkippedByName(layer) == \E n \in modules : IsNamedIn(layer, n)

\* is_layer_skipped_gguf of a fused layer: its shards agree or it raises.
ShardsSkipped == {t \in {"q", "k", "v"} : t \in modules}

Refuses(layer) ==
  /\ layer = "qkv" /\ layer \notin plain
  /\ ~ SkippedByName(layer)
  /\ ShardsSkipped \notin {{}, {"q", "k", "v"}}

\* DiffusionGGUFConfig.get_quant_method
MethodOf(layer) ==
  IF layer \in plain \/ SkippedByName(layer) THEN "dense" ELSE "gguf"

-----------------------------------------------------------------------------
(* The sources and what they yield.                                        *)
TransformerSources ==
  { [prefix |-> "transformer.", subfolder |-> "transformer"],
    [prefix |-> "transformer.", subfolder |-> "none"],
    [prefix |-> "", subfolder |-> "transformer"] }
VAESource == [prefix |-> "vae.", subfolder |-> "vae"]

\* Mutant of IsGGUFSource: by prefix only.
IsGGUFSourcePrefix(s) == s.prefix = "transformer."

\* _is_gguf_source
IsGGUFSource(s) == s.prefix = "transformer." \/ s.subfolder = "transformer"

\* The order of the tensors in a file.
Place == [emb |-> 1, q |-> 2, k |-> 3, v |-> 4, qkv |-> 5, long |-> 6, ada |-> 7, vae |-> 8]
FirstOf(ts) == CHOOSE t \in ts : \A u \in ts : Place[t] <= Place[u]

\* gguf_quant_weights_iterator: types of all, then weights of all.
TwoPasses(x, y) ==
  \/ x.step = "type" /\ y.step = "weight"
  \/ x.step = y.step /\ Place[x.t] <= Place[y.t]

\* What the source yields; the Hugging Face folder of a transformer would have
\* its tensors, dense.
Steps(s) ==
  IF IsGGUFSource(s)
  THEN {[step |-> "type", t |-> t] : t \in TensorsOf(adapter) \ UnquantizedNames}
       \cup {[step |-> "weight", t |-> t] : t \in TensorsOf(adapter)}
  ELSE {[step |-> "hf", t |-> t] :
          t \in IF s.subfolder = "vae" THEN {"vae"} ELSE TensorsOf(adapter)}

\* {base}.weight in loadable_names: never of a tensor whose layer is fused.
Restorable(t) == LayerOf(t) = t /\ method[t] = "dense"

\* Mutant of PassedOn: types are passed on of the weights that are restored.
PassedOnSwapped(t) == Restorable(t)

\* Does the host see the type?  Not of a weight it will see dense.
PassedOn(t) == ~ Restorable(t)

\* custom_weights_adapter of Flux2 swaps shift and scale of norm_out.linear.weight;
\* a quantized one is named qweight.
Swapped(t) == adapter = "flux2" /\ t = "ada" /\ type[t] = Dense

-----------------------------------------------------------------------------
NoAnswer == [rank |-> 0, axis |-> 0, as |-> <<>>]

Init ==
  /\ adapter \in Adapters
  /\ type \in [TensorsOf(adapter) -> Types]
  /\ \A t \in {"ada", "emb", "long"} \cap TensorsOf(adapter) : type[t] # "Q6_K"
  /\ plain \in Plains /\ plain \subseteq Layers(adapter)
  /\ sources \in UNION { {<<s, VAESource>>, <<VAESource, s>>} : s \in TransformerSources }
  /\ modules = {} /\ method = <<>>
  /\ todo = {} /\ at = 0 /\ known = {} /\ held = {} /\ typed = {}
  /\ phase = "start" /\ answer = NoAnswer

\* load_model up to _extend_unquantized_modules
ExtendUnquantizedModules ==
  /\ phase = "start"
  /\ modules' = modules \cup UnquantizedNames
  /\ phase' = "built"
  /\ UNCHANGED <<file, method, todo, at, known, held, typed, answer>>

\* The host builds the pipeline and asks for the methods.
InitFromLoadFormat ==
  /\ phase = "built"
  /\ IF \E layer \in Layers(adapter) : Refuses(layer)
     THEN phase' = "failed" /\ UNCHANGED method
     ELSE /\ phase' = "load"
          /\ method' = [layer \in Layers(adapter) |-> MethodOf(layer)]
  /\ UNCHANGED <<file, modules, todo, at, known, held, typed, answer>>

\* load_diffusion_gguf_weights goes on to the next source.
NextSource ==
  /\ phase = "load" /\ todo = {} /\ at < Len(sources)
  /\ at' = at + 1
  /\ todo' = Steps(sources[at + 1])
  /\ known' = {}
  /\ UNCHANGED <<file, modules, method, held, typed, phase, answer>>

Take(step, x) ==
  /\ phase = "load" /\ x.step = step /\ \A y \in todo : TwoPasses(x, y)
  /\ todo' = todo \ {x}
  /\ UNCHANGED <<file, modules, method, at, answer>>

\* A qweight_type is remembered and, unless its weight will be restored, passed
\* on to the GGUF parameter of its layer.
TakeType(x) ==
  LET t == x.t
  IN  /\ Take("type", x)
      /\ known' = known \cup {t}
      /\ typed' = IF PassedOn(t) /\ method[LayerOf(t)] = "gguf" THEN typed \cup {t} ELSE typed
      /\ UNCHANGED <<held, phase>>

\* A weight: dense, restored to a dense one, or packed; the host takes it if it
\* has the parameter it is named for.
TakeWeight(x) ==
  LET t  == x.t
      as == IF type[t] = Dense THEN "dense" ELSE IF Restorable(t) THEN "restored" ELSE "packed"
      untyped == as = "restored" /\ t \notin known
      fits == (as = "packed") <=> (method[LayerOf(t)] = "gguf")
  IN  /\ Take("weight", x)
      /\ phase' = IF untyped THEN "failed" ELSE phase
      /\ held' = IF fits /\ ~ untyped
                 THEN held \cup {[tensor |-> t, as |-> as, swapped |-> Swapped(t),
                                  from |-> "gguf"]}
                 ELSE held
      /\ UNCHANGED <<known, typed>>

\* _hf_weights_for_loadable_names
TakeHF(x) ==
  LET t == x.t
  IN  /\ Take("hf", x)
      /\ held' = IF t = "vae" \/ Restorable(t)
                 THEN held \cup {[tensor |-> t, as |-> "dense", swapped |-> FALSE, from |-> "hf"]}
                 ELSE held
      /\ UNCHANGED <<known, typed, phase>>

HeldOf(layer) == {h.tensor : h \in {x \in held : LayerOf(x.tensor) = layer}}

\* Mutant of NotLoaded: what was not loaded is not looked for.
NothingMissing == {}

\* Mutant of NotLoaded: by the names of tensors, which those of shards are not.
TensorsNotLoaded ==
  {t \in TensorsOf(adapter) \cup {"vae"} : t # LayerOf(t) \/ HeldOf(t) = {}}

\* weights_to_load - loaded, by the names of parameters
NotLoaded == {layer \in Layers(adapter) \cup {"vae"} : HeldOf(layer) = {}}

\* The end of _gguf_load_weights
FinishLoading ==
  /\ phase = "load" /\ todo = {} /\ at = Len(sources)
  /\ phase' = IF NotLoaded = {} THEN "ready" ELSE "failed"
  /\ UNCHANGED <<file, modules, method, todo, at, known, held, typed, answer>>

-----------------------------------------------------------------------------
(* The layer asked.                                                        *)
\* Mutant of Uniform: a layer has the type of its first shard.
UniformFirst == TRUE

\* len(set(shard_weight_types)) == 1
Uniform == \A t, u \in HeldOf("qkv") : type[t] = type[u]

\* DiffusionGGUFLinearMethod.apply: along which axis the features of the shards
\* lie, and as which type each was decoded.
Answer(rank) ==
  [rank |-> rank,
   axis |-> IF Uniform THEN rank - 1 ELSE 1,
   as   |-> IF Uniform THEN [t \in HeldOf("qkv") |-> type[FirstOf(HeldOf("qkv"))]]
                       ELSE [t \in HeldOf("qkv") |-> type[t]]]

Apply(rank) ==
  /\ phase = "ready" /\ answer = NoAnswer /\ method["qkv"] = "gguf"
  /\ answer' = Answer(rank)
  /\ UNCHANGED <<file, modules, method, todo, at, known, held, typed, phase>>

Load == ExtendUnquantizedModules \/ InitFromLoadFormat \/ NextSource
        \/ (\E x \in todo : TakeType(x) \/ TakeWeight(x) \/ TakeHF(x)) \/ FinishLoading

Next == Load \/ \E rank \in Ranks : Apply(rank)

\* load_model is one call that runs on; requests come when they come.
Spec == Init /\ [][Next]_vars /\ WF_vars(Load)

-----------------------------------------------------------------------------
(* Properties.                                                             *)

\* Type invariant: a parameter holds what its method can, dense values in a dense
\* one, packed bytes in one of GGUF, which by then knows their type.
TypeOK ==
  /\ phase \in {"start", "built", "load", "ready", "failed"}
  /\ known \subseteq TensorsOf(adapter) /\ typed \subseteq TensorsOf(adapter)
  /\ \A h \in held :
       h.tensor # "vae" => /\ h.tensor \in TensorsOf(adapter)
                           /\ (h.as = "packed") <=> method[LayerOf(h.tensor)] = "gguf"
                           /\ h.as = "packed" => h.tensor \in typed

\* A fused layer is built dense because its first shard is: to_q is in to_qkv.
\* Packed shards then find no parameter, and the name of the layer counts as
\* loaded.
LosesShards ==
  /\ adapter = "qwen_image" /\ method["qkv"] = "dense"
  /\ {type[t] = Dense : t \in {"q", "k", "v"}} = BOOLEAN

\* norm_out has shift before scale if the file has it quantized: qweight is not
\* the name the swap looks for, and the dense restore comes after it.
KeepsShiftFirst == adapter = "flux2" /\ type["ada"] # Dense

\* A pipeline is ready with all of its tensors, and with those of diffusers, or
\* short of packed shards of a fused layer that load_weights has no name for and
\* does not miss, or with the halves of norm_out swapped; no other combination of
\* file, host and order of sources loses or changes one.
AsTrained ==
  phase = "ready" =>
    ((/\ \A layer \in Layers(adapter) : HeldOf(layer) = PartsOf(adapter, layer)
      /\ \A h \in held : h.swapped <=> (adapter = "flux2" /\ h.tensor = "ada"))
       <=> ~ LosesShards /\ ~ KeepsShiftFirst)

\* The transformer is the GGUF file's whatever the order of the sources and
\* however the host names them, the rest the Hugging Face repository's.
OwnSource == \A h \in held : (h.from = "hf") <=> (h.tensor = "vae")

\* apply decodes every shard as its own type, and its features lie on the last
\* axis, except for shards of several types and more than two dimensions: these
\* are concatenated along axis 1, that of the tokens.
FeaturesLast ==
  answer # NoAnswer =>
    /\ \A t \in DOMAIN answer.as : answer.as[t] = type[t]
    /\ answer.axis = answer.rank - 1 <=> answer.rank = 2 \/ Uniform

\* Which files and hosts are refused: separate shards of which to_q is quantized
\* and another is not, or all quantized for a layer that the host keeps dense.
ReasonToFail ==
  LET packed == {t \in {"q", "k", "v"} : type[t] # Dense}
  IN  /\ adapter = "qwen_image"
      /\ IF "qkv" \in plain THEN packed = {"q", "k", "v"}
                            ELSE "q" \in packed /\ packed # {"q", "k", "v"}

\* Every other pipeline is ready in the end: a weight that is restored finds its
\* type, and every parameter something.
Served == phase = "start" /\ ~ ReasonToFail ~> phase = "ready"
=============================================================================
