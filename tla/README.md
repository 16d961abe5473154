# A verification of vllm-gguf-plugin in TLA+

The plugin lets vLLM serve models stored in GGUF files: it adds a quantization
method, a model loader, a config parser and the kernels that multiply by packed
weights. What can go wrong quietly here is not a crash: it is a tensor that lands
in the wrong place, a row decoded as another type, or a kernel that reads the
slots of another expert. The modules of this directory are about that.

Paths below are relative to `src/vllm_gguf_plugin/` unless they start with `src/`.

## 1. The system

    plugin.register -> vLLM registries and patched entry points
    model reference -> loader -> weights adapter -> (name, tensor) stream
        -> vLLM's model.load_weights -> parameter loaders (params)
        -> process_weights_after_loading -> layer.apply -> ops -> kernel

There is one process per tensor-parallel rank and no threads of the plugin's own;
the loading of a rank is a sequential program driven by the order of the tensors
in the file, which the plugin does not choose. Serving calls `apply` any number of
times, and vLLM may call `load_weights` again on a model that serves.

| Component | State it keeps | Operations | What makes it correct |
|---|---|---|---|
| Lazy parameters (`quantization/params.py`) | `data`, `data_container`, `shard_id`, `shard_id_map`, `weight_type`, `shard_weight_type`, lazily materialised | stores of weights and types, tensor-parallel slices, materialisation | id, place, tensor and type of a shard belong together whatever the order of arrival |
| Fused linear layer (`quantization/linear.py`) | the two parameters of a layer, `shard_offset_map` | `create_weights`, `process_weights_after_loading`, `apply` | the answer is the concatenation of the shards, each decoded as its own type; an incomplete layer never gives an answer of full size |
| Fused expert layer (`quantization/fused_moe.py`) | `w13`, `w2` and their types | the same, for experts | every slot is multiplied by the expert it was routed to, decoded as it was packed |
| Routes (`ops.py`, `triton/*/interface.py`, `quantization/utils.py`) | none; tables of types and device gates | GEMV, GEMM, dequantize, expert kernels | each type has a route at any batch size, and no kernel is handed a type or a shape it does not know |
| Embedding (`quantization/vocal_embeds.py`) | the parameters of a layer | `embedding`, `tie_weights` | a row is decoded with the geometry of its type |
| Quantization config (`quantization/config.py`, `diffusion_config.py`) | `unquantized_modules` | `get_quant_method` | a module is left unquantized exactly when the file holds it so |
| Weights adapters (`weights_adapter/`) | `load_spec`: files, name map, unquantized modules | name maps, transformations, split files, expert unbinding | each tensor reaches one parameter; permutations keep blocks whole |
| Checkpoint files (`weight_utils.py`) | none | choice of files, the stream of tensors | a tensor's type is yielded right before its weight |
| Loader (`loader.py`) | none; writes into the shared config | `load_model`, `load_weights`, `download_model` | loading twice does what loading once does |
| Plugin (`plugin.py`, `config_parser.py`, `gguf_utils.py`) | patched classes, registries, caches of path checks | `register`, patched `create_model_config` | idempotent; a reference is classified by what is on disk |
| Type registry (`ik_types.py`, `llama_types.py`, `rocmfpx_types.py`, `mtp_types.py`) | gguf's enum and size table | import-time patches | complete and consistent whatever the import order |
| Diffusion pipeline (`weights_adapter/diffusion/`) | none; patches the host's loader | two-source loading, dense restore | every parameter is loaded from one source |
| Kernels (`triton/`, `csrc/`) | none | decoding and multiplying packed blocks | the same value for the same bits |

Behaviours that are hard to test, with the line where each bites, are the
`hazards` of `PROJECT.json`. They fall into six groups: the order in which tensors
arrive (and the loops that sort them again); state that describes another piece of
state and is written by a different function (type and width, id and place);
operations repeated on a layer that is already padded or materialised, or on a
process that already tried; sizes and layouts that two kernels must agree on;
permutations and slices of packed bytes, where every shape stays right; and names that
are compared by containment.

## 2. The modules

### MergedLoad: what a fused layer promises

Six actions over four variables: which shards arrived, the phase, and the last
answer. A complete layer whose types all have a route answers with its whole
output; any other answers with an error or with too few rows. It never mentions
containers, offsets or types.

### GGUFLinear: one fused linear layer

Models `GGUFLinearMethod` and the parameter stores under it.

| Model | Code |
|---|---|
| `qweight` (record) | the attributes of the parameter: `data_container`, `shard_id`, `shard_id_map` (0 for an absent key), `offsets` for `shard_offset_map`, `data` as a set of placed rows, `cols` its width |
| `weight_type`, `shard_weight_type` | the attributes of `qweight_type` |
| `LoadType`, `LoadWholeType`, `LoadWeight` | `_store_gguf_weight_type` with and without an id, `_store_gguf_loaded_weight`; a type comes right before its weight |
| `Process` | `process_weights_after_loading` whole: materialisation, the check of the type, padding and its two ways to raise |
| `Apply` | `apply`: the fixed order of q, k, v, the fused call when types agree, one call per shard and the concatenation when they do not |
| `Reload` | `GGUFModelLoader.load_weights` on a model that serves |

A row of a matrix is a record of its position, its shard, its number in the shard
and the type it was packed with, so that the concatenation of results can be
compared with what the layer should answer. A product row is `good` when the
kernel read it with the type and the width it was packed with. Rows that come from
the padding are not represented: a matrix of fewer rows than its size is what
`PadRaises` and `Verdict` detect.

The checkpoint is any choice of types, possibly with shards missing (files of a
split checkpoint that are not on disk are skipped), or one tensor that holds all
shards. Exceptions end the load (`status = "refused"`) or a request (`Error`).

### GGUFMoE: one layer of experts

Models `GGUFMoEMethod`, the expert loaders, `_fused_moe_gguf` and the interface of
the expert kernels. `w13` and `w2` are records of the width they were materialised
with, the type `apply` will pass, and which type each expert's rows were packed
with per projection. `LoadType` and `LoadExpert` are the two loaders, which do not
know of each other; `Answer` is `_fused_moe_gguf` with its four lanes. vLLM's
`moe_align_block_size` is external and modelled by what it returns: the position of
each slot in the sorted order, the expert of each block, the lengths of both
arrays. A kernel that reads the sorted slots `M` at a time takes the expert at its
own stride (`ExpertRead`), which is where a disagreement about block sizes shows.

### LayerPromise, QuantTypes, QuantOps: what happens to one request

`LayerPromise` is the abstract side: a request of shape `lead` is answered with a
tensor `lead x width` of the right numbers, which is what the two fake
implementations promise `torch.compile`. `QuantTypes` holds the tables: families
and routing sets (`quantization/utils.py`), capability sets (`ops.py`), Triton
tables, the cases of the extension's switches, and the geometry of rows
(`ik_types.py`). `QuantOps` is the code between them.

| Model | Code |
|---|---|
| `setup` | the layer (use, type, rows, hidden size), the device, which extension is loaded, and how many dimensions its requests have: `HasGemv`, `HasGemm`, `HasDequantize`, `Gfx115x` are the gates |
| `Load` | the check of `process_weights_after_loading`, inherited by the embedding |
| `Linear`, `FusedMulMat` | one request to `_fused_mul_mat_gguf`; its branches in order |
| `MulMatVec`, `MulMat`, `Dequantize` | `ggml_mul_mat_vec_a8`, `ggml_mul_mat_a8`, `ggml_dequantize` of `ops.py` |
| `NativeProduct`, `TritonGemm` | what a kernel returns for the dimensions it is given: the extension reads the first two, Triton flattens and restores |
| `NativeDequantize`, `TritonDequantize`, `Decoded` | the checks of each decoder on its shape, and whether it finds the rows where they are |
| `Embed`, `EmbeddingLookup` | one request to `_apply_gguf_embedding` |

Numbers are abstracted to one bit, whether they are the right ones: wrong when a
kernel takes a dimension for another, or a decoder that needs the length of a row
is given another length. Widths are counted in weights, except for the formats
with a scale per row, where bytes are what the functions disagree about.

### BlockBits, GemmKernels, MoEKernels, Decoders, IKDecoders, NativeDecoders, BlockLayout: packed blocks

Which bits of a block hold which weight, in every piece of code that reads one. A
weight is a record of where its code is, how it is cut out, its sign, and the scales
and minima that multiply it, each a set of bit positions from the start of the block
(negative ones are the prefix of the row). `BlockBits` has the positions and the
helpers; `GemmKernels` and `MoEKernels` give, for a step of a kernel's loop and a lane,
the activation and the weight it multiplies; `Decoders` (Triton), `IKDecoders` (Python
tensor code) and `NativeDecoders` (the extension) give the weight a decoder writes at a
column. They are pure operators, one per kernel, in the terms of the index
expressions of the code.

`BlockLayout` runs them: `Launch` picks a kernel, a type and a tensor, `Step` is one
turn of the loop over a block with all its lanes, `Return` is the end of the call, where
the Python decoders multiply codes by scales by broadcasting and reshape the
result (`Operands`, `Broadcast`, `Decode`).

### PackedRows: what ranks keep of a tensor

Each rank reads the file for itself: `TransformWeight` is the permutation of V heads of
`transform_weight`, then one action per loader (`LoadColumn`, `LoadRow`, `LoadMerged`,
`LoadQKV`, `LoadEmbedding`) narrows what came to the rank's share. A tensor is the
sequence of its rows, or, for the two row-parallel parameters, of the bytes of a row;
a byte knows the columns of its block and its place there, so that `Decoded` tells a
block that was cut or mixed from a whole one. `Tiled` is what llama.cpp's converter did
and external; `Undone` is `_undo_v_head_tiling`.

### References and ModelLoad: from a reference to a model

`References` is the way of a reference through `create_model_config` as `plugin.py`
patches it (any number of times on one `EngineArgs`), the classification with its
caches (`asked` is the cache of `check_gguf_file`), the config parser, and the choice of
a file by patterns and sorting. A failed attempt leaves the caches behind. The
file may appear on disk between attempts (`TryAgain`) and between two calls of one
(`FileAppears`).

`ModelLoad` extends it with `load_model`:

| Model | Code |
|---|---|
| `PrepareWeights` | `_prepare_weights`; `Opened` says which parts of a split are there |
| `PrepareLoading` | `prepare_loading` of the adapter: `Patched` config, tied embeddings, `UnquantizedModules` added to the shared list |
| `InitializeModel` | `initialize_model`: `get_quant_method` for each layer, and the `ValueError` for shards that disagree |
| `LoadTensor` | one tensor through the iterator, `transform_weight`, `map_weights` and `model.load_weights` |
| `FinishLoading` | the end of `load_model`, which compares nothing |
| `LoadSecond` | a draft model, with the same `GGUFConfig` |

The stream of tensors is the set of places that are still to be read; `LoadTensor` takes
the first in the order of the files and of `FileOrder`.

A model has one tensor of each kind the code treats differently: two shards of a fused
layer (with a bias in the vision tower of gemma3), a norm, the norm, convolution and
`A_log` of linear attention, the gate of a shared expert, the experts of a layer in one tensor, embedding, head, and
one tensor without a name.

### DiffusionLoad: a GGUF transformer in a host pipeline

`ExtendUnquantizedModules` and `InitFromLoadFormat` are `_gguf_load_model`; then each
source in the host's order (`NextSource`) yields its steps: `TakeType` and `TakeWeight`
for the two passes over the GGUF file, `TakeHF` for a Hugging Face source. What is left
of a source is a set, of which `TwoPasses` says what comes first.
`FinishLoading` is the check for parameters that were not loaded, and `Apply` is
`DiffusionGGUFLinearMethod.apply` on the fused layer for input of two to four
dimensions. Names matter: `IsNamedIn` has the two pairs of names one of which is part
of the other.

### Proof modules

`GGUFLinearProofs` (also about `MergedLoad`), `GGUFMoEProofs`, `QuantOpsProofs`,
`BlockLayoutProofs`, `PackedRowsProofs`, `PackedColumnsProofs`, `ModelLoadProofs` and
`DiffusionLoadProofs` hold the theorems of section 5. MC modules only give values to constants.

## 3. The runs

| Run | Question | Result |
|---|---|---|
| `linear` | Does a layer keep types, offsets and rows in place for every file, missing shard, order, and one reload, and does it implement `MergedLoad`? | yes |
| `moe` | With blocks of 8 in the extension and 4 in Triton: do width and type stay together, are slots multiplied by their experts whenever both kernels agree on the size of a block, and does the check of the ROCmFPX lane prevent what it is there for? | yes |
| `moe_routed` | "rather than silently selecting a wrong kernel": every slot by its own expert? | no: TQ2_0 with Q5_K in the MMQ lane |
| `block_layout` | Do all kernels and decoders of a type find the same weight at a column, use every bit of a block, and each column once? | yes, but for the decoders below |
| `native_decoders` | The native decoders against the Python ones that stand in for them | no: IQ1_BN, IQ3_KS, IQ5_KS |
| `llama_blocks` | "Decode llama extras blocks without Triton or native extensions." | no: one block only |
| `routes_served` | Every type, platform and batch size, two and three dimensions, linear and embedding: is the promise kept, the gate closed, no kernel lost? | yes, for the layers that meet `Delivers` |
| `packed_rows` | Do the shares of 1 to 4 ranks make up the tensor in the order of the HF checkpoint, K/V heads by their queries, blocks whole, tokens where the lookup reads? | yes; `OwnColumns` states the exact condition for packed columns |
| `v_head_blocks` | "the ``out_proj`` column permutation is block-aligned" | no: a K-quant block spans two heads of 128 |
| `model_load` | Does the loader get the user's reference and the first of the files it matches, does every parameter get its slice with the values of the HF checkpoint, and does a file in its place end up served, or refused for a reason in the files? | yes; `ReasonToFail` states the reasons |
| `split_heads` | "This loader supports loading both full models and sharded models.": is the head of a split the model's? | no: tied embeddings take its place |
| `diffusion` | Is every parameter loaded from its own source, as trained, and every shard decoded as its type? | yes; `AsTrained`, `FeaturesLast` and `ReasonToFail` state the exact conditions |

Several properties are equivalences: the good outcome on one side, the condition under
which the code reaches it on the other. They say both that nothing else goes wrong and
that what is listed really does (section 4). `HeadIsItsOwn` is not one of them: it says what must
hold however `update_tie_word_embeddings` looks at the parts of a split, and `split_heads`
what does not hold today.

`routes_served` has every layer of its bounds that meets `Delivers`. What that leaves out
are three-dimensional requests of types with a native GEMM when there is an extension,
formats with a scale per row without one, or in rows too long for the reader, and
embeddings of formats that go to a decoder that looks at the shape; section 4 says why.
Each layer left out answers some request of the run wrong or not at all: `KeepsPromise`
says nothing of these, and the `hazards` of PROJECT.json that meet them say so in a note.
`block_layout` leaves out the native decoders of three types and five Python decoders,
which the two refuting runs are about (IQ5_KS leaves a bit of each scale byte unread).

Deadlock is checked in `block_layout`; elsewhere not, as a refused load and an exhausted
budget are ends the system really has.

### Fairness

Loading is a sequential call: once made it runs on until it returns or raises, which is
weak fairness of the actions of `load_model` (`Loading`, and `Resolving` for
`create_model_config` and the parser, in `ModelLoad`; `Load` in `DiffusionLoad`).
Nothing is assumed of what a user does: that an attempt is repeated, a draft model is
loaded, a file is put in its place or a request is made. With it `EventuallyServed` and `Served` say that loading
ends, and ends well unless the files give a reason. The other modules state no
fairness: the layers are driven by vLLM and wait for nothing.

### Bounds

- Linear: three shards, with the ids of a qkv layer or of a merged one, and five
  types (two pairs of one width, one that no route serves); shards of 3 and 2 rows,
  so that no two neighbouring boundaries coincide; one reload. Three shards give an
  arrival order in reverse, two widths for padding and a missing shard between two
  others; a second reload meets a state a first one already left.
- Experts: three experts, two per token, one and two tokens. `LongBatch`, 64 in the
  code, is 1 here, so that two tokens are a long batch. Eight types (four in
  `moe_routed`), four of them of one width, one for each combination of routes and block sizes. Three experts with
  blocks of 4 and 8 give sorted arrays that are shorter than, equal to and longer than
  what the other block size expects.
- Blocks: every type of every kernel, whole blocks, all lanes. Tensors of one and two
  rows of one and two blocks: a broadcast that is wrong for any number is wrong for two.
- Routes: every type the reader can deliver, three devices, three states of the
  extension; 64 and 6144 rows, on both sides of 5120; token counts on both sides of
  the thresholds 2, 6, 8 and 16 and at the block sizes 32 and 256; rows of two
  256-weight blocks, the least for which a scale per row and a scale per block
  differ, and, for the formats with a scale per row, of 34 blocks, where IQ4_KSS no
  longer fits and the others still do. The routes depend on sizes only through these comparisons.
- Packed rows: one to four ranks; one to four K heads and two to eight V heads, among
  them fewer, as many and more K heads than ranks, and no permutation that is its own
  inverse; blocks of half a head, one head and two, prefixes of part of a block
  and of a whole one; vocabularies of 5, 8 and 9 rows padded to 4, so that a rank has
  all, some or none of its rows.
- Loading: two attempts, two calls of `create_model_config`, two models, two experts,
  splits in two parts, of which the one not opened has the head, or a shard and a norm. A third attempt starts with caches the second may have found already.
  The file of a file reference is there from the start, appears between any two
  calls before loading (`FileAppears`), or between two attempts. `split_heads` has one
  attempt, one model and one expert, which its trace needs.
- Diffusion: all mixtures of a dense and two packed types over the tensors of a block,
  all hosts that keep some of three layers dense, three ways to name the transformer's
  source and both orders.
- `Width` gives the bytes of 256 weights for the real types.

## 4. What was found

Five are runs that TLC refutes, with a `findings` entry that quotes the line.

1. The MMQ lane shares one sort between a Triton-only w1 and a native w2 without
   comparing their block sizes, and the second matmul reads other experts' rows
   (`moe_routed`).
2. Three ik_llama types decode to other weights in Python than in the extension:
   IQ3_KS wraps small scales in a byte, IQ5_KS ignores the bit that selects half of its
   codebook, IQ1_BN keeps carries and takes its digits in the other order
   (`native_decoders`).
3. The Python decoder of TQ1_0, TQ2_0, Q1_0 and Q2_0 multiplies codes by scales of one
   axis too many and raises for more than one block (`llama_blocks`).
4. The V-head permutation of `out_proj` cuts blocks that span several heads, silently
   (`v_head_blocks`).
5. A split checkpoint that has a head is given tied embeddings, as each of its files
   lacks the head or another does (`weights_adapter/default.py:538`; `split_heads`).

The others are conditions in properties, or layers an instance leaves out:

- A gate and an up tensor of two types with one row width load, and both are decoded as
  the type that came last (`quantization/fused_moe.py:395`; `GGUFMoE`, where
  `OneTypeDecodes` is about layers of one type for gate and up).
- Without the extension a linear layer of a format with a scale per row raises at its
  first request: `GGML_QUANT_SIZES`, from which the reader cuts rows, has prefix plus
  payload for every block (`ik_types.py:290`), so a row of two blocks is a prefix too
  long for the decoder, which counts the bytes (`triton/dequantize/ik_ks_reference.py:142`).
  `tests/test_ik_row_prefix_geometry.py` builds its rows by the formula of the docstring
  at `ik_types.py:181` and not with the reader (`QuantOps`; `LinearDelivers`).
- A file of a repository that lies in a subdirectory is downloaded, as `snapshot_download`
  matches patterns against whole paths, and then not found by `glob`, which looks into the
  folder itself (`weight_utils.py:43`). `tests/test_gguf_download.py:69` replaces `glob` by
  a function that returns the file for any pattern (`References`; `Matches`).
- A layer of experts whose gate and up tensors differ in row width cannot be loaded
  (`quantization/params.py:157`; `OneTypeDecodes` is about layers of one type per
  parameter).
- In the ROCmFPX lane the slots are sorted with the block size of the extension for w1
  while the kernels are Triton's: a one-token request raises
  (`quantization/fused_moe.py:101`; `GuardedLane`).
- A three-dimensional request that reaches the native GEMM comes back with two
  dimensions and products of the wrong axis (`quantization/linear.py:128`).
- Linear layers of MXFP4 and NVFP4 are refused when loading ends, although their
  kernels, tables and tests exist (`quantization/linear.py:222`).
- `_apply_gguf_embedding` exchanges rows and columns; decoders that check the
  shape raise for most numbers of tokens (`quantization/vocal_embeds.py:42`).
- Formats with a scale per row: with the extension they are decoded, as `gguf_qweight_dequant_shape` counts the blocks of a row before the row is
  cut; but the bytes of the scales that the reader counts once per block add up to a block of
  their own in long rows, from 33 blocks for IQ4_KSS and 35 for IQ4_KS on, and the shape
  no longer matches (`ik_types.py:185`; `RowFits`). The proof of `PromiseKept` found this
  one; the tests have rows of a few blocks.
- A row-parallel rank whose share is not a whole number of blocks, or whose rows have a
  prefix, decodes garbage (`quantization/params.py:237`; `KeepsBlocks`).
- gemma3 reads one part of a split; a file path asked for before the file was there leaves
  its tied embeddings to the HF config (the exception in `HeadIsItsOwn`).
- A quantized vision tower with biases fails: the name of a bias contains that of its
  layer, which counts as unquantized (`quantization/utils.py:29`). A draft model whose
  precisions differ from those of the first fails likewise (`loader.py:92`;
  `ReasonToFail` of `ModelLoad`).
- `<local_dir>:<quant>` and `<repo>/<file>.gguf` without a tokenizer or
  `hf_config_path` are their own config source, which the parser cannot read; of prefixed
  types (`UD-`) the local form knows none (`gguf_utils.py:141`).
- A diffusion layer with a dense `to_q` and packed `to_k` or `to_v` is built dense and loses
  them without an error; a quantized `norm_out` of Flux2 has shift and scale in the
  order of the file (`AsTrained`); shards of several types are concatenated along the
  axis of tokens for more than two dimensions (`FeaturesLast`).

## 5. What is proved

TLAPS checks these for every number of shards, experts, heads, ranks and tokens, every
set of types, every width and every bound, from the named assumptions in the modules:
sizes and widths are positive integers, the type 0 exists, a layer has two shards or
more, a hidden size is whole blocks of 256, requests have two to four dimensions where the
model has them. Two assumptions say more: `FoldersAssumption` (a folder holds files of the
names the model knows) and `DeviceAssumption` (a gfx115x device runs the ROCm build, whose
native kernels read blocks of 8 slots, and a Triton kernel 4 or 8: the block of the extension
is that of the Triton kernel or at least twice as large). TLC evaluates all of them.

### The fused linear layer

- `GGUFLinearProofs!TypeCorrect`: `Spec => []TypeOK`. Inductive as it stands; the
  padding needs the finiteness of the set of rows written (`OffsetType`).
- `GGUFLinearProofs!OwnPlaceAlways`: `Spec => []OwnPlace`. Inductive with `TypeOK`:
  the three views of the container change only in `Stored`, and `Process` ends the
  state the invariant speaks about.
- `GGUFLinearProofs!OwnTypeAlways`: `Spec => []OwnType`. Needs the strengthening
  `TypesFollow`: outside of a served state too, the type of a delivered shard is the
  file's, for either way of delivering types, and a tensor for all shards is of one
  type. It holds across reloads because the maps of types are never cleared.
- `GGUFLinearProofs!CanonicalLayoutAlways`: `Spec => []CanonicalLayout`. The inductive
  invariant `Layout` tells three situations apart. *Apart*: nothing was merged yet, and the
  parameter holds the shards one by one. *Together*: it serves, and its data is
  `Matrix(Got)`, each shard after the smaller ones, as wide as the widest. *Again*: shards
  arrive at a parameter that was merged before. The last is why a reload is harmless: more
  rows are to be written than `concat_side` counts, so `Process` raises (`AgainRaises`). Rows
  are counted by cardinalities of sets of (shard, row) pairs (`TotalAdd`, `BelowApart`).
- `GGUFLinearProofs!NeverWrongAlways`: `Spec => []NeverWrong`, from `Layout` and `Answered`:
  the last answer of a serving layer is an error or the rows of the shards that arrived, each
  decoded as its own (`ApplyAnswers`, with one call for the whole matrix in
  `WholeProduct` and one per shard in `SliceRows` and `ConcatenatedRows`); an output of
  fewer shards has too few rows (`OutputVerdict`).
- `GGUFLinearProofs!ImplementsMergedLoad`: `Spec => Implements`, the refinement of
  `MergedLoad`. Each action of `GGUFLinear` is one of `MergedLoad` or a stutter
  (`StepImplements`): loading a type stutters, `LoadWeight` delivers or refuses, `Apply`
  answers as the shards that arrived and their routes say.

### The fused expert layer

- `GGUFMoEProofs!TypeCorrect`: `Spec => []TypeOK`.
- `GGUFMoEProofs!WidthFollowsType`: `Spec => []WidthOfType`. Needs `Opening` (while the
  first tensor of a parameter is delivered, its type is the parameter's) and `Typed`
  (a parameter of some width has a type). This is why a reload that raises half-way
  cannot leave a parameter with the type of one tensor and the width of another.
- `GGUFMoEProofs!RoutedInStepAlways`: `Spec => []RoutedInStep`. `BlocksApart` and
  `ReadsOwn` say that in the arrays of `moe_align_block_size` the blocks of different experts
  do not overlap, so that a kernel that reads them at the size they were sorted for finds
  the expert of every slot; `RoutedAnswer` carries it through the lanes. The invariant `Asked`
  is that the last answer was computed from the parameters as they still are.
- `GGUFMoEProofs!GuardedLaneAlways`: `Spec => []GuardedLane`. Where the sizes of blocks
  differ in the ROCmFPX lane, one is at least twice the other, and the arrays sorted for
  the larger hold more slots than `_validate_args` allows (`SortedForMore`): this
  is where `DeviceAssumption` is needed.
- `GGUFMoEProofs!OneTypeDecodesAlways`: `Spec => []OneTypeDecodes`, from `Complete`: of a
  projection whose type a parameter saw, every expert's rows arrived, or those before the
  one that is next, or the layer was refused.

### Routes

- `QuantOpsProofs!TypeCorrect`: `Spec => []TypeOK`, inductive because it remembers
  that only a checked type gets ready.
- `QuantOpsProofs!GatedAlways`: `Spec => []Gated`. Rests on `RocmfpxTables`, that of the
  ROCmFPX formats only type 101 is in a routing set, and on what each entry point of
  `ops.py` can return for them.
- `QuantOpsProofs!ReachesKernelAlways`: `Spec => []ReachesKernel`, from `KernelTables`:
  both routing sets hold these formats and no earlier branch takes them.
- `QuantOpsProofs!PromiseKept`: `Spec /\ Delivers(setup) => KeepsPromise`, the refinement of
  `LayerPromise` for every layer that `Delivers`. That condition is not an
  assumption of convenience: the run `routes_served` runs all layers of its bounds for which
  it holds, and for each of the others some request of those bounds is answered wrong or
  raises. The proof rests on tables (`DecoderTables`, `RouteTables`: what is routed has a
  kernel at the end; the llama.cpp types, whose Python decoder fails for more than one
  block, are never dequantized there) and on arithmetic (`WholeBlocks`, `RowLength`). `RowFits`, one conjunct
  of `Delivers`, came out of the proof (section 4).

### Ranks

- `PackedRowsProofs!UndoneInvertsTiled`: for every number of K heads and of V heads per K
  head, every width of a head in rows or bytes, and every sequence of that length,
  undoing what the converter did gives the sequence back. `Swapped` is an index
  computation; the proof takes an index apart into block, head and offset with
  the uniqueness of quotient and remainder (`Division`) and puts it together the other
  way round.
- `PackedRowsProofs!RanksJoinToHFAlways`, `TokenAtItsRowAlways`, `QueryMeetsItsKeyAlways` and
  `RowsTypeCorrect`: `Spec => []P` for the four properties of rows. All four use
  `FollowingAlways`: what a rank holds is `Kept(r, id)`, a function of the layer alone, whatever
  the pace of the ranks. The rest is arithmetic of slices: equal shares in
  order make a sequence up (`JoinedShares`), a rank's query heads are whole groups whose K
  heads are those the rank keeps (`GroupsOfFewRanks` and `GroupsOfManyRanks`, for K heads
  split over ranks and K heads on several), the range of a rank ends in padding only
  behind the vocabulary (`RowsOfAVocabulary`).
- `PackedColumnsProofs!OwnColumnsAlways`: `Spec => []OwnColumns`, for every format, every
  size of its blocks and of its prefix. Whole blocks are enough (`SharesKept`): moving heads
  of whole blocks as bytes is moving their columns (`PackedSwapped`, `RestoredPacked`), and a
  slice of whole blocks decodes as the slice of the columns (`WholeColumns`). They are also
  necessary: a prefix is in the share of one rank only (`PrefixOnce`), and where a head is
  moved that is no whole number of blocks, the block it ends in is one of the first head's
  (`CutBlock`), which rank 0 needs and which the second head's bytes now interrupt
  (`HeadsOfBlocks`). That rank 0 alone suffices for this direction is what makes `KeepsBlocks`
  exact for more than one rank. `Shaped` adds to `Following` that a rank that goes on has
  a row `reshape` accepted.

### References and loading

- `ModelLoadProofs!ReferenceIsKept`: `Spec => []ReferenceKept`, and
  `ModelLoadProofs!RefusalsAreStale`: `Spec => []RefusedOnlyWhenStale`. Both from one
  invariant: `Remembers` (before the rewriting `EngineArgs` hold the user's
  reference, afterwards `model_weights` does) and `Placed` (what the rewriting made of
  a file, wherever it is by now: a source of the config, or the file itself because of an
  early answer; that it does not ask for the file makes it inductive although the file may
  appear at any time). A source of the config is no GGUF reference (`SourceIsNoGGUF`), which is why a
  second call changes nothing.
- `ModelLoadProofs!FirstOfItsSplitAlways`: `Spec => []FirstOfItsSplit`, about the sorting of
  names in `download_gguf` and `resolve_local_gguf`.
- `ModelLoadProofs!LoadTypeCorrect`, `RestoredAlways`, `NoNeedlessRefusalAlways`,
  `WholeAlways` and `HeadIsItsOwnAlways`: `Spec => []P` for the five properties of what is
  loaded. The invariant has four parts: `Sorts` (kinds of values), `Right` (every parameter
  was yielded, with its own slice and values), `Carry` (the list of unquantized modules
  that outlives a model: empty before the first, then that model's, and at least that of the
  next) and `Flow` (what was asked for came or is to come, loading fails only for a reason,
  and embeddings are tied exactly as the files and the early answers say).
  `HeadIsItsOwnAlways` follows from `Flow`: where embeddings are not tied, some file that is
  read has the head (`FilesRead`), what comes is loaded (`ReadyHasWhatCame`), and where the
  one file of a checkpoint has it, nothing but an early answer ties them.
  `NoReasonNoFailure` and `LoadTensorStep` are the lemmas that read the code.
- `DiffusionLoadProofs!PipelineTypeCorrect`, `OwnSourceAlways`, `FeaturesLastAlways` and
  `AsTrainedAlways`: `Spec => []P` for the four properties. `Built` says that the methods
  are those the names in the file give, `Delivered` that of the tensors of the file those
  that fit are held or still to come, packed ones after their type, and `Answered` that the
  last answer is that of the layer as loaded. For `AsTrained` it is decided which shards of
  a fused layer fit (`ShardsFit`).

### Kernels and decoders

The theorems of `BlockLayoutProofs` have a hypothesis on the constant `Launches`: for the
kernels, `Launches \subseteq Agreeing`. `Agreeing` holds every dense, expert and host kernel
with every type it serves, every tensor decoder with every type, and the native decoders of
all types but IQ1_BN, IQ3_KS and IQ5_KS, for which the run `native_decoders` shows that the
statement is false. The run `block_layout` launches all of `Agreeing` but two kinds: the decoder
of IQ5_KS, which leaves a bit of each scale byte unread, and those of the four types of
llama.cpp, which have the run `llama_blocks`.

- `AgreeingKernels`: `Spec => []SameWeights`. The proof goes type by type and kernel by kernel
  (`HalvesLanes`, `ChunkLanes`, `HalfChunkLanes`, `GridLanes`, `LowBitLanes`,
  `TernaryExpertLanes`, `FPXLanes`, `NVFP4Lanes`, `CpuWeights`, and a lemma for each native
  decoder): the byte and bit a lane computes from step and lane, and those the decoder
  computes from the column, are equal as terms of quotients and remainders. The scales that were
  unpacked one by one in one place and eight or sixteen at a time in another have lemmas of
  their own (`ScaleMinVector`, `Q3Vector`, `Moe_Q3_K_Scale`). `EveryLane` joins them.
- `EveryColumnOnce`: `Spec => EachOnce`. `EveryColumn` says that the lanes of step `c` are the
  columns from `c * Lanes` on, also where a kernel pairs the halves of a block or of a group,
  and `StepFits` that a block is a whole number of steps.
- The inductive invariant of both is `BlockInv`: the columns done are the first
  `step * Lanes` of the block, and the codes and bits read are those the decoder of the type
  reads for them. It also gives `ReadsAsDecoder` (`read` is a function of `type` and
  `done`) and reduces `OwnCode` and `WholeBlock` to the decoders.
- `EveryWeightOwnCode`: `Spec => []OwnCode`. For each of the 51 types a lemma `Own_<type>`:
  the first bit of a code and the place in it determine the column. `BlockOwn`
  makes that a bijection from columns to codes, so that their numbers are equal.
- `WholeBlocks`: `Spec => []WholeBlock`, if for each type launched the bits its decoder reads for
  all columns of a block are `Storage`. That the columns are all done is proved
  (`FinishedBlock`). The hypothesis has no variable and nothing unbounded in it. It is a
  finite union for each type, which TLC evaluates when it checks `WholeBlock` on a decoder.
- `DecodersRaise` and `DecodersReturn`: `Spec => []OneBlockOnly` and
  `Spec => []DecodesWellFormed` for every number of rows and blocks. The first says that the
  decoders of the four llama.cpp types raise exactly for tensors of more than one block,
  however long; the run `llama_blocks` shows one such tensor. `BroadcastColumn`,
  `BroadcastRow`, `BroadcastNumber` and `BroadcastSquare` compute the shapes;
  `BroadcastSquare` is the flaw: scales of shape `(n, 1, 1)` stretch codes of shape
  `(n, q)` to `(n, n, q)`. The invariant `CallInv` carries the result from launch to return.

### Only model-checked

- That the decoder of each type reads every bit of its storage: the hypothesis of
  `WholeBlocks`.
- Liveness (`EventuallyServed`, `Served`), which is out of this prover's reach.

## 6. What is not modelled

- The arithmetic of the kernels: rounding, accumulation, dot products; pointers,
  strides, masks and launch sizes. The tiled matmuls and dot products of the extension
  (`mmq.cuh`, `mmvq.cuh`, `moe.cuh`, `moe_vec.cuh`, `vecdotq.cuh`) come from llama.cpp.
- Tables of names: the name maps of model families, gemma3's regular expressions,
  the renaming of diffusion adapters, vLLM's mappers applied to the shared list
  (`quantization/config.py:99`), and `mtp_types.py`. A model here has one tensor of each
  kind, and its names are right.
- The rebinding of gguf's enum by several modules at import (`ik_types.py:274`): it
  happens once, before any state of the plugin exists. What the size table
  says afterwards is in `QuantTypes` and `BlockLayout`.
- The registrations of `plugin.register` and the speculator probe: a test and an
  entry in a table of vLLM each.
- Layers: the mixed-dtype assertion of the padding (all packed tensors are bytes);
  weights and activations on the CPU; the data of the type parameters, which nothing
  reads; layers of a single shard; `apply_router_weight_on_input`, which raises;
  `tie_weights` of the embedding. Tensor-parallel slices are in `PackedRows` and a shard of
  `GGUFLinear` has the rows its rank keeps: the two are not composed.
- Files: `mmproj` files beside a model are not in the folders, although `:F16` may match one;
  the parts of a split are two.
- `scripts/` and `validation/`, tools that the plugin does not call.

## 7. Plan

1. *Done:* `MergedLoad`, `GGUFLinear`, `GGUFMoE`, `LayerPromise`, `QuantTypes`, `QuantOps`
   and their first theorems.
2. *Done:* `BlockLayout` and its kernels and decoders; `PackedRows`; `References`,
   `ModelLoad`; `DiffusionLoad`.
3. *Done:* the inductive invariants of all components, the refinements of `MergedLoad` and
   `LayerPromise`, and the lemmas on slices, permutations, shapes and bits.
4. Left: the union of the bits each decoder reads, as a proof.

