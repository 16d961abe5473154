--------------------------- MODULE ModelLoadProofs ---------------------------
(***************************************************************************)
(* What becomes of a reference, for every folder, number of attempts and   *)
(* number of calls of create_model_config on one EngineArgs.               *)
(***************************************************************************)
EXTENDS ModelLoad, TLAPS

\* The phases before loading, in which the reference is still at stake.
Early == {"args", "config", "raised", "other"}

\* model_weights is filled once, with the model the user gave.
Remembers ==
  IF args.load_format = "gguf" THEN args.model_weights = {ref}
  ELSE args.model = ref /\ args.model_weights = {}

\* What create_model_config made of a file, wherever it is by now: a source of the
\* config, or the file itself because of an early answer.
Placed ==
  OnDisk(ref) =>
    IF args.load_format = "gguf"
    THEN \/ args.model.form \in Sources /\ phase = "config"
         \/ args.model = ref /\ asked = "no" /\ ~ (tokenizer \/ hf_config_path)
    ELSE args.model = ref /\ asked = "no" /\ ref.form = "blob"

IInv ==
  /\ Remembers
  /\ asked \in {"unasked", "yes", "no"}
  /\ phase = "args" => args = NewArgs
  /\ phase \in {"config", "raised", "other"} => Placed

LEMMA Start == Init => IInv
  BY DEF Init, InitReferences, IInv, Remembers, NewArgs

\* A source of the config is no GGUF reference.
LEMMA SourceIsNoGGUF ==
  ASSUME NEW r, r.form \in Sources
  PROVE  ~ IsGGUFReference(r) /\ ~ OnDisk(r) /\ Asked(r) = asked
  BY DEF Sources, IsGGUFReference, BySuffix, IsGGUF, CheckGGUFFile, IsRemoteGGUF,
         IsLocalGGUFQuant, OnDisk, Asked

LEMMA CreateKeeps ==
  ASSUME IInv, CreateModelConfig
  PROVE  IInv'
<1> USE DEF CreateModelConfig, user
<1> DEFINE m == args.model
<1>1. CASE IsGGUFReference(m)
  <2>1. args' = Rewritten(m) /\ asked' = (IF AsksFile(m) THEN Asked(m) ELSE asked)
    BY <1>1
  <2>2. asked' \in {"unasked", "yes", "no"}
    BY <2>1 DEF IInv, Asked
  <2>3. Remembers'
    BY <2>1 DEF IInv, Remembers, Rewritten
  <2>4. m.form \notin Sources
    BY <1>1, SourceIsNoGGUF
  <2>5. ASSUME OnDisk(ref)
        PROVE  \/ ConfigSource(m).form \in Sources
               \/ ConfigSource(m) = ref /\ asked' = "no" /\ ~ (tokenizer \/ hf_config_path)
    <3>1. m = ref
      BY <2>4, <2>5 DEF IInv, Remembers, Placed, NewArgs
    <3>2. CASE tokenizer \/ hf_config_path
      BY <3>2 DEF ConfigSource, Source, Sources
    <3>3. CASE ~ (tokenizer \/ hf_config_path)
      <4>1. AsksFile(m)
        BY <3>3 DEF AsksFile
      <4>2. ~ IsRemoteGGUF(m)
        BY <3>1, <2>5 DEF OnDisk, IsRemoteGGUF
      <4>3. asked' = Asked(ref)
        BY <4>1, <2>1, <3>1
      <4>4. CASE asked = "no" \/ (asked = "unasked" /\ ~ there)
        BY <4>2, <4>3, <4>4, <3>1, <3>3, <2>5 DEF ConfigSource, CheckGGUFFile, Asked
      <4>5. CASE ~ (asked = "no" \/ (asked = "unasked" /\ ~ there))
        <5>1. CheckGGUFFile(m)
          BY <4>5, <3>1, <2>5 DEF CheckGGUFFile, IInv
        <5> QED BY <5>1, <4>2, <3>3 DEF ConfigSource, Source, Sources
      <4> QED BY <4>4, <4>5
    <3> QED BY <3>2, <3>3
  <2>6. Placed'
    BY <2>1, <2>5 DEF Placed, Rewritten, OnDisk
  <2> QED BY <2>2, <2>3, <2>6 DEF IInv
<1>2. CASE ~ IsGGUFReference(m)
  <2>1. args' = args /\ asked' = Asked(m)
    BY <1>2
  <2>2. asked' \in {"unasked", "yes", "no"}
    BY <2>1 DEF IInv, Asked
  <2>3. Remembers'
    BY <2>1 DEF IInv, Remembers
  <2>4. ASSUME OnDisk(ref)
        PROVE  Placed'
    <3>1. CASE m = ref
      <4>1. ref.form = "blob" /\ ~ CheckGGUFFile(ref)
        BY <1>2, <3>1, <2>4 DEF IsGGUFReference, BySuffix, IsGGUF, OnDisk
      <4>2. asked = "no" \/ (asked = "unasked" /\ ~ there)
        BY <4>1, <2>4 DEF CheckGGUFFile, IInv
      <4>3. asked' = "no"
        BY <4>2, <2>1, <2>4, <3>1 DEF Asked
      <4> QED BY <2>1, <3>1, <4>1, <4>3, <2>4 DEF IInv, Placed, NewArgs, OnDisk, Remembers
    <3>2. CASE m # ref
      <4>1. m.form \in Sources /\ args.load_format = "gguf"
        BY <3>2, <2>4 DEF IInv, Placed, NewArgs, Remembers
      <4> QED BY <4>1, <2>1 DEF Placed
    <3> QED BY <3>1, <3>2
  <2>5. Placed'
    BY <2>4 DEF Placed, OnDisk
  <2> QED BY <2>2, <2>3, <2>5 DEF IInv
<1> QED BY <1>1, <1>2

LEMMA ParseKeeps ==
  ASSUME IInv, ParseConfig
  PROVE  IInv'
<1> USE DEF ParseConfig, user
<1>1. asked' = Asked(args.model) /\ args' = args
  OBVIOUS
<1>2. Remembers' /\ asked' \in {"unasked", "yes", "no"}
  BY <1>1 DEF IInv, Remembers, Asked
<1>3. ASSUME phase' = "raised", OnDisk(ref)
      PROVE  args.model = ref /\ asked' = "no" /\ ~ (tokenizer \/ hf_config_path)
  <2>1. args.model.form \notin Sources
    BY <1>3
  <2>2. args.model = ref /\ asked = "no" /\ ~ (tokenizer \/ hf_config_path)
    BY <2>1, <1>3 DEF IInv, Placed
  <2> QED BY <2>2, <1>1 DEF Asked
<1>4. phase' \in {"prepare", "raised"}
  OBVIOUS
<1>5. phase' \in {"config", "raised", "other"} => Placed'
  BY <1>3, <1>4, <1>1 DEF Placed, OnDisk
<1> QED BY <1>2, <1>4, <1>5 DEF IInv

LEMMA AgainKeeps ==
  ASSUME IInv, TryAgain
  PROVE  IInv'
  BY DEF TryAgain, IInv, Remembers, NewArgs

\* The loader goes on from "prepare" and leaves EngineArgs alone.
LEMMA LoadingKeeps ==
  ASSUME IInv, Loading \/ LoadSecond
  PROVE  IInv'
<1>1. args' = args /\ ref' = ref /\ phase' \notin Early
  BY DEF Loading, LoadSecond, PrepareWeights, PrepareLoading, InitializeModel, LoadTensor,
         FinishLoading, user, Early
<1>2. asked' \in {"unasked", "yes", "no"}
  BY DEF Loading, LoadSecond, PrepareWeights, PrepareLoading, InitializeModel, LoadTensor,
         FinishLoading, IInv, Asked
<1> QED BY <1>1, <1>2 DEF IInv, Remembers, Early

\* No answer changes when the file appears, only the next one asked for.
LEMMA AppearingKeeps ==
  ASSUME IInv, Appearing
  PROVE  IInv'
  BY DEF Appearing, FileAppears, user, IInv, Remembers, Placed, OnDisk, NewArgs

LEMMA Step == IInv /\ [Next]_vars => IInv'
<1> SUFFICES ASSUME IInv, [Next]_vars PROVE IInv'
  OBVIOUS
<1>1. CASE CreateModelConfig
  BY <1>1, CreateKeeps
<1>2. CASE ParseConfig
  BY <1>2, ParseKeeps
<1>3. CASE NotGGUF
  BY <1>3 DEF NotGGUF, user, IInv, Remembers, Placed, OnDisk
<1>4. CASE Again
  BY <1>4, AgainKeeps DEF Again
<1>5. CASE Loading \/ LoadSecond
  BY <1>5, LoadingKeeps
<1>6. CASE UNCHANGED vars
  BY <1>6 DEF vars, refVars, user, IInv, Remembers, Placed, OnDisk, NewArgs
<1>7. CASE Appearing
  BY <1>7, AppearingKeeps
<1> QED BY <1>1, <1>2, <1>3, <1>4, <1>5, <1>6, <1>7 DEF Next, Resolving

LEMMA Invariance == Spec => []IInv
  BY Start, Step, PTL DEF Spec

\* create_model_config may run any number of times on one EngineArgs and in any
\* number of attempts: the loader is handed the user's reference.
THEOREM ReferenceIsKept == Spec => []ReferenceKept
<1>1. IInv => ReferenceKept
  BY DEF IInv, Remembers, ReferenceKept
<1> QED BY <1>1, Invariance, PTL

\* A file in its place is refused before loading only for an early answer of
\* check_gguf_file that nothing else makes up for.
THEOREM RefusalsAreStale == Spec => []RefusedOnlyWhenStale
<1>1. IInv => RefusedOnlyWhenStale
  BY DEF IInv, Placed, RefusedOnlyWhenStale
<1> QED BY <1>1, Invariance, PTL

-----------------------------------------------------------------------------
(* The kinds of values, and the choice of the file.                        *)
Phases == {"args", "config", "raised", "other", "prepare", "patch", "init", "load",
           "ready", "failed"}

Sorts ==
  /\ ref \in References /\ folder \in Folders
  /\ asked \in {"unasked", "yes", "no"}
  /\ args.model \in References \cup SourceRefs
  /\ args.model_weights \subseteq References \cup SourceRefs
  /\ phase \in Phases
  /\ checkpoint \in Checkpoints
  /\ config \in [vocab : BOOLEAN, tie : BOOLEAN]
  /\ models \in Nat

LEMMA ConfigSourceSort ==
  ASSUME NEW r \in References \cup SourceRefs
  PROVE  ConfigSource(r) \in References \cup SourceRefs
  BY DEF ConfigSource, Source, SourceRefs, Sources

LEMMA PatchedSort ==
  ASSUME NEW c
  PROVE  Patched(c) \in [vocab : BOOLEAN, tie : BOOLEAN]
<1> DEFINE tie == IF c.kind \in Gemma THEN Known => "output" \notin Part(c, c.opened)
                                      ELSE TiedByFiles(c)
<1>1. Known \in BOOLEAN
  BY DEF Known
<1>2. tie \in BOOLEAN
  BY DEF TiedByFiles
<1>3. Patched(c) = [vocab |-> Known, tie |-> tie]
  BY Zenon DEF Patched
<1> HIDE DEF tie
<1>4. \A a, b \in BOOLEAN : [vocab |-> a, tie |-> b] \in [vocab : BOOLEAN, tie : BOOLEAN]
  OBVIOUS
<1>. QED
  BY <1>1, <1>2, <1>3, <1>4

LEMMA InitSorts == Init => Sorts
<1>1. NoCheckpoint \in Checkpoints
  BY DEF NoCheckpoint, Checkpoints, Kinds
<1>2. NoConfig \in [vocab : BOOLEAN, tie : BOOLEAN]
  BY DEF NoConfig
<1>. QED
  BY <1>1, <1>2 DEF Init, InitReferences, NewArgs, Sorts, Phases

LEMMA NextSorts == Sorts /\ [Next]_vars => Sorts'
<1> SUFFICES ASSUME Sorts, [Next]_vars PROVE Sorts'
  OBVIOUS
<1>0. \A r : Asked(r) \in {"unasked", "yes", "no"}
  BY DEF Sorts, Asked
<1>1. CASE CreateModelConfig /\ UNCHANGED loadVars
  <2>1. args' = args \/ args' = Rewritten(args.model)
    BY <1>1 DEF CreateModelConfig
  <2>2. /\ args'.model \in References \cup SourceRefs
        /\ args'.model_weights \subseteq References \cup SourceRefs
    <3>1. CASE args' = args
      BY <3>1 DEF Sorts
    <3>2. CASE args' = Rewritten(args.model)
      BY <3>2, ConfigSourceSort DEF Sorts, Rewritten
    <3>. QED
      BY <2>1, <3>1, <3>2
  <2>3. asked' \in {"unasked", "yes", "no"}
    BY <1>0, <1>1 DEF CreateModelConfig, Sorts
  <2>. QED
    BY <1>1, <2>2, <2>3 DEF CreateModelConfig, Sorts, Phases, user, loadVars
<1>2. CASE ParseConfig /\ UNCHANGED loadVars
  BY <1>0, <1>2 DEF ParseConfig, Sorts, Phases, user, loadVars
<1>3. CASE NotGGUF /\ UNCHANGED loadVars
  BY <1>3 DEF NotGGUF, Sorts, Phases, user, loadVars
<1>4. CASE PrepareWeights
  BY <1>4 DEF PrepareWeights, Opened, Sorts, Phases, user
<1>5. CASE PrepareLoading
  BY <1>0, <1>5, PatchedSort DEF PrepareLoading, Sorts, Phases, user
<1>6. CASE InitializeModel
  BY <1>6 DEF InitializeModel, Sorts, Phases, user
<1>7. ASSUME NEW p \in queue, LoadTensor(p) PROVE Sorts'
  BY <1>7 DEF LoadTensor, Sorts, Phases, user
<1>8. CASE FinishLoading
  BY <1>8 DEF FinishLoading, Sorts, Phases, user, loadVars
<1>9. CASE LoadSecond
  <2>1. config' \in [vocab : BOOLEAN, tie : BOOLEAN]
    BY <1>9 DEF LoadSecond, Unloaded, NoConfig
  <2>. QED
    BY <1>9, <2>1 DEF LoadSecond, Sorts, Phases, user
<1>10. CASE Again
  <2>1. config' \in [vocab : BOOLEAN, tie : BOOLEAN] /\ checkpoint' \in Checkpoints
    BY <1>10, InitSorts DEF Again, Unloaded, NoConfig, NoCheckpoint, Checkpoints, Kinds
  <2>. QED
    BY <1>10, <2>1 DEF Again, TryAgain, NewArgs, Sorts, Phases
<1>11. CASE UNCHANGED vars
  BY <1>11 DEF Sorts, vars, refVars, user, loadVars
<1>12. CASE Appearing
  BY <1>12 DEF Appearing, FileAppears, Sorts, user, loadVars
<1>. QED
  BY <1>1, <1>2, <1>3, <1>4, <1>5, <1>6, <1>7, <1>8, <1>9, <1>10, <1>11, <1>12
     DEF Next, Resolving, Loading

LEMMA SortsAlways == Spec => []Sorts
  BY InitSorts, NextSorts, PTL DEF Spec

\* For every folder, a reference to a quantization type leads to the first part
\* of a split, or to the whole file of the same name, of the type asked for.
THEOREM FirstOfItsSplitAlways == Spec => []FirstOfItsSplit
<1>1. Sorts => FirstOfItsSplit
  <2> SUFFICES ASSUME Sorts, ref.form \in {"local", "remote"}, NEW f \in Chosen(ref)
               PROVE  /\ \A g \in Matches(ref) :
                           [g EXCEPT !.part = 0] = [f EXCEPT !.part = 0] => f.part <= g.part
                      /\ EndsWith(f.quant, ref.quant) \/ {f.quant, ref.quant} = {"Q4_K_M", "q4_k_m"}
    BY DEF FirstOfItsSplit
  <2>1. f \in Matches(ref) /\ \A g \in Matches(ref) : Before(f, g)
    BY DEF Chosen
  <2>2. Matches(ref) \subseteq Files
    BY FoldersAssumption DEF Sorts, Matches, LocalMatches, DownloadMatches
  <2>3. ASSUME NEW g \in Matches(ref), [g EXCEPT !.part = 0] = [f EXCEPT !.part = 0]
        PROVE  f.part <= g.part
    <3>1. f \in Files /\ g \in Files /\ Before(f, g)
      BY <2>1, <2>2
    <3>2. f.stem = g.stem /\ f.sep = g.sep /\ f.quant = g.quant
      BY <2>3, <3>1 DEF Files
    <3>3. CASE Dashes(f) < Dashes(g)
      BY <3>1, <3>2, <3>3 DEF Dashes, Files
    <3>4. CASE ~ (Dashes(f) < Dashes(g))
      BY <2>3, <3>1, <3>4 DEF Before
    <3>. QED
      BY <3>3, <3>4
  <2>4. EndsWith(f.quant, ref.quant) \/ {f.quant, ref.quant} = {"Q4_K_M", "q4_k_m"}
    BY <2>1 DEF Matches, LocalMatches, DownloadMatches
  <2>. QED
    BY <2>3, <2>4
<1>. QED
  BY <1>1, SortsAlways, PTL

-----------------------------------------------------------------------------
(* What the model is loaded with.                                          *)

\* Whether the model has no parameter for a tensor that comes.
Skipped(t) == t \notin NameMap(checkpoint.kind) \/ (t = "output" /\ config.tie)

\* The phases before a checkpoint is known.
BeforeLoading == {"args", "config", "raised", "other", "prepare"}
NoParams == BeforeLoading \cup {"patch", "init"}

\* Every parameter was yielded, with its own slice and values.
Right ==
  /\ phase \in NoParams => params = <<>>
  /\ \A n \in DOMAIN params :
       /\ n \in [of : NameMap(checkpoint.kind), expert : 0 .. Experts]
       /\ params[n].slice = n.expert
       /\ params[n].undone = Converted(checkpoint.kind, n.of)

\* What map_weights makes of one tensor, as parameters.
Arrived(t) == { [of |-> y.of, expert |-> y.expert] : y \in Yielded(t) }

LEMMA YieldedNames ==
  ASSUME NEW t
  PROVE  /\ \A y \in Yielded(t) : /\ y.of = t /\ y.expert \in 0 .. Experts
                                  /\ y.slice = y.expert
         /\ Arrived(t) = { [of |-> t, expert |-> e] :
                             e \in IF t = "exps" THEN 1 .. Experts ELSE {0} }
<1>0. Experts \in Nat /\ 0 \in 0 .. Experts
  BY ExpertsAssumption
<1>1. CASE t = "exps"
  <2>1. Yielded(t) = { [of |-> t, expert |-> e, slice |-> e] : e \in 1 .. Experts }
    BY <1>1 DEF Yielded
  <2>2. \A y \in Yielded(t) : /\ y.of = t /\ y.expert \in 1 .. Experts
                                /\ y.slice = y.expert
    BY <2>1
  <2>3. ASSUME NEW e \in 1 .. Experts
        PROVE  \E y \in Yielded(t) : y.of = t /\ y.expert = e
    <3>1. [of |-> t, expert |-> e, slice |-> e]
            \in { [of |-> t, expert |-> i, slice |-> i] : i \in 1 .. Experts }
      OBVIOUS
    <3>. QED
      BY <2>1, <3>1
  <2>4. Arrived(t) = { [of |-> t, expert |-> e] : e \in 1 .. Experts }
    BY <2>2, <2>3 DEF Arrived
  <2>. QED
    BY <1>0, <1>1, <2>2, <2>4
<1>2. CASE t # "exps"
  <2>1. Yielded(t) = {[of |-> t, expert |-> 0, slice |-> 0]}
    BY <1>2 DEF Yielded
  <2>. QED
    BY <1>0, <1>2, <2>1 DEF Arrived
<1>. QED
  BY <1>1, <1>2

\* transform_weight undoes what the converter of the model's type did.
LEMMA TransformedIsConverted ==
  ASSUME NEW c \in Checkpoints, NEW t \in NameMap(c.kind)
  PROVE  Transformed(c.kind, t) = Converted(c.kind, t)
<1>1. t \in {"a", "conv", "gate"} => c.kind = "qwen35moe"
  BY DEF NameMap, TensorsOf
<1>. QED
  BY <1>1 DEF Transformed, Converted

\* The step of one tensor: it is skipped, or all its parameters get their own,
\* or the model has none of them and loading fails.
LEMMA LoadTensorStep ==
  ASSUME Sorts, Right, NEW p \in queue, LoadTensor(p)
  PROVE  LET t == FileOrder[p[2]]
         IN  /\ UNCHANGED <<user, there, asked, args, attempts, calls,
                            checkpoint, config, unquantized, method, models>>
             /\ phase = "load" /\ queue' = queue \ {p}
             /\ \/ Skipped(t) /\ phase' = "load" /\ params' = params
                \/ ~ Skipped(t) /\ ~ Accepts(checkpoint, t) /\ phase' = "failed" /\ params' = params
                \/ /\ ~ Skipped(t) /\ Accepts(checkpoint, t) /\ phase' = "load"
                   /\ DOMAIN params' = DOMAIN params \cup Arrived(t)
                   /\ \A n \in DOMAIN params : params'[n] = params[n]
                   /\ \A n \in Arrived(t) \ DOMAIN params :
                        /\ params'[n].slice = n.expert
                        /\ params'[n].undone = Transformed(checkpoint.kind, t)
<1> DEFINE t == FileOrder[p[2]]
           own(n) == [slice  |-> (CHOOSE y \in Yielded(t) : y.expert = n.expert).slice,
                      undone |-> Transformed(checkpoint.kind, t)]
<1>1. /\ UNCHANGED <<user, there, asked, args, attempts, calls,
                     checkpoint, config, unquantized, method, models>>
      /\ phase = "load" /\ queue' = queue \ {p}
  BY DEF LoadTensor
<1>2. CASE Skipped(t)
  <2>1. phase' = "load" /\ params' = params
    BY <1>2 DEF LoadTensor, Skipped
  <2>. QED
    BY <1>1, <1>2, <2>1
<1>3. CASE ~ Skipped(t) /\ ~ Accepts(checkpoint, t)
  <2>1. phase' = "failed" /\ params' = params
    BY <1>3 DEF LoadTensor, Skipped
  <2>. QED
    BY <1>1, <1>3, <2>1
<1>4. CASE ~ Skipped(t) /\ Accepts(checkpoint, t)
  <2>1. phase' = "load" /\ params' = [n \in DOMAIN params \cup Arrived(t) |->
                                       IF n \in DOMAIN params THEN params[n] ELSE own(n)]
    BY <1>4 DEF LoadTensor, Skipped, Arrived
  <2>2. ASSUME NEW n \in Arrived(t)
        PROVE  own(n).slice = n.expert
    <3>1. PICK y \in Yielded(t) : y.expert = n.expert
      BY DEF Arrived
    <3>2. (CHOOSE z \in Yielded(t) : z.expert = n.expert).slice = n.expert
      BY <3>1, YieldedNames
    <3>. QED
      BY <3>2
  <2> HIDE DEF own
  <2>3. /\ DOMAIN params' = DOMAIN params \cup Arrived(t)
        /\ \A n \in DOMAIN params : params'[n] = params[n]
        /\ \A n \in Arrived(t) \ DOMAIN params : params'[n] = own(n)
    BY <2>1
  <2>4. \A n : own(n).undone = Transformed(checkpoint.kind, t)
    BY DEF own
  <2>. QED
    BY <1>1, <1>4, <2>1, <2>2, <2>3, <2>4
<1>. QED
  BY <1>2, <1>3, <1>4

LEMMA InitRight == Init => Right
  BY DEF Init, Right

LEMMA NextRight == Sorts /\ Right /\ [Next]_vars => Right'
<1> SUFFICES ASSUME Sorts, Right, [Next]_vars PROVE Right'
  OBVIOUS
<1>1. ASSUME params' = params, checkpoint' = checkpoint, phase' \in NoParams => phase \in NoParams
      PROVE  Right'
  BY <1>1 DEF Right
<1>2. ASSUME params' = <<>> PROVE Right'
  BY <1>2 DEF Right
<1>3. CASE Resolving
  BY <1>1, <1>3 DEF Resolving, CreateModelConfig, ParseConfig, NotGGUF, loadVars, NoParams,
                    BeforeLoading
<1>4. CASE PrepareWeights
  BY <1>2, <1>4 DEF PrepareWeights, Right, NoParams, BeforeLoading
<1>5. CASE PrepareLoading
  BY <1>1, <1>5 DEF PrepareLoading, NoParams, BeforeLoading
<1>6. CASE InitializeModel
  BY <1>1, <1>6 DEF InitializeModel, NoParams, BeforeLoading
<1>7. ASSUME NEW p \in queue, LoadTensor(p) PROVE Right'
  <2> DEFINE t == FileOrder[p[2]]
  <2>1. checkpoint' = checkpoint /\ phase' \in {"load", "failed"}
    BY <1>7, LoadTensorStep
  <2>2. CASE params' = params
    BY <1>1, <2>1, <2>2 DEF NoParams, BeforeLoading
  <2>3. CASE params' # params
    <3>1. /\ ~ Skipped(t)
          /\ DOMAIN params' = DOMAIN params \cup Arrived(t)
          /\ \A n \in DOMAIN params : params'[n] = params[n]
          /\ \A n \in Arrived(t) \ DOMAIN params :
               /\ params'[n].slice = n.expert
               /\ params'[n].undone = Transformed(checkpoint.kind, t)
      BY <1>7, <2>3, LoadTensorStep
    <3> HIDE DEF t
    <3>2. t \in NameMap(checkpoint.kind)
      BY <3>1 DEF Skipped
    <3>3. Transformed(checkpoint.kind, t) = Converted(checkpoint.kind, t)
      BY <3>2, TransformedIsConverted DEF Sorts
    <3>4. ASSUME NEW n \in Arrived(t)
          PROVE  n.of = t /\ n \in [of : NameMap(checkpoint.kind), expert : 0 .. Experts]
      BY <3>2, <3>4, YieldedNames DEF Arrived
    <3>. QED
      BY <2>1, <3>1, <3>3, <3>4 DEF Right, NoParams, BeforeLoading
  <2>. QED
    BY <2>2, <2>3
<1>8. CASE FinishLoading
  BY <1>1, <1>8 DEF FinishLoading, loadVars, NoParams, BeforeLoading
<1>9. CASE LoadSecond \/ Again
  BY <1>2, <1>9 DEF LoadSecond, Again, Unloaded
<1>10. CASE UNCHANGED vars
  BY <1>1, <1>10 DEF vars, refVars, loadVars
<1>11. CASE Appearing
  BY <1>1, <1>11 DEF Appearing, FileAppears, loadVars
<1>. QED
  BY <1>3, <1>4, <1>5, <1>6, <1>7, <1>8, <1>9, <1>10, <1>11 DEF Next, Loading

\* For every number of experts, whatever is loaded and loaded again, each expert
\* gets its own slice, and each parameter the values of the HF checkpoint.
THEOREM RestoredAlways == Spec => []Restored
<1>1. Right => Restored
  BY DEF Right, Restored
<1>. QED
  BY <1>1, SortsAlways, InitRight, NextRight, PTL DEF Spec

\* The list of unquantized modules: empty before the first model, then that
\* model's, and for a second model, which is of the same type and not split, at
\* least its own.
Prepared == {"init", "load", "ready"}
Carry ==
  /\ phase \in BeforeLoading \cup {"patch"} /\ models = 0 => unquantized = {}
  /\ phase \in BeforeLoading => models = 0
  /\ models > 0 => ~ checkpoint.split
  /\ unquantized \subseteq NameMap(checkpoint.kind) \ {"token_embd", "output", "exps"}
  /\ phase \in Prepared =>
       /\ checkpoint.kind # "unknown"
       /\ UnquantizedModules(checkpoint) \subseteq unquantized
       /\ models = 0 => unquantized = UnquantizedModules(checkpoint)

LEMMA UnquantizedNamed ==
  ASSUME NEW c
  PROVE  UnquantizedModules(c) \subseteq NameMap(c.kind) \ {"token_embd", "output", "exps"}
<1>1. \A t \in UnquantizedModules(c) : t \in NameMap(c.kind) /\ ~ Quantized(c, t)
  BY DEF UnquantizedModules
<1>2. \A t \in {"token_embd", "output", "exps"} : Quantized(c, t)
  BY DEF Quantized
<1>. QED
  BY <1>1, <1>2

LEMMA InitCarry == Init => Carry
  BY DEF Init, InitReferences, Carry, BeforeLoading, Prepared

LEMMA NextCarry == Sorts /\ Carry /\ [Next]_vars => Carry'
<1> SUFFICES ASSUME Sorts, Carry, [Next]_vars PROVE Carry'
  OBVIOUS
<1> USE DEF BeforeLoading, Prepared
<1>1. ASSUME UNCHANGED <<checkpoint, unquantized, models>>,
             phase' \in BeforeLoading => phase \in BeforeLoading,
             phase' = "patch" => phase = "patch",
             phase' \in Prepared => phase \in Prepared
      PROVE  Carry'
  BY <1>1 DEF Carry
<1>2. CASE Resolving
  BY <1>1, <1>2 DEF Resolving, CreateModelConfig, ParseConfig, NotGGUF, loadVars
<1>3. CASE PrepareWeights
  <2>1. /\ unquantized = {} /\ models = 0 /\ unquantized' = {} /\ models' = 0
        /\ phase' \in {"failed", "patch"}
    BY <1>3 DEF PrepareWeights, Carry
  <2>. QED
    BY <2>1 DEF Carry
<1>4. CASE PrepareLoading
  <2>1. UNCHANGED <<checkpoint, models>> /\ phase = "patch"
    BY <1>4 DEF PrepareLoading
  <2>2. CASE phase' = "failed" /\ unquantized' = unquantized
    BY <2>1, <2>2 DEF Carry
  <2>3. CASE /\ checkpoint.kind # "unknown" /\ phase' = "init"
             /\ unquantized' = unquantized \cup UnquantizedModules(checkpoint)
    BY <2>1, <2>3, UnquantizedNamed DEF Carry
  <2>. QED
    BY <1>4, <2>2, <2>3 DEF PrepareLoading
<1>5. CASE InitializeModel
  BY <1>1, <1>5 DEF InitializeModel
<1>6. ASSUME NEW p \in queue, LoadTensor(p) PROVE Carry'
  BY <1>1, <1>6 DEF LoadTensor
<1>7. CASE FinishLoading
  BY <1>1, <1>7 DEF FinishLoading, loadVars
<1>8. CASE LoadSecond
  <2>1. /\ ~ checkpoint'.split /\ checkpoint'.kind = checkpoint.kind
        /\ unquantized' = unquantized /\ models' = models + 1 /\ phase' = "patch"
    BY <1>8 DEF LoadSecond
  <2>. QED
    BY <2>1 DEF Carry, Sorts
<1>9. CASE Again
  BY <1>9 DEF Again, TryAgain, Carry
<1>10. CASE UNCHANGED vars
  BY <1>1, <1>10 DEF vars, refVars, loadVars
<1>11. CASE Appearing
  BY <1>1, <1>11 DEF Appearing, FileAppears, loadVars
<1>. QED
  BY <1>2, <1>3, <1>4, <1>5, <1>6, <1>7, <1>8, <1>9, <1>10, <1>11 DEF Next, Loading

\* Where ReasonToFail sees none, q and k are of one precision in the list of
\* unquantized modules, which is theirs in the file, and every layer takes its
\* tensors.
LEMMA NoReasonNoFailure ==
  ASSUME Sorts, Carry, phase \in {"init", "load"}, ~ ReasonToFail
  PROVE  /\ ~ Mixed(unquantized)
         /\ method = Methods(unquantized) =>
              \A t \in NameMap(checkpoint.kind) : Accepts(checkpoint, t)
<1> DEFINE c == checkpoint
           packed == Quantized(c, "q")
<1>1. /\ c \in Checkpoints /\ c.kind # "unknown"
      /\ packed <=> Quantized(c, "k")
      /\ "k" \in c.rest /\ ~ packed => ~ c.missing /\ c.kind \notin Gemma
      /\ c.kind = "gemma3mm" => c.quantized = {}
      /\ ~ Carried
  BY DEF Sorts, ReasonToFail
<1>2. /\ unquantized \subseteq NameMap(c.kind) \ {"token_embd", "output", "exps"}
      /\ UnquantizedModules(c) \subseteq unquantized
      /\ models = 0 => unquantized = UnquantizedModules(c)
  BY DEF Carry, Prepared
<1>3. ASSUME packed PROVE \A t \in {"q", "k"} : ~ ShardSkipped(t, unquantized)
  <2>1. ASSUME NEW t \in {"q", "k"} PROVE t \notin unquantized
    <3>1. Quantized(c, t)
      BY <1>1, <1>3
    <3>2. CASE models > 0
      BY <1>1, <3>1, <3>2 DEF Carried
    <3>3. CASE models = 0
      BY <1>2, <3>1, <3>3 DEF UnquantizedModules
    <3>. QED
      BY <3>2, <3>3 DEF Sorts
  <2>2. "q_bias" \notin unquantized
    <3>1. "q_bias" \in unquantized => c.kind = "gemma3mm"
      BY <1>2 DEF NameMap, TensorsOf
    <3>. QED
      BY <1>1, <1>3, <3>1 DEF Quantized
  <2>. QED
    BY <2>1, <2>2 DEF ShardSkipped
<1>4. ASSUME ~ packed PROVE \A t \in {"q", "k"} : ShardSkipped(t, unquantized)
  <2>1. /\ c.opened \in WeightsSource(c) /\ c.opened \in 1 .. 2
        /\ "q" \notin c.rest
        /\ c.rest # {} => c.split
    <3>1. /\ c.opened \in 1 .. 2 /\ c.rest \in Rests \cup {{}}
          /\ c.rest # {} => c.split
      BY <1>1 DEF Checkpoints
    <3>2. c.opened \in WeightsSource(c)
      BY <3>1 DEF WeightsSource, GGUFFiles
    <3>3. "q" \notin c.rest
      <4>1. c.rest = {} \/ c.rest \in SUBSET {"output", "k", "norm"}
        BY <3>1, RestsAssumption
      <4>. QED
        BY <4>1
    <3>. QED
      BY <3>1, <3>2, <3>3
  <2>2. {"q", "k"} \subseteq NameMap(c.kind) /\ {"q", "k"} \subseteq All(c)
    BY DEF NameMap, TensorsOf, All
  <2>0. ASSUME NEW t \in {"q", "k"}, NEW i \in WeightsSource(c), t \in Part(c, i)
        PROVE  t \in UnquantizedModules(c)
    <3>1. t \in UNION {Part(c, j) : j \in WeightsSource(c)}
      BY <2>0
    <3>2. ~ Quantized(c, t) /\ t \in NameMap(c.kind) /\ t # "a"
      BY <1>1, <1>4, <2>2
    <3>. QED
      BY <3>1, <3>2 DEF UnquantizedModules
  <2>3. "q" \in UnquantizedModules(c)
    <3>1. "q" \in Part(c, c.opened)
      BY <2>1, <2>2 DEF Part
    <3>. QED
      BY <2>0, <2>1, <3>1
  <2>4. "k" \in UnquantizedModules(c)
    <3>1. CASE "k" \notin c.rest
      <4>1. "k" \in Part(c, c.opened)
        BY <2>2, <3>1 DEF Part
      <4>. QED
        BY <2>0, <2>1, <4>1
    <3>2. CASE "k" \in c.rest
      <4>1. WeightsSource(c) = {1, 2}
        BY <1>1, <1>4, <2>1, <3>2 DEF WeightsSource, GGUFFiles
      <4>2. PICK i \in {1, 2} : i # c.opened
        BY <4>1
      <4>3. Part(c, i) = c.rest
        BY <4>2 DEF Part
      <4>. QED
        BY <2>0, <3>2, <4>1, <4>2, <4>3
    <3>. QED
      BY <3>1, <3>2
  <2>. QED
    BY <1>2, <2>3, <2>4 DEF ShardSkipped
<1>5. ~ Mixed(unquantized)
  BY <1>3, <1>4 DEF Mixed, ShardSkipped
<1>6. \A t \in {"q", "k"} : ShardSkipped(t, unquantized) <=> ~ packed
  BY <1>3, <1>4
<1>7. ASSUME method = Methods(unquantized), NEW t \in NameMap(c.kind)
      PROVE  Accepts(c, t)
  <2>1. DOMAIN method = {"qk", "token_embd", "output", "exps"}
    BY <1>7 DEF Methods
  <2>2. method["qk"] = IF packed THEN "gguf" ELSE "dense"
    BY <1>6, <1>7 DEF Methods, IsLayerSkipped
  <2>3. \A u \in {"token_embd", "output", "exps"} : method[u] = "gguf" /\ Quantized(c, u)
    BY <1>2, <1>7 DEF Methods, IsLayerSkipped, Quantized
  <2>4. CASE t \in {"q", "k"}
    BY <1>1, <2>2, <2>4 DEF Accepts, LayerOf
  <2>5. CASE t \in {"token_embd", "output", "exps"}
    BY <2>3, <2>5 DEF Accepts, LayerOf
  <2>6. CASE LayerOf(t) \notin DOMAIN method
    BY <2>6 DEF Accepts
  <2>7. t # "qk"
    BY <1>7 DEF NameMap, TensorsOf
  <2>. QED
    BY <2>1, <2>4, <2>5, <2>6, <2>7 DEF LayerOf
<1>. QED
  BY <1>5, <1>7

\* What was asked for has come or is still to come, loading fails for a reason,
\* and whether embeddings are tied was read from the files, or not read because
\* check_gguf_file had been asked too early.
Coming(t) == \E p \in Places(checkpoint) : FileOrder[p[2]] = t

Tying ==
  IF checkpoint.kind \in Gemma
  THEN (OnDisk(ref) /\ models = 0 => asked # "no") =>
         "output" \notin Part(checkpoint, checkpoint.opened)
  ELSE TiedByFiles(checkpoint)

Flow ==
  /\ phase \in Prepared => (config.tie <=> Tying)
  /\ phase \in {"load", "ready"} =>
       /\ method = Methods(unquantized)
       /\ queue \subseteq Places(checkpoint)
       /\ \A p \in Places(checkpoint) \ queue :
            Skipped(FileOrder[p[2]]) \/ Loaded(FileOrder[p[2]])
       /\ \A n \in DOMAIN params : ~ Skipped(n.of) /\ Coming(n.of)
  /\ phase = "ready" => queue = {}
  /\ phase = "failed" => ReasonToFail

LEMMA InitFlow == Init => Flow
  BY DEF Init, InitReferences, Flow, Prepared

\* A reason stays one, and what was read stays read, while the files, the
\* checkpoint, the list of modules and the cache do.
LEMMA ReasonStays ==
  ASSUME UNCHANGED <<ref, folder, there, checkpoint, unquantized, models>>, ReasonToFail
  PROVE  ReasonToFail'
<1>1. Chosen(ref)' = Chosen(ref)
  BY DEF Chosen, Matches, LocalMatches, DownloadMatches
<1>. QED
  BY <1>1 DEF ReasonToFail, Carried

LEMMA TyingStays ==
  ASSUME UNCHANGED <<ref, checkpoint, models, asked>>
  PROVE  Tying' <=> Tying
  BY DEF Tying

\* maybe_patch_hf_config_from_gguf reads the head if check_gguf_file, asked now
\* or before, says the file is a GGUF file.
LEMMA TyingRead ==
  ASSUME Sorts, PrepareLoading
  PROVE  config'.tie <=> Tying'
<1>1. /\ checkpoint' = checkpoint /\ ref' = ref /\ models' = models
      /\ config' = Patched(checkpoint)
      /\ asked' = IF models = 0 THEN Asked(ref) ELSE asked
  BY DEF PrepareLoading, user
<1>2. Known <=> (OnDisk(ref) /\ models = 0 => asked' # "no")
  <2>1. CASE models = 0 /\ OnDisk(ref)
    <3>1. asked' = Asked(ref) /\ asked \in {"unasked", "yes", "no"}
      BY <1>1, <2>1 DEF Sorts
    <3>2. Asked(ref) = (IF asked = "unasked" THEN IF there THEN "yes" ELSE "no" ELSE asked)
      BY <2>1 DEF Asked
    <3>3. Known <=> asked = "yes" \/ (asked = "unasked" /\ there)
      BY <2>1 DEF Known, CheckGGUFFile
    <3>. QED
      BY <2>1, <3>1, <3>2, <3>3
  <2>2. CASE ~ (models = 0 /\ OnDisk(ref))
    BY <2>2 DEF Known, Sorts
  <2>. QED
    BY <2>1, <2>2
<1>3. CASE checkpoint.kind \in Gemma
  <2>1. config'.tie = (Known => "output" \notin Part(checkpoint, checkpoint.opened))
    BY <1>1, <1>3 DEF Patched
  <2>. QED
    BY <1>1, <1>2, <1>3, <2>1 DEF Tying
<1>4. CASE checkpoint.kind \notin Gemma
  <2>1. config'.tie = TiedByFiles(checkpoint)
    BY <1>1, <1>4 DEF Patched
  <2>. QED
    BY <1>1, <1>4, <2>1 DEF Tying
<1>. QED
  BY <1>3, <1>4

\* A tensor that comes is skipped, loaded or a reason to fail.
LEMMA LoadTensorFlow ==
  ASSUME Sorts, Right, Carry, Flow, NEW p \in queue, LoadTensor(p)
  PROVE  Flow'
<1> DEFINE t == FileOrder[p[2]]
<1>1. /\ UNCHANGED <<ref, folder, there, asked, checkpoint, config, unquantized, method, models>>
      /\ phase = "load" /\ queue' = queue \ {p}
  BY LoadTensorStep DEF user
<1>2. /\ config.tie <=> Tying
      /\ method = Methods(unquantized)
      /\ queue \subseteq Places(checkpoint)
      /\ \A r \in Places(checkpoint) \ queue :
           Skipped(FileOrder[r[2]]) \/ Loaded(FileOrder[r[2]])
      /\ \A n \in DOMAIN params : ~ Skipped(n.of) /\ Coming(n.of)
  BY <1>1 DEF Flow, Prepared
<1>3. /\ \A u : Skipped(u)' <=> Skipped(u)
      /\ \A u : Coming(u)' <=> Coming(u)
      /\ Tying' <=> Tying
  BY <1>1, TyingStays DEF Skipped, Coming
<1>4. CASE phase' = "failed" /\ ~ Skipped(t) /\ ~ Accepts(checkpoint, t)
  <2>1. ReasonToFail
    <3>1. t \in NameMap(checkpoint.kind)
      BY <1>4 DEF Skipped
    <3>. QED
      BY <1>1, <1>2, <1>4, <3>1, NoReasonNoFailure
  <2>. QED
    BY <1>1, <1>4, <2>1, ReasonStays DEF Flow, Prepared
<1>5. CASE Skipped(t) /\ phase' = "load" /\ params' = params
  <2>1. \A u : Loaded(u)' <=> Loaded(u)
    BY <1>5 DEF Loaded
  <2>. QED
    BY <1>1, <1>2, <1>3, <1>5, <2>1 DEF Flow, Prepared
<1>6. CASE /\ ~ Skipped(t) /\ phase' = "load"
           /\ DOMAIN params' = DOMAIN params \cup Arrived(t)
  <2> HIDE DEF t
  <2>1. \A u : Loaded(u) => Loaded(u)'
    BY <1>6 DEF Loaded
  <2>2. Loaded(t)'
    BY <1>6, YieldedNames DEF Loaded
  <2>3. Coming(t)
    BY <1>2 DEF Coming, t
  <2>4. \A n \in Arrived(t) : n.of = t
    BY YieldedNames DEF Arrived
  <2>5. \A r \in Places(checkpoint) \ queue' :
          Skipped(FileOrder[r[2]]) \/ Loaded(FileOrder[r[2]])'
    BY <1>1, <1>2, <2>1, <2>2 DEF t
  <2>6. \A n \in DOMAIN params' : ~ Skipped(n.of) /\ Coming(n.of)
    BY <1>2, <1>6, <2>3, <2>4
  <2>. QED
    BY <1>1, <1>2, <1>3, <1>6, <2>5, <2>6 DEF Flow, Prepared
<1>. QED
  BY <1>4, <1>5, <1>6, LoadTensorStep

LEMMA NextFlow == Sorts /\ Right /\ Carry /\ Flow /\ [Next]_vars => Flow'
<1> SUFFICES ASSUME Sorts, Right, Carry, Flow, [Next]_vars PROVE Flow'
  OBVIOUS
<1> USE DEF Prepared
<1>1. CASE Resolving
  <2>1. phase' \in {"config", "raised", "prepare", "other"}
    BY <1>1 DEF Resolving, CreateModelConfig, ParseConfig, NotGGUF
  <2>. QED
    BY <2>1 DEF Flow
<1>2. CASE PrepareWeights
  <2>1. CASE phase' = "patch"
    BY <2>1 DEF Flow
  <2>2. CASE phase' = "failed" /\ Chosen(ref) = {}
    <3>1. Chosen(ref)' = {}
      BY <1>2, <2>2 DEF PrepareWeights, user, Chosen, Matches, LocalMatches, DownloadMatches
    <3>. QED
      BY <2>2, <3>1 DEF Flow, ReasonToFail
  <2>. QED
    BY <1>2, <2>1, <2>2 DEF PrepareWeights
<1>3. CASE PrepareLoading
  <2>1. config'.tie <=> Tying'
    BY <1>3, TyingRead
  <2>2. CASE phase' = "init"
    BY <2>1, <2>2 DEF Flow
  <2>3. CASE phase' = "failed" /\ checkpoint.kind = "unknown"
    BY <1>3, <2>3 DEF PrepareLoading, Flow, ReasonToFail
  <2>. QED
    BY <1>3, <2>2, <2>3 DEF PrepareLoading
<1>4. CASE InitializeModel
  <2>1. /\ UNCHANGED <<ref, folder, there, asked, checkpoint, config, unquantized, params, models>>
        /\ phase = "init"
    BY <1>4 DEF InitializeModel, user
  <2>2. CASE phase' = "failed" /\ Mixed(unquantized)
    <3>1. ReasonToFail
      BY <2>1, <2>2, NoReasonNoFailure
    <3>. QED
      BY <2>1, <2>2, <3>1, ReasonStays DEF Flow
  <2>3. CASE phase' = "load" /\ method' = Methods(unquantized) /\ queue' = Places(checkpoint)
    <3>1. DOMAIN params' = {}
      BY <2>1 DEF Right, NoParams
    <3>2. Tying' <=> Tying
      BY <2>1, TyingStays
    <3>. QED
      BY <2>1, <2>3, <3>1, <3>2 DEF Flow
  <2>. QED
    BY <1>4, <2>2, <2>3 DEF InitializeModel
<1>5. ASSUME NEW p \in queue, LoadTensor(p) PROVE Flow'
  BY <1>5, LoadTensorFlow
<1>6. ASSUME UNCHANGED <<ref, folder, there, asked, checkpoint, config, unquantized, method,
                         queue, params, models>>,
             \/ phase' = phase
             \/ phase = "load" /\ phase' = "ready" /\ queue = {}
      PROVE  Flow'
  <2>1. /\ \A u : Skipped(u)' <=> Skipped(u)
        /\ \A u : Coming(u)' <=> Coming(u)
        /\ \A u : Loaded(u)' <=> Loaded(u)
        /\ Tying' <=> Tying
    BY <1>6, TyingStays DEF Skipped, Coming, Loaded
  <2>2. ReasonToFail => ReasonToFail'
    BY <1>6, ReasonStays
  <2>. QED
    BY <1>6, <2>1, <2>2 DEF Flow
<1>7. CASE FinishLoading
  BY <1>6, <1>7 DEF FinishLoading, user, loadVars
<1>8. CASE LoadSecond \/ Again
  <2>1. phase' \in {"patch", "args"}
    BY <1>8 DEF LoadSecond, Again, TryAgain
  <2>. QED
    BY <2>1 DEF Flow
<1>9. CASE UNCHANGED vars
  BY <1>6, <1>9 DEF vars, refVars, user, loadVars
<1>10. CASE Appearing
  <2>1. phase' \in {"args", "config", "prepare"}
    BY <1>10 DEF Appearing, FileAppears
  <2>. QED
    BY <2>1 DEF Flow
<1>. QED
  BY <1>1, <1>2, <1>3, <1>4, <1>5, <1>7, <1>8, <1>9, <1>10 DEF Next, Loading

LEMMA FlowAlways == Spec => [](Sorts /\ Right /\ Carry /\ Flow)
<1>1. Init => Sorts /\ Right /\ Carry /\ Flow
  BY InitSorts, InitRight, InitCarry, InitFlow
<1>2. Sorts /\ Right /\ Carry /\ Flow /\ [Next]_vars => Sorts' /\ Right' /\ Carry' /\ Flow'
  BY NextSorts, NextRight, NextCarry, NextFlow
<1>. QED
  BY <1>1, <1>2, PTL DEF Spec

\* Type correctness: whatever is loaded, in any order of attempts and models, is
\* a parameter of the model.
THEOREM LoadTypeCorrect == Spec => []TypeOK
<1>1. Sorts /\ Right /\ Carry => TypeOK
  <2> SUFFICES ASSUME Sorts, Right, Carry PROVE TypeOK
    OBVIOUS
  <2>1. checkpoint.kind \in Kinds
    BY DEF Sorts, Checkpoints
  <2>2. unquantized \subseteq UNION {NameMap(k) : k \in Kinds}
    BY <2>1 DEF Carry
  <2>. QED
    BY <2>2 DEF Sorts, Phases, Right, TypeOK
<1>. QED
  BY <1>1, FlowAlways, PTL

\* Loading fails for a reason that is in the files, for every folder, split,
\* mixture of precisions and sequence of models loaded with one GGUFConfig.
THEOREM NoNeedlessRefusalAlways == Spec => []NoNeedlessRefusal
<1>1. Flow => NoNeedlessRefusal
  BY DEF Flow, NoNeedlessRefusal
<1>. QED
  BY <1>1, FlowAlways, PTL

\* Of a model that is ready, the tensors that came and were not skipped are
\* loaded, and no others.
LEMMA ReadyHasWhatCame ==
  ASSUME Right, Flow, phase = "ready", NEW t
  PROVE  Loaded(t) <=> Coming(t) /\ ~ Skipped(t)
<1>1. /\ \A p \in Places(checkpoint) : Skipped(FileOrder[p[2]]) \/ Loaded(FileOrder[p[2]])
      /\ \A n \in DOMAIN params : ~ Skipped(n.of) /\ Coming(n.of)
  BY DEF Flow
<1>2. ASSUME Loaded(t) PROVE Coming(t) /\ ~ Skipped(t)
  <2>1. PICK e \in IF t = "exps" THEN 1 .. Experts ELSE {0} : TRUE
    BY ExpertsAssumption
  <2>2. [of |-> t, expert |-> e] \in DOMAIN params
    BY <1>2, <2>1 DEF Loaded
  <2>. QED
    BY <1>1, <2>2
<1>3. ASSUME Coming(t), ~ Skipped(t) PROVE Loaded(t)
  BY <1>1, <1>3 DEF Coming
<1>. QED
  BY <1>2, <1>3

\* A tensor of the model comes if one of the files that are read has it.
LEMMA ComesFromFile ==
  ASSUME NEW t \in TensorsOf(checkpoint.kind), checkpoint.kind \in Kinds
  PROVE  Coming(t) <=> \E i \in WeightsSource(checkpoint) : t \in Part(checkpoint, i)
<1>1. t \in {"token_embd", "output", "q", "q_bias", "k", "norm", "la_norm", "conv", "a",
             "gate", "exps", "rope"}
  BY DEF TensorsOf
<1>2. PICK j \in DOMAIN FileOrder : FileOrder[j] = t
  <2>1. /\ DOMAIN FileOrder = 1 .. 12
        /\ FileOrder[1] = "token_embd" /\ FileOrder[2] = "output" /\ FileOrder[3] = "q"
        /\ FileOrder[4] = "q_bias" /\ FileOrder[5] = "k" /\ FileOrder[6] = "norm"
        /\ FileOrder[7] = "la_norm" /\ FileOrder[8] = "conv" /\ FileOrder[9] = "a"
        /\ FileOrder[10] = "gate" /\ FileOrder[11] = "exps" /\ FileOrder[12] = "rope"
    BY DEF FileOrder
  <2>. QED
    BY <1>1, <2>1
<1>3. ASSUME NEW i \in WeightsSource(checkpoint), t \in Part(checkpoint, i)
      PROVE  Coming(t)
  <2>1. <<i, j>> \in WeightsSource(checkpoint) \X DOMAIN FileOrder
    OBVIOUS
  <2>2. <<i, j>> \in Places(checkpoint)
    BY <1>2, <1>3, <2>1 DEF Places
  <2>. QED
    BY <1>2, <2>2 DEF Coming
<1>4. ASSUME Coming(t)
      PROVE  \E i \in WeightsSource(checkpoint) : t \in Part(checkpoint, i)
  BY <1>4 DEF Coming, Places
<1>. QED
  BY <1>3, <1>4

\* The files that are read are the one opened and, if it is there and the adapter
\* looks for it, the other part of the split.
LEMMA FilesRead ==
  ASSUME NEW c \in Checkpoints
  PROVE  /\ c.opened \in WeightsSource(c)
         /\ Part(c, c.opened) = All(c) \ c.rest
         /\ ~ (c.split /\ ~ c.missing /\ c.kind \notin Gemma) => WeightsSource(c) = {c.opened}
         /\ c.split /\ ~ c.missing /\ c.kind \notin Gemma =>
              \E i \in WeightsSource(c) : i # c.opened /\ Part(c, i) = c.rest
<1>1. c.opened \in 1 .. 2
  BY DEF Checkpoints
<1>2. c.opened \in WeightsSource(c) /\ Part(c, c.opened) = All(c) \ c.rest
  BY <1>1 DEF WeightsSource, GGUFFiles, Part
<1>3. ~ (c.split /\ ~ c.missing /\ c.kind \notin Gemma) => WeightsSource(c) = {c.opened}
  BY DEF WeightsSource, GGUFFiles
<1>4. ASSUME c.split, ~ c.missing, c.kind \notin Gemma
      PROVE  \E i \in WeightsSource(c) : i # c.opened /\ Part(c, i) = c.rest
  <2>1. WeightsSource(c) = {1, 2}
    BY <1>4 DEF WeightsSource, GGUFFiles
  <2>2. PICK i \in {1, 2} : i # c.opened
    BY <1>1
  <2>3. Part(c, i) = c.rest
    BY <2>2 DEF Part
  <2>. QED
    BY <2>1, <2>2, <2>3
<1>. QED
  BY <1>2, <1>3, <1>4

\* A checkpoint all of whose parts are on disk, in a form the adapter reads, is
\* loaded whole, whatever the parts hold.
THEOREM WholeAlways == Spec => []Whole
<1>1. Sorts /\ Right /\ Flow => Whole
  <2> DEFINE c == checkpoint
  <2> SUFFICES ASSUME Sorts, Right, Flow, phase = "ready", ~ c.missing,
                      c.kind \in Gemma => ~ c.split,
                      NEW t \in (All(c) \cap NameMap(c.kind)) \ {"output"}
               PROVE  Loaded(t)
    BY DEF Whole
  <2>1. c \in Checkpoints /\ c.kind \in Kinds /\ (~ c.split => c.rest = {})
    BY DEF Sorts, Checkpoints
  <2>2. t \in TensorsOf(c.kind) /\ t \in All(c)
    BY DEF All
  <2>3. \E i \in WeightsSource(c) : t \in Part(c, i)
    <3>1. CASE t \in c.rest
      BY <2>1, <3>1, FilesRead
    <3>2. CASE t \notin c.rest
      BY <2>1, <2>2, <3>2, FilesRead
    <3>. QED
      BY <3>1, <3>2
  <2>4. Coming(t)
    BY <2>1, <2>2, <2>3, ComesFromFile
  <2>. QED
    BY <2>4, ReadyHasWhatCame DEF Skipped
<1>. QED
  BY <1>1, FlowAlways, PTL

\* A model that is ready has no empty head, and the head of a file is not lost,
\* for every checkpoint, split, missing part, cached answer and sequence of models.
THEOREM HeadIsItsOwnAlways == Spec => []HeadIsItsOwn
<1>1. Sorts /\ Right /\ Flow => HeadIsItsOwn
  <2> DEFINE c == checkpoint
  <2> SUFFICES ASSUME Sorts, Right, Flow, phase = "ready"
               PROVE  /\ ~ config.tie => Loaded("output")
                      /\ c.head /\ ~ c.split =>
                           \/ Loaded("output")
                           \/ c.kind \in Gemma /\ OnDisk(ref) /\ models = 0 /\ asked = "no"
    BY DEF HeadIsItsOwn
  <2>1. c \in Checkpoints /\ c.kind \in Kinds /\ (~ c.split => c.rest = {})
    BY DEF Sorts, Checkpoints
  <2>2. "output" \in TensorsOf(c.kind) /\ "output" \in NameMap(c.kind)
    BY DEF TensorsOf, NameMap
  <2>3. Loaded("output") <=>
          (\E i \in WeightsSource(c) : "output" \in Part(c, i)) /\ ~ config.tie
    BY <2>1, <2>2, ComesFromFile, ReadyHasWhatCame DEF Skipped
  <2>4. config.tie <=> Tying
    BY DEF Flow, Prepared
  <2>5. c.opened \in WeightsSource(c)
    BY <2>1, FilesRead
  <2>6. c.kind \notin Gemma =>
          (config.tie <=> \E i \in WeightsSource(c) : "output" \notin Part(c, i))
    BY <2>4 DEF Tying, TiedByFiles, WeightsSource
  <2>7. c.kind \in Gemma =>
          (config.tie <=> ((OnDisk(ref) /\ models = 0 => asked # "no") =>
                             "output" \notin Part(c, c.opened)))
    BY <2>4 DEF Tying
  <2>8. ASSUME ~ config.tie PROVE Loaded("output")
    <3>1. "output" \in Part(c, c.opened)
      BY <2>5, <2>6, <2>7, <2>8
    <3>. QED
      BY <2>3, <2>5, <2>8, <3>1
  <2>9. ASSUME c.head, ~ c.split, ~ Loaded("output")
        PROVE  c.kind \in Gemma /\ OnDisk(ref) /\ models = 0 /\ asked = "no"
    <3>1. WeightsSource(c) = {c.opened} /\ Part(c, c.opened) = All(c)
      BY <2>1, <2>9, FilesRead
    <3>2. "output" \in Part(c, c.opened)
      BY <2>2, <2>9, <3>1 DEF All
    <3>3. config.tie
      BY <2>3, <2>5, <2>9, <3>2
    <3>. QED
      BY <2>6, <2>7, <3>1, <3>2, <3>3
  <2>. QED
    BY <2>8, <2>9
<1>. QED
  BY <1>1, FlowAlways, PTL
===============================================================================
