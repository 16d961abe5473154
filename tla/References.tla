----------------------------- MODULE References -----------------------------
(***************************************************************************)
(* How a GGUF reference becomes a file: EngineArgs.create_model_config as  *)
(* plugin.py patches it, the classification of references and its caches   *)
(* (gguf_utils.py), the source of the HF config (config_parser.py), and    *)
(* _prepare_weights (loader.py) with the choice among the files of a       *)
(* folder (weight_utils.py).                                               *)
(*                                                                         *)
(* A reference is its form and the quant type it names.  A file is the     *)
(* parts of its name that patterns and sorting look at, and what it holds. *)
(* One process: the caches outlive a failed attempt, the folder does not   *)
(* have to stay the same between two of them.                              *)
(***************************************************************************)
EXTENDS Integers, FiniteSets

CONSTANTS
  Folders,     \* sets of files a reference may point at
  MaxAttempts, \* bound: EngineArgs built one after another in the process
  MaxCalls     \* bound: calls of create_model_config on one of them

ASSUME BoundsAssumption == MaxAttempts \in Nat \ {0} /\ MaxCalls \in Nat \ {0}

\* The quant types that occur.  The second is the first in lower case, the
\* third a prefixed one that ends in the fourth.
Quants == {"Q4_K_M", "q4_k_m", "UD-Q4_K_XL", "Q4_K_XL", "F16"}

\* "file": x.gguf; "blob": a GGUF file of another name; "local": dir:QT;
\* "remote": repo:QT; "hubfile": repo/x.gguf.  The rest are config sources.
Forms == {"file", "blob", "local", "remote", "hubfile"}
Sources == {"hf_config", "tokenizer", "repo", "parent"}
References ==
  { r \in [form : Forms, quant : Quants] :
      r.form \in {"file", "blob", "hubfile"} => r.quant = "F16" }
SourceRefs == [form : Sources, quant : {"F16"}]
Source(s) == [form |-> s, quant |-> "F16"]

\* Files: in a subdirectory?, what precedes the quant type, dashes before it,
\* the quant type, its part of a split (0: not split).
Files == [sub : BOOLEAN, sep : {".", "-"}, stem : Nat, quant : Quants,
          part : 0 .. 2]

ASSUME FoldersAssumption == \A F \in Folders : F \subseteq Files

VARIABLES
  ref,        \* the reference the user gives
  tokenizer, hf_config_path,   \* does the user name them?
  folder,     \* the files there
  there,      \* is the file of a file reference on disk by now?
  asked,      \* the cache of check_gguf_file for it
  args,       \* EngineArgs: model, model_weights, load_format
  attempts, calls,
  phase       \* "args", "config", "prepare", then the loader's; "raised" and
              \* "other": refused, or taken for no GGUF model, before loading

user == <<ref, tokenizer, hf_config_path, folder>>
refVars == <<user, there, asked, args, attempts, calls, phase>>

-----------------------------------------------------------------------------
(* Classification.                                                         *)

\* is_valid_gguf_quant_type: exact names, and names with a known suffix
IsValidQuant(q) == q \notin {"q4_k_m", "UD-Q4_K_XL"}

\* is_nonstandard_gguf_quant_type
IsNonstandardQuant(q) == q = "UD-Q4_K_XL"

IsRemoteGGUF(r) ==
  r.form = "remote" /\ (IsValidQuant(r.quant) \/ IsNonstandardQuant(r.quant))

IsLocalGGUFQuant(r) == r.form = "local" /\ IsValidQuant(r.quant)

OnDisk(r) == r.form \in {"file", "blob"}

\* Mutant of CheckGGUFFile: the suffix is asked for, not the header.
CheckGGUFFileSuffix(r) == r.form = "file" /\ (asked = "yes" \/ (asked = "unasked" /\ there))

\* check_gguf_file: the file system is asked once per path and process.
CheckGGUFFile(r) == OnDisk(r) /\ (asked = "yes" \/ (asked = "unasked" /\ there))

\* What the cache holds afterwards.
Asked(r) == IF OnDisk(r) /\ asked = "unasked"
            THEN IF there THEN "yes" ELSE "no" ELSE asked

IsGGUF(r) == CheckGGUFFile(r) \/ IsRemoteGGUF(r) \/ IsLocalGGUFQuant(r)

\* Mutant of IsGGUFReference: the suffix does not count.
IsGGUFReferenceSeen(r) == IsGGUF(r)

\* _is_gguf_reference: a name that ends in .gguf is one unseen.
BySuffix(r) == r.form \in {"file", "hubfile"}
IsGGUFReference(r) == BySuffix(r) \/ IsGGUF(r)

\* _get_gguf_config_source
ConfigSource(r) ==
  IF hf_config_path THEN Source("hf_config")
  ELSE IF tokenizer THEN Source("tokenizer")
  ELSE IF IsRemoteGGUF(r) THEN Source("repo")
  ELSE IF CheckGGUFFile(r) THEN Source("parent")
  ELSE r

\* Which calls reach check_gguf_file?
AsksFile(r) == ~ BySuffix(r) \/ ~ (hf_config_path \/ tokenizer)

-----------------------------------------------------------------------------
(* The choice of a file.                                                   *)
Dashes(f) == f.stem + (IF f.sep = "-" THEN 1 ELSE 0)
             + (IF f.quant = "UD-Q4_K_XL" THEN 1 ELSE 0) + (IF f.part > 0 THEN 3 ELSE 0)

\* `*-QT` matches names in which the quant type goes on to the left.
EndsWith(q, r) == q = r \/ (q = "UD-Q4_K_XL" /\ r = "Q4_K_XL")

\* resolve_local_gguf
LocalMatches(q) ==
  { f \in folder : ~ f.sub /\ EndsWith(f.quant, q)
                   /\ (f.sep = "-" \/ f.quant # q) }

\* download_gguf: upper and lower case, after a dot or a dash, and, as glob
\* looks into the folder itself only, not in its subdirectories.
DownloadMatches(q) ==
  { f \in folder : /\ ~ f.sub
                   /\ \/ EndsWith(f.quant, q)
                      \/ {f.quant, q} = {"Q4_K_M", "q4_k_m"} }

Matches(r) == IF r.form = "local" THEN LocalMatches(r.quant) ELSE DownloadMatches(r.quant)

\* Mutant of Before: by number of dashes only.
BeforeByDashes(f, g) == Dashes(f) <= Dashes(g)

\* The order of the sort: dashes, then the name, of which the part is known.
Before(f, g) ==
  \/ Dashes(f) < Dashes(g)
  \/ /\ Dashes(f) = Dashes(g)
     /\ f.part <= g.part \/ [f EXCEPT !.part = 0] # [g EXCEPT !.part = 0]

\* The files the first of the sorted matches can be.
Chosen(r) ==
  CASE r.form \in {"local", "remote"} ->
         { f \in Matches(r) : \A g \in Matches(r) : Before(f, g) }
    [] r.form \in {"file", "blob"} -> IF there THEN folder ELSE {}
    [] r.form = "hubfile" -> folder
    [] OTHER -> {}

-----------------------------------------------------------------------------
NewArgs == [model |-> ref, model_weights |-> {}, load_format |-> "auto"]

InitReferences ==
  /\ ref \in References
  /\ folder \in Folders
  /\ tokenizer \in BOOLEAN /\ hf_config_path \in BOOLEAN
  /\ there \in {b \in BOOLEAN : ~ OnDisk(ref) => b}
  /\ asked = "unasked"
  /\ args = NewArgs
  /\ attempts = 1 /\ calls = 0
  /\ phase = "args"

\* Mutant of Rewritten: self.model is rewritten before it is remembered.
RewrittenFirst(r) ==
  [model |-> ConfigSource(r), load_format |-> "gguf",
   model_weights |-> IF args.model_weights = {} THEN {ConfigSource(r)}
                     ELSE args.model_weights]

\* create_model_config of a GGUF model
Rewritten(r) ==
  [model |-> ConfigSource(r), load_format |-> "gguf",
   model_weights |-> IF args.model_weights = {} THEN {r} ELSE args.model_weights]

\* The patched create_model_config; vLLM may call it again on the same object,
\* whose model is then the source of the config.
CreateModelConfig ==
  /\ phase \in {"args", "config"}
  /\ calls < MaxCalls
  /\ calls' = calls + 1
  /\ phase' = "config"
  /\ IF IsGGUFReference(args.model)
     THEN /\ args' = Rewritten(args.model)
          /\ asked' = IF AsksFile(args.model) THEN Asked(args.model) ELSE asked
     ELSE /\ asked' = Asked(args.model)
          /\ UNCHANGED args
  /\ UNCHANGED <<user, there, attempts>>

\* GGUFConfigParser.parse; HFConfigParser raises for what is no repository and
\* no directory.  Without load_format "gguf" the plugin is not in the way.
ParseConfig ==
  /\ phase = "config"
  /\ args.load_format = "gguf"
  /\ phase' = IF args.model.form \in Sources \/ CheckGGUFFile(args.model)
              THEN "prepare" ELSE "raised"
  /\ asked' = Asked(args.model)
  /\ UNCHANGED <<user, there, args, attempts, calls>>

NotGGUF ==
  /\ phase = "config" /\ args.load_format # "gguf"
  /\ phase' = "other"
  /\ UNCHANGED <<user, there, asked, args, attempts, calls>>

\* The user builds EngineArgs anew after an error, in the same process, and may
\* have put the file in its place, or name a tokenizer this time.
TryAgain ==
  /\ phase \in {"raised", "other", "failed"} /\ attempts < MaxAttempts
  /\ attempts' = attempts + 1 /\ calls' = 0
  /\ args' = NewArgs /\ phase' = "args"
  /\ there' \in {there, TRUE}
  /\ tokenizer' \in BOOLEAN
  /\ UNCHANGED <<ref, hf_config_path, folder, asked>>

\* A download ends, or the user puts the file in its place, between two calls
\* that look for it.
FileAppears ==
  /\ phase \in {"args", "config", "prepare"}
  /\ ~ there /\ there' = TRUE
  /\ UNCHANGED <<user, asked, args, attempts, calls, phase>>

-----------------------------------------------------------------------------
(* Properties.                                                             *)

\* However often create_model_config rewrites one EngineArgs, and whatever
\* appears on disk in between, the loader is handed the user's reference and
\* never the source of the config that took its place.
ReferenceKept ==
  phase \notin {"args", "other", "raised"} /\ args.load_format = "gguf" =>
    args.model_weights = {ref}

\* A GGUF file that is in its place, whenever it got there, is refused for one
\* reason only, an answer check_gguf_file gave before it was there, and only
\* where nothing but that answer says what the config is or that it is GGUF.
RefusedOnlyWhenStale ==
  OnDisk(ref) /\ there /\ phase \in {"raised", "other"} =>
    /\ asked = "no"
    /\ ref.form = "blob" \/ ~ (tokenizer \/ hf_config_path)

\* The file chosen is the first of its split, a whole file if there is one of
\* the same name, and its name ends in the quant type that was asked for.
FirstOfItsSplit ==
  ref.form \in {"local", "remote"} =>
    \A f \in Chosen(ref) :
      /\ \A g \in Matches(ref) :
           [g EXCEPT !.part = 0] = [f EXCEPT !.part = 0] => f.part <= g.part
      /\ EndsWith(f.quant, ref.quant) \/ {f.quant, ref.quant} = {"Q4_K_M", "q4_k_m"}
=============================================================================
