----------------------------- MODULE MergedLoad -----------------------------
(***************************************************************************)
(* What a fused projection (qkv_proj, gate_up_proj) promises while its     *)
(* GGUF shards arrive and when it is asked to multiply: the shards that    *)
(* arrived, in whatever order, decide the answer, and nothing else does.   *)
(* A complete layer answers with its whole output; an incomplete one with  *)
(* too few rows or with an error, never with rows of the right number and  *)
(* the wrong contents.                                                     *)
(***************************************************************************)
CONSTANT Shard      \* the shard ids of the layer

VARIABLES
  fit,      \* has every shard in the file a type the plugin can multiply by?
  got,      \* the shards whose weight arrived
  phase,    \* "loading", "ready" or "refused"
  answer    \* the last answer: "none", "whole", "short" or "error"

vars == <<fit, got, phase, answer>>

Init ==
  /\ fit \in BOOLEAN
  /\ got = {}
  /\ phase = "loading"
  /\ answer = "none"

\* A shard arrives, for the first time or again.
Deliver(s) ==
  /\ phase = "loading"
  /\ got' = got \cup {s}
  /\ UNCHANGED <<fit, phase, answer>>

\* Loading ends and the layer serves.
Finish ==
  /\ phase = "loading"
  /\ phase' = "ready"
  /\ UNCHANGED <<fit, got, answer>>

\* Loading ends with an exception: the layer never serves again.
Refuse ==
  /\ phase = "loading"
  /\ phase' = "refused"
  /\ UNCHANGED <<fit, got, answer>>

\* The weights are loaded again into the layer that serves.
Reload ==
  /\ phase = "ready"
  /\ phase' = "loading"
  /\ answer' = "none"
  /\ UNCHANGED <<fit, got>>

Answer ==
  /\ phase = "ready"
  /\ answer' \in IF got = Shard /\ fit THEN {"whole"} ELSE {"short", "error"}
  /\ UNCHANGED <<fit, got, phase>>

Next ==
  \/ \E s \in Shard : Deliver(s)
  \/ Finish
  \/ Refuse
  \/ Reload
  \/ Answer

Spec == Init /\ [][Next]_vars
=============================================================================
