---------------------------- MODULE LayerPromise ----------------------------
(***************************************************************************)
(* What a linear or an embedding layer promises its caller, and what the   *)
(* fake implementations _fused_mul_mat_gguf_fake and                       *)
(* _apply_gguf_embedding_fake promise torch.compile: whatever the packed   *)
(* format, the platform and the number of tokens, a request of shape lead  *)
(* is answered with a tensor of shape lead x width, of the right numbers.  *)
(***************************************************************************)
EXTENDS Naturals, Sequences

CONSTANTS
  Nothing,  \* no answer yet
  Refused   \* an exception that says the request is not valid

VARIABLES
  width,    \* features of a result: rows of the weight, or hidden size
  request,  \* shape of the last request, without its feature dimension
  answer    \* the last result

vars == <<width, request, answer>>

Init == width \in Nat /\ request = <<>> /\ answer = Nothing

\* Only a request with a dimension of size 0 may be turned down.
Ask ==
  /\ request' \in Seq(Nat)
  /\ \/ answer' = [shape |-> Append(request', width), exact |-> TRUE]
     \/ answer' = Refused /\ \E i \in DOMAIN request' : request'[i] = 0
  /\ UNCHANGED width

Spec == Init /\ [][Ask]_vars
=============================================================================
