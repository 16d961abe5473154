---------------------------- MODULE MCPackedRows ----------------------------
(* Small layers.  Two and four V heads per K head, so that no permutation  *)
(* is its own inverse; K heads fewer than ranks, as many, and more.        *)
EXTENDS PackedRows

MCHeads ==
  { [k |-> 2, v |-> 8, kdim |-> 2, vdim |-> 4], [k |-> 4, v |-> 8, kdim |-> 1, vdim |-> 4],
    [k |-> 2, v |-> 4, kdim |-> 2, vdim |-> 8], [k |-> 2, v |-> 2, kdim |-> 1, vdim |-> 4],
    [k |-> 3, v |-> 6, kdim |-> 1, vdim |-> 4], [k |-> 1, v |-> 4, kdim |-> 2, vdim |-> 4] }

\* Blocks of a head or a part of one, as Q8_0 with heads of 128, of two heads,
\* as Q4_K with heads of 128, and rows with a prefix, as IQ4_KS.
MCFormats ==
  { [weights |-> 4, bytes |-> 3, prefix |-> 0], [weights |-> 2, bytes |-> 2, prefix |-> 0],
    [weights |-> 8, bytes |-> 4, prefix |-> 0], [weights |-> 4, bytes |-> 3, prefix |-> 2],
    [weights |-> 4, bytes |-> 4, prefix |-> 4] }
=============================================================================
