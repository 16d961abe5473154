----------------------------- MODULE MCQuantOps -----------------------------
(***************************************************************************)
(* Instances of QuantOps: every type on every platform.  Rows on both      *)
(* sides of 5120, token counts on both sides of 2, 6, 8, 16 and of the     *)
(* block sizes 32 and 256, rows of two 256-weight blocks.                  *)
(***************************************************************************)
EXTENDS QuantOps

\* Every type on every platform; of the formats with a scale per row one has a row
\* too long for its scales at 8704 weights, the others have not.
Layers ==
  [ extension : {"none", "old", "full"}, device : {"nvidia", "rocm", "gfx115x"},
    use : {"linear", "embedding"}, rank : {1, 2}, type : ReadableTypes,
    rows : {64, 6144}, hidden : {512} ]
  \cup
  [ extension : {"full"}, device : {"nvidia"}, use : {"linear"}, rank : {1},
    type : RowScaledTypes, rows : {64}, hidden : {8704} ]

\* Everything that keeps the promise.
Served == { s \in Layers : Delivers(s) }

Requests ==
  {<<n>> : n \in {0, 1, 2, 3, 6, 7, 8, 9, 16, 17, 32, 256, 512}}
  \cup {<<b, n>> : b \in {0, 1, 2}, n \in {1, 2, 3, 8, 9}}
=============================================================================
