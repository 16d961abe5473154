----------------------------- MODULE MCModelLoad -----------------------------
(* One repository or folder of each kind that matters: a split, its second   *)
(* part alone, a split beside a whole file, prefixed types, lower case, a    *)
(* subdirectory.  The part not opened has the head, or a shard and the norm. *)
EXTENDS ModelLoad

File(q, p) == [sub |-> FALSE, sep |-> "-", stem |-> 1, quant |-> q, part |-> p]

MCFolders ==
  { {File("Q4_K_M", 1), File("Q4_K_M", 2)},
    {File("Q4_K_M", 2)},
    {File("Q4_K_M", 0), File("Q4_K_M", 1), File("Q4_K_M", 2)},
    {File("UD-Q4_K_XL", 0), [File("Q4_K_XL", 0) EXCEPT !.stem = 3]},
    {[File("q4_k_m", 0) EXCEPT !.sep = "."]},
    {[File("Q4_K_M", 0) EXCEPT !.sub = TRUE], File("F16", 0)} }

MCRests == {{"output"}, {"k", "norm"}}
=============================================================================
