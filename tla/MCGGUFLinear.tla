---------------------------- MODULE MCGGUFLinear ----------------------------
(* A qkv layer and a merged layer of three shards with five types of three *)
(* row widths: two pairs share a width, and no route serves "I8".          *)
EXTENDS GGUFLinear

MCTypes == {"F32", "Q4_0", "IQ4_NL", "Q8_0", "I8"}
MCLoadable == {"F32", "Q4_0", "IQ4_NL", "Q8_0"}
MCServable == MCLoadable
MCWidth == [t \in Types |-> CASE t = "F32"            -> 8
                                [] t = "Q8_0"           -> 4
                                [] t = "I8"             -> 4
                                [] OTHER                -> 2]
MCRows == [s \in Shard |-> IF s = 0 THEN 3 ELSE 2]
=============================================================================
