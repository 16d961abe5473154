------------------------------ MODULE MCGGUFMoE ------------------------------
(* Three experts, two per token, requests of one and of two tokens, of     *)
(* which two count as a long batch.  The types cover every kind of route:  *)
(* Q4_0 (extension; its Triton kernel reads blocks of 8), Q5_K (extension),*)
(* IQ4_NL (extension for vectors only), TQ2_0 (Triton only), IQ4_K (no     *)
(* kernel: the slow loop) and two ROCmFPX types, on a gfx115x device with  *)
(* the extension.  Widths are the bytes of 256 weights.                    *)
EXTENDS GGUFMoE

MCTypes == {"F32", "Q4_0", "Q5_K", "IQ4_NL", "TQ2_0", "IQ4_K", "R100", "R102"}
MCFewTypes == {"F32", "Q5_K", "TQ2_0", "R100"}

MCMMQ       == {"Q4_0", "Q5_K", "TQ2_0"}
MCMMVQ      == MCMMQ \cup {"IQ4_NL"}
MCROCmFPX   == {"R100", "R102"}
MCTritonMoE == MCMMVQ \cup MCROCmFPX
MCGEMM      == {"Q4_0", "Q5_K"}
MCGEMV      == MCGEMM \cup {"IQ4_NL"}
MCServable  == Types \ {"F32"}

MCWidth == [t \in Types |-> CASE t \in {"Q4_0", "IQ4_NL", "R100", "IQ4_K"} -> 144
                              [] t = "Q5_K"  -> 176
                              [] t = "TQ2_0" -> 66
                              [] t = "R102"  -> 208
                              [] OTHER       -> 1024]
MCTritonBlockM == [t \in Types |-> IF t = "Q4_0" THEN 8 ELSE 4]
MCBatches == {1, 2}
=============================================================================
