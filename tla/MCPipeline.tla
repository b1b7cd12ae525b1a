------------------------------- MODULE MCPipeline -------------------------------
(***************************************************************************)
(* Pipeline on every text of up to seven cells of the digit 1 and the      *)
(* separator, more than two chunks, and on some numbers with zeros.        *)
(***************************************************************************)
EXTENDS Pipeline

MCTexts == UNION {[1..n -> {1, SEP}] : n \in 0..7} \cup
           {<<0>>, <<0, 1>>, <<1, 0, SEP, 0>>, <<0, 0, SEP, 0, 1>>}
MCGarbage == {<<>>, <<1>>}
=============================================================================
