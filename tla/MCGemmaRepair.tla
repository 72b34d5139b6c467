---------------------------- MODULE MCGemmaRepair ----------------------------
(***************************************************************************)
(* Arguments of up to three strings: an empty one, a plain one, and two    *)
(* with an escaped quote; written with and without spaces.                 *)
(***************************************************************************)
EXTENDS GemmaRepair

MCStrings == { <<>>, <<"x">>, <<"x", Escape, Quote>>, <<Escape, Quote, "x">> }
MCValues == [shape : {"object", "list"}, strings : UNION {[1..n -> MCStrings] : n \in 1..3}]
MCGaps == { <<>>, <<" ">> }
=============================================================================
