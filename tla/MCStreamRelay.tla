---------------------------- MODULE MCStreamRelay ----------------------------
(***************************************************************************)
(* Answers of up to four frames, cut inside a line or not, with and        *)
(* without what the postprocessors and the trace cannot read.              *)
(***************************************************************************)
EXTENDS StreamRelay

MCFrames == { <<"line">>, <<"line", "head">>, <<"tail">>, <<"broken">>, <<"bytes">> }
=============================================================================
