------------------------- MODULE MCLangfuseCollectors -------------------------
(***************************************************************************)
(* Two calls that replace the collector while a request is under way.      *)
(***************************************************************************)
EXTENDS LangfuseCollectors
=============================================================================
