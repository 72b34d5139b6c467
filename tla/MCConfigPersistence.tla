------------------------- MODULE MCConfigPersistence -------------------------
(***************************************************************************)
(* Two calls at a time; every handler, and so every field.                 *)
(***************************************************************************)
EXTENDS ConfigPersistence
=============================================================================
