--------------------------- MODULE MCModelRegistry ---------------------------
(***************************************************************************)
(* Two backends at two URLs, and bodies that add the second, or move and   *)
(* rename the first: enough for a tie and for different priorities, for a  *)
(* duplicate name, a rename, and a list that shrinks to nothing.           *)
(***************************************************************************)
EXTENDS ModelRegistry, TLC

CONSTANTS u1, u2, m1

Backend(name, url, type, priority) ==
  [name |-> name, url |-> url, type |-> type, priority |-> priority]

MCInitialBackends == << Backend("x", u1, "ollama", 0) >>
MCBodies == { Backend("y", u2, "llamacpp", None), Backend("x", u2, "ollama", 1) }

MCInitialServers == (u1 :> {m1}) @@ (u2 :> {m1})
MCServerStates == {{m1}, {}, Down, Silent}
=============================================================================
