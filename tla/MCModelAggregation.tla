------------------------- MODULE MCModelAggregation -------------------------
(***************************************************************************)
(* Three backends of both types and different priorities, with models in   *)
(* common and a list that names one twice.                                 *)
(***************************************************************************)
EXTENDS ModelAggregation, TLC

CONSTANTS u1, u2, u3, m1, m2

MCUrls == {u1, u2, u3}
MCModels == {m1, m2}
Backend(name, url, type, priority) ==
  [name |-> name, url |-> url, type |-> type, priority |-> priority]

MCConfigs == << Backend("z", u3, "ollama", 2), Backend("x", u1, "ollama", 0),
                Backend("y", u2, "llamacpp", 1) >>
MCAnswers == { <<>>, <<m1>>, <<m2, m1>>, <<m1, m1>> }
MCInitialServers == (u1 :> <<m1>>) @@ (u2 :> <<m2, m1>>) @@ (u3 :> <<m1, m1>>)
=============================================================================
