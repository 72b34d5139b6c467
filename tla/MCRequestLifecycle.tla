------------------------- MODULE MCRequestLifecycle -------------------------
(***************************************************************************)
(* One request of every kind, on one of two backends, under rules for both *)
(* phases: one for all models that also names an id nothing is registered  *)
(* under, one for a family of models on one backend, and one with the      *)
(* empty pattern, which only an update or config.toml can bring in.        *)
(***************************************************************************)
EXTENDS RequestLifecycle, TLC

CONSTANTS r1, b1, b2, fix

Rule(pattern, backend, pre, post) ==
  [pattern |-> pattern, backend |-> backend, pre |-> pre, post |-> post]

MCBodies == { Rule(<<"*">>, AnyBackend, {fix}, {"gone"}), Rule(<<"G", "*">>, b1, {}, {fix}),
              Rule(<<>>, AnyBackend, {fix}, {fix}) }
MCInitialBodies == { <<Rule(<<"G", "*">>, b1, {}, {fix}), Rule(<<"*">>, AnyBackend, {fix}, {"gone"})>> }

MCLower == "G" :> "g"
Texts(chars, n) == UNION {[1..k -> chars] : k \in 0..n}
MCPatterns == Texts({"G", "q", "*", "?"}, 3)
MCTexts == Texts({"g", "q"}, 3)

\* "unset" is the other way round for native and v1; the body of a request that
\* is passed through is not read.
MCCalls ==
  {call \in [path : {"native", "v1", "show", "other"}, json : BOOLEAN,
             model : {NoModel, <<"g", "q">>}, stream : {"yes", "no", "unset"}] :
     /\ call.json = (call.model # NoModel)
     /\ ~ call.json => call.stream = "unset"
     /\ call.path = "native" => call.stream # "yes"
     /\ call.path = "v1" => call.stream # "no"
     /\ call.path \in {"show", "other"} => call.stream = "unset"
     /\ call.path = "other" => ~ call.json}
=============================================================================
