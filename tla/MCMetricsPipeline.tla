--------------------------- MODULE MCMetricsPipeline ---------------------------
(***************************************************************************)
(* A channel and a batch of two, a prune every second batch, a retention   *)
(* of one day: every bound is reached and overrun.                         *)
(***************************************************************************)
EXTENDS MetricsPipeline
=============================================================================
