-------------------------- MODULE MCInferencePool --------------------------
(***************************************************************************)
(* Five calls from two depths compete for two permits: enough for two    *)
(* grants in one instant, a cancelled entry behind, between and ahead of   *)
(* live ones, and a cancellation that arrives after its grant.             *)
(***************************************************************************)
EXTENDS InferencePool

MCDepths == 0 .. 1
============================================================================
