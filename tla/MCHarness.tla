------------------------------ MODULE MCHarness ------------------------------
(* One engine and a kernel call or operator beside it.                       *)
EXTENDS Harness
=============================================================================
