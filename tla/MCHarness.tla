----------------------------- MODULE MCHarness -----------------------------
(***************************************************************************)
(* Harness for TLC: the bounds are in the configurations.                  *)
(***************************************************************************)
EXTENDS Harness
=============================================================================
