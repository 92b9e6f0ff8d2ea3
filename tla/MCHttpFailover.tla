--------------------------- MODULE MCHttpFailover ---------------------------
(***************************************************************************)
(* HttpFailover for TLC: the bounds are in the configurations.             *)
(***************************************************************************)
EXTENDS HttpFailover
=============================================================================
