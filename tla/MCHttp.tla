------------------------------- MODULE MCHttp -------------------------------
(***************************************************************************)
(* HttpExchange for TLC: the bounds are in the configurations.             *)
(***************************************************************************)
EXTENDS HttpExchange
=============================================================================
