----------------------------- MODULE MCFailover -----------------------------
(***************************************************************************)
(* Bounded instances of Failover for TLC.                                  *)
(***************************************************************************)
EXTENDS Failover
=============================================================================
